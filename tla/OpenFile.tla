------------------------------ MODULE OpenFile ------------------------------
(***************************************************************************)
(* Open files: the system file table and the calls of                      *)
(* kern/syscall/file_syscalls.c, the per-process file table that fork      *)
(* copies and proc_destroy closes (kern/proc/proc.c), and the reference    *)
(* count of a vnode (kern/vfs/vnode.c).                                    *)
(*                                                                         *)
(* A process has one thread, so its ft_lock is never contended and what    *)
(* runs under it is one step.  of_lock is shared by the processes that     *)
(* share an open file: where a call gives it up, and where it works        *)
(* without it, other processes may step in.                                *)
(***************************************************************************)
EXTENDS Integers, FiniteSets, FiniteSetsExt

CONSTANTS Users,            \* the processes
          Menu,             \* the menu thread, which runs and reaps programs
          Vnodes,
          OPEN_MAX,         \* descriptors are 0..OPEN_MAX-1
          FirstFd,          \* STDERR_FILENO + 1, the first one open considers
          SYSTEM_OPEN_MAX,
          OffMod,           \* off_t has the values -OffMod..OffMod-1
          CountMod,         \* countRef is an unsigned modulo CountMod
          MaxRefs,          \* bound on the references taken on a vnode
          Calls,            \* the system calls that programs make
          NULL

ASSUME OpenFileAssumption ==
  /\ Menu \notin Users /\ NULL \notin Users \cup {Menu} \cup Vnodes \cup Int
  /\ IsFiniteSet(Users) /\ "none" \notin Users /\ "free" \notin Users
  /\ {OPEN_MAX, FirstFd, SYSTEM_OPEN_MAX, OffMod, CountMod, MaxRefs} \subseteq Nat
  /\ 0 < FirstFd /\ FirstFd < OPEN_MAX /\ 0 < SYSTEM_OPEN_MAX
  /\ 0 < OffMod /\ 0 < MaxRefs /\ MaxRefs < CountMod
  /\ Calls \subseteq {"open", "close", "dup2", "rw", "lseek", "fork", "exit"}

Actors == Users \cup {Menu}
Fds == 0..(OPEN_MAX - 1)
Files == 1..SYSTEM_OPEN_MAX

VARIABLES
  fileTable,                          \* p->fileTable[fd]: a slot, or NULL
  vn, offset, countRef, of_lock,      \* systemFileTable.ft[i]; of_lock is "none"
                                      \* (no such lock), "free" or its holder
  vn_refcount,                        \* 0: reclaimed
  ft_copy_lock,                       \* its holder, or NULL
  state, parent,                      \* "none", "running", "zombie"
  pc, of, fd, v, old, other, cnt,     \* locals of a thread
  fault,                              \* "none", or what stopped the kernel
  raced                               \* a count changed under openfileIncrRefCount, or
                                      \* a slot was reused before its closer was done

file_vars == <<vn, offset, countRef, of_lock>>
local_vars == <<pc, of, fd, v, old, other, cnt>>
vars == <<fileTable, file_vars, vn_refcount, ft_copy_lock, state, parent, local_vars,
          fault, raced>>

Pcs == {"none", "menu", "std", "user", "o_slot", "o_fd", "c_lock", "c_rel", "c_vfs",
        "c_destroy", "u_incr", "rw", "f_read", "f_write", "f_end", "d_fd"}

sft_init ==
  /\ fileTable = [p \in Users |-> [f \in Fds |-> NULL]]
  /\ vn = [i \in Files |-> NULL]
  /\ offset = [i \in Files |-> 0]
  /\ countRef = [i \in Files |-> 0]
  /\ of_lock = [i \in Files |-> "none"]
  /\ vn_refcount = [x \in Vnodes |-> 0]
  /\ ft_copy_lock = NULL
  /\ state = [p \in Users |-> "none"]
  /\ parent = [p \in Users |-> NULL]
  /\ pc = [a \in Actors |-> IF a = Menu THEN "menu" ELSE "none"]
  /\ of = [a \in Actors |-> NULL]
  /\ fd = [a \in Actors |-> 0]
  /\ v = [a \in Actors |-> NULL]
  /\ old = [a \in Actors |-> NULL]
  /\ other = [a \in Actors |-> NULL]
  /\ cnt = [a \in Actors |-> 0]
  /\ fault = "none"
  /\ raced = FALSE
-----------------------------------------------------------------------------
Goto(a, l) == pc' = [pc EXCEPT ![a] = l]

\* The call returns and its locals are dead.
Return(a) ==
  /\ Goto(a, IF a = Menu THEN "menu" ELSE "user")
  /\ of' = [of EXCEPT ![a] = NULL]
  /\ fd' = [fd EXCEPT ![a] = 0]
  /\ v' = [v EXCEPT ![a] = NULL]
  /\ old' = [old EXCEPT ![a] = NULL]
  /\ other' = [other EXCEPT ![a] = NULL]
  /\ cnt' = [cnt EXCEPT ![a] = 0]

\* A dead lock is used, an assertion fails or a NULL vnode is dereferenced.
Crash(why) ==
  /\ fault' = why
  /\ UNCHANGED <<fileTable, file_vars, vn_refcount, ft_copy_lock, state, parent,
                 local_vars, raced>>

\* lock_acquire(of->of_lock) and then A: it waits for the holder.
WithLock(i, A) ==
  IF of_lock[i] = "none" THEN Crash("lock") ELSE of_lock[i] = "free" /\ A

\* --of->countRef, an unsigned.
Minus1(c) == (c + CountMod - 1) % CountMod

\* A vnode is used: a NULL pointer, or one to a reclaimed vnode, stops the kernel.
WithVnode(x, A) ==
  IF x = NULL THEN Crash("vnode")
  ELSE IF vn_refcount[x] = 0 THEN Crash("vnode") ELSE A

\* Mutant of vnode_decref: the count reaches zero one reference early.
DecrefEarly(x) ==
  vn_refcount' = [vn_refcount EXCEPT ![x] = IF @ > 2 THEN @ - 1 ELSE 0]

\* vnode_decref, called by vfs_close: at the last reference the file is reclaimed.
vnode_decref(x) == vn_refcount' = [vn_refcount EXCEPT ![x] = @ - 1]

\* VOP_INCREF.
vnode_incref(x) == vn_refcount' = [vn_refcount EXCEPT ![x] = @ + 1]
-----------------------------------------------------------------------------
\* sys_open: vfs_open returns a vnode with a reference for the caller.
sys_open(a) ==
  /\ pc[a] = "user" /\ "open" \in Calls
  /\ \E x \in Vnodes :
       /\ vn_refcount[x] < MaxRefs
       /\ vnode_incref(x)
       /\ v' = [v EXCEPT ![a] = x]
  /\ Goto(a, "o_slot")
  /\ UNCHANGED <<fileTable, file_vars, ft_copy_lock, state, parent, of, fd, old, other, cnt,
                 fault, raced>>

FreeFiles == {i \in Files : vn[i] = NULL}

\* A slot of the system table is filled in for vnode x, with a new of_lock.  The
\* closer that cleared vn may still be on its way to the slot's lock.
FillSlot(i, x) ==
  /\ raced' = (raced \/ \E b \in Users : of[b] = i /\ pc[b] \in {"c_rel", "c_vfs", "c_destroy"})
  /\ vn' = [vn EXCEPT ![i] = x]
  /\ offset' = [offset EXCEPT ![i] = 0]
  /\ countRef' = [countRef EXCEPT ![i] = 1]
  /\ of_lock' = [of_lock EXCEPT ![i] = "free"]

\* The search under systemFileTable.lk; ENFILE gives the vnode back.
OpenSlot(a) ==
  /\ pc[a] = "o_slot"
  /\ IF FreeFiles # {}
     THEN /\ FillSlot(Min(FreeFiles), v[a])
          /\ of' = [of EXCEPT ![a] = Min(FreeFiles)]
          /\ Goto(a, "o_fd")
          /\ UNCHANGED <<fileTable, vn_refcount, ft_copy_lock, state, parent, fd, v, old, other,
                         cnt, fault>>
     ELSE WithVnode(v[a],
            /\ vnode_decref(v[a])
            /\ Return(a)
            /\ UNCHANGED <<fileTable, file_vars, ft_copy_lock, state, parent, fault, raced>>)

FreeFds(p) == {f \in FirstFd..(OPEN_MAX - 1) : fileTable[p][f] = NULL}

\* The search under ft_lock; EMFILE gives the vnode back, and only the vnode.
OpenFd(a) ==
  /\ pc[a] = "o_fd"
  /\ WithVnode(v[a],
       /\ IF FreeFds(a) # {}
          THEN /\ fileTable' = [fileTable EXCEPT ![a][Min(FreeFds(a))] = of[a]]
               /\ UNCHANGED vn_refcount
          ELSE vnode_decref(v[a]) /\ UNCHANGED fileTable
       /\ Return(a)
       /\ UNCHANGED <<file_vars, ft_copy_lock, state, parent, fault, raced>>)
-----------------------------------------------------------------------------
\* The descriptor given up by close or dup2 is out of the table: dup2 goes on.
DropDone(a) ==
  IF old[a] = NULL
  THEN Return(a) /\ UNCHANGED fileTable
  ELSE /\ fileTable' = [fileTable EXCEPT ![a][fd[a]] = old[a]]
       /\ Goto(a, "u_incr")
       /\ UNCHANGED <<of, fd, v, old, other, cnt>>

\* sys_close up to lock_release(curproc->ft_lock).
sys_close(a) ==
  /\ pc[a] = "user" /\ "close" \in Calls
  /\ \E f \in Fds :
       /\ fileTable[a][f] # NULL
       /\ of' = [of EXCEPT ![a] = fileTable[a][f]]
       /\ fileTable' = [fileTable EXCEPT ![a][f] = NULL]
  /\ Goto(a, "c_lock")
  /\ UNCHANGED <<file_vars, vn_refcount, ft_copy_lock, state, parent, fd, v, old, other, cnt,
                 fault, raced>>

\* Mutant of DropRef: the file is closed when one reference is left.
DropRefEarly(a) ==
  /\ countRef' = [countRef EXCEPT ![of[a]] = Minus1(@)]
  /\ IF Minus1(countRef[of[a]]) > 1 THEN DropDone(a) /\ UNCHANGED <<vn, of_lock>>
     ELSE /\ v' = [v EXCEPT ![a] = vn[of[a]]]
          /\ vn' = [vn EXCEPT ![of[a]] = NULL]
          /\ of_lock' = [of_lock EXCEPT ![of[a]] = a]
          /\ Goto(a, "c_rel")
          /\ UNCHANGED <<fileTable, of, fd, old, other, cnt>>

\* Under of_lock, in sys_close and in sys_dup2: the count goes down, and at zero
\* the slot is made free for sys_open before the lock is released.
DropRef(a) ==
  /\ countRef' = [countRef EXCEPT ![of[a]] = Minus1(@)]
  /\ IF Minus1(countRef[of[a]]) > 0 THEN DropDone(a) /\ UNCHANGED <<vn, of_lock>>
     ELSE /\ v' = [v EXCEPT ![a] = vn[of[a]]]
          /\ vn' = [vn EXCEPT ![of[a]] = NULL]
          /\ of_lock' = [of_lock EXCEPT ![of[a]] = a]
          /\ Goto(a, "c_rel")
          /\ UNCHANGED <<fileTable, of, fd, old, other, cnt>>

CloseLock(a) ==
  /\ pc[a] = "c_lock"
  /\ WithLock(of[a],
       DropRef(a) /\ UNCHANGED <<offset, vn_refcount, ft_copy_lock, state, parent, fault, raced>>)

\* lock_release(of->of_lock); vn == NULL is EIO.
CloseRelease(a) ==
  /\ pc[a] = "c_rel"
  /\ IF of_lock[of[a]] # a THEN Crash("lock") ELSE
     /\ of_lock' = [of_lock EXCEPT ![of[a]] = "free"]
     /\ IF v[a] = NULL THEN Return(a) ELSE Goto(a, "c_vfs") /\ UNCHANGED <<of, fd, v, old, other, cnt>>
     /\ UNCHANGED <<fileTable, vn, offset, countRef, vn_refcount, ft_copy_lock, state, parent,
                    fault, raced>>

\* vfs_close(vn), after of_lock was released.
CloseVfs(a) ==
  /\ pc[a] = "c_vfs"
  /\ WithVnode(v[a],
       /\ vnode_decref(v[a])
       /\ Goto(a, "c_destroy")
       /\ UNCHANGED <<fileTable, file_vars, ft_copy_lock, state, parent, of, fd, v, old, other, cnt,
                      fault, raced>>)

\* lock_destroy(of->of_lock): whatever lock the slot has by now.
CloseDestroy(a) ==
  /\ pc[a] = "c_destroy"
  /\ IF of_lock[of[a]] # "free" THEN Crash("lock") ELSE
     /\ of_lock' = [of_lock EXCEPT ![of[a]] = "none"]
     /\ DropDone(a)
     /\ UNCHANGED <<vn, offset, countRef, vn_refcount, ft_copy_lock, state, parent, fault, raced>>

\* sys_dup2 under ft_lock; onto itself it does nothing.
sys_dup2(a) ==
  /\ pc[a] = "user" /\ "dup2" \in Calls
  /\ \E oldfd, newfd \in Fds :
       /\ oldfd # newfd /\ fileTable[a][oldfd] # NULL
       /\ old' = [old EXCEPT ![a] = fileTable[a][oldfd]]
       /\ fd' = [fd EXCEPT ![a] = newfd]
       /\ IF fileTable[a][newfd] = NULL
          THEN /\ fileTable' = [fileTable EXCEPT ![a][newfd] = fileTable[a][oldfd]]
               /\ Goto(a, "u_incr")
               /\ UNCHANGED of
          ELSE /\ of' = [of EXCEPT ![a] = fileTable[a][newfd]]
               /\ fileTable' = [fileTable EXCEPT ![a][newfd] = NULL]
               /\ Goto(a, "c_lock")
  /\ UNCHANGED <<file_vars, vn_refcount, ft_copy_lock, state, parent, v, other, cnt, fault, raced>>

\* The end of sys_dup2, under of_lock.
DupIncr(a) ==
  /\ pc[a] = "u_incr"
  /\ WithLock(old[a], WithVnode(vn[old[a]],
       /\ vn_refcount[vn[old[a]]] < MaxRefs
       /\ countRef' = [countRef EXCEPT ![old[a]] = (@ + 1) % CountMod]
       /\ vnode_incref(vn[old[a]])
       /\ Return(a)
       /\ UNCHANGED <<fileTable, vn, offset, of_lock, ft_copy_lock, state, parent, fault, raced>>))
-----------------------------------------------------------------------------
\* Mutant of BeginIO: the transfer starts without of_lock.
BeginIOUnlocked(a) ==
  /\ pc[a] = "user" /\ "rw" \in Calls
  /\ \E f \in Fds :
       LET i == fileTable[a][f] IN
       /\ i # NULL
       /\ WithVnode(vn[i],
            /\ of' = [of EXCEPT ![a] = i]
            /\ cnt' = [cnt EXCEPT ![a] = offset[i]]
            /\ Goto(a, "rw")
            /\ UNCHANGED <<fileTable, file_vars, vn_refcount, ft_copy_lock, state, parent, fd, v,
                           old, other, fault, raced>>)

\* file_read, file_write, sys_getdirentry: the transfer starts at of->offset and
\* sleeps in the file system with of_lock held.
BeginIO(a) ==
  /\ pc[a] = "user" /\ "rw" \in Calls
  /\ \E f \in Fds :
       LET i == fileTable[a][f] IN
       /\ i # NULL
       /\ WithLock(i, WithVnode(vn[i],
            /\ of' = [of EXCEPT ![a] = i]
            /\ cnt' = [cnt EXCEPT ![a] = offset[i]]
            /\ of_lock' = [of_lock EXCEPT ![i] = a]
            /\ Goto(a, "rw")
            /\ UNCHANGED <<fileTable, vn, offset, countRef, vn_refcount, ft_copy_lock, state,
                           parent, fd, v, old, other, fault, raced>>))

\* of->offset = u.uio_offset; nothing moves when the transfer fails.
EndIO(a) ==
  /\ pc[a] = "rw"
  /\ \E n \in 0..1 :
       /\ cnt[a] + n < OffMod
       /\ offset' = [offset EXCEPT ![of[a]] = cnt[a] + n]
  /\ of_lock' = [of_lock EXCEPT ![of[a]] = "free"]
  /\ Return(a)
  /\ UNCHANGED <<fileTable, vn, countRef, vn_refcount, ft_copy_lock, state, parent, fault, raced>>

\* The sum of two off_t, which wraps around.
Add(x, y) == ((x + y + OffMod) % (2 * OffMod)) - OffMod

\* Mutant of SeekFrom: the sign of the sum is tested last.
SeekFromUnsigned(base, pos) ==
  IF Add(base, pos) < base /\ pos > 0 THEN "EOVERFLOW"
  ELSE IF Add(base, pos) < 0 THEN "EINVAL" ELSE "ok"

\* sys_lseek, SEEK_CUR and SEEK_END: a negative sum is EINVAL, and only then is
\* the sum compared with its base.
SeekFrom(base, pos) ==
  IF Add(base, pos) < 0 THEN "EINVAL"
  ELSE IF Add(base, pos) < base /\ pos > 0 THEN "EOVERFLOW" ELSE "ok"

\* sys_lseek under of_lock.  EINVAL releases the lock, EOVERFLOW does not.
\* base 0 is SEEK_SET, and st_size may be anything.
sys_lseek(a) ==
  /\ pc[a] = "user" /\ "lseek" \in Calls
  /\ \E f \in Fds, pos \in (-OffMod)..(OffMod - 1), size \in 0..(OffMod - 1) :
       LET i == fileTable[a][f] IN
       /\ i # NULL
       /\ \E base \in {0, offset[i], size} :
            WithLock(i, WithVnode(vn[i],
              /\ SeekFrom(base, pos) # "EINVAL"
              /\ offset' = IF SeekFrom(base, pos) = "ok"
                           THEN [offset EXCEPT ![i] = Add(base, pos)] ELSE offset
              /\ of_lock' = IF SeekFrom(base, pos) = "EOVERFLOW"
                            THEN [of_lock EXCEPT ![i] = a] ELSE of_lock
              /\ UNCHANGED <<fileTable, vn, countRef, vn_refcount, ft_copy_lock, state, parent,
                             local_vars, fault, raced>>))
-----------------------------------------------------------------------------
\* sys_fork, as far as files go: a new process, then proc_file_table_copy.
sys_fork(a) ==
  /\ pc[a] = "user" /\ "fork" \in Calls
  /\ ft_copy_lock = NULL
  /\ \E c \in Users :
       /\ state[c] = "none" /\ pc[c] = "none"
       /\ \A b \in Actors : other[b] # c
       /\ other' = [other EXCEPT ![a] = c]
  /\ ft_copy_lock' = a
  /\ Goto(a, "f_read")
  /\ UNCHANGED <<fileTable, file_vars, vn_refcount, state, parent, of, fd, v, old, cnt,
                 fault, raced>>

\* Mutant of NextFd: one descriptor too many.
NextFdTooFar(a) ==
  IF fd[a] < OPEN_MAX
  THEN fd' = [fd EXCEPT ![a] = @ + 1] /\ Goto(a, "f_read") /\ UNCHANGED ft_copy_lock
  ELSE fd' = [fd EXCEPT ![a] = 0] /\ Goto(a, "f_end") /\ ft_copy_lock' = NULL

\* After the last descriptor the locks are released.
NextFd(a) ==
  IF fd[a] + 1 < OPEN_MAX
  THEN fd' = [fd EXCEPT ![a] = @ + 1] /\ Goto(a, "f_read") /\ UNCHANGED ft_copy_lock
  ELSE fd' = [fd EXCEPT ![a] = 0] /\ Goto(a, "f_end") /\ ft_copy_lock' = NULL

\* One turn of the loop: the descriptor is copied, VOP_INCREF, and the load of
\* of->countRef++, for which nobody takes of_lock.
CopyRead(a) ==
  /\ pc[a] = "f_read"
  /\ LET i == fileTable[a][fd[a]] IN
       IF i = NULL
       THEN /\ NextFd(a)
            /\ UNCHANGED <<fileTable, file_vars, vn_refcount, state, parent, of, v, old, other, cnt,
                           fault, raced>>
       ELSE WithVnode(vn[i],
            /\ vn_refcount[vn[i]] < MaxRefs
            /\ fileTable' = [fileTable EXCEPT ![other[a]][fd[a]] = i]
            /\ vnode_incref(vn[i])
            /\ cnt' = [cnt EXCEPT ![a] = countRef[i]]
            /\ Goto(a, "f_write")
            /\ UNCHANGED <<file_vars, ft_copy_lock, state, parent, of, fd, v, old, other, fault, raced>>)

\* Mutant of CopyWrite: the copied descriptor is not counted.
CopyWriteUncounted(a) ==
  /\ pc[a] = "f_write"
  /\ NextFd(a)
  /\ cnt' = [cnt EXCEPT ![a] = 0]
  /\ UNCHANGED <<fileTable, file_vars, vn_refcount, state, parent, of, v, old, other, fault, raced>>

\* The store of of->countRef++.
CopyWrite(a) ==
  /\ pc[a] = "f_write"
  /\ LET i == fileTable[a][fd[a]] IN
       /\ countRef' = [countRef EXCEPT ![i] = (cnt[a] + 1) % CountMod]
       /\ raced' = (raced \/ countRef[i] # cnt[a])
  /\ NextFd(a)
  /\ cnt' = [cnt EXCEPT ![a] = 0]
  /\ UNCHANGED <<fileTable, vn, offset, of_lock, vn_refcount, state, parent, of, v, old, other,
                 fault>>

\* The child runs; or the trapframe or the thread cannot be had: proc_destroy.
ForkEnd(a) ==
  /\ pc[a] = "f_end"
  /\ \/ /\ state' = [state EXCEPT ![other[a]] = "running"]
        /\ parent' = [parent EXCEPT ![other[a]] = a]
        /\ pc' = [pc EXCEPT ![a] = "user", ![other[a]] = "user"]
        /\ other' = [other EXCEPT ![a] = NULL]
     \/ /\ Goto(a, "d_fd")
        /\ UNCHANGED <<state, parent, other>>
  /\ UNCHANGED <<fileTable, file_vars, vn_refcount, ft_copy_lock, of, fd, v, old, cnt,
                 fault, raced>>

\* The menu starts a program in a new process.
common_prog ==
  /\ pc[Menu] = "menu"
  /\ \E p \in Users :
       /\ state[p] = "none" /\ pc[p] = "none"
       /\ \A b \in Actors : other[b] # p
       /\ state' = [state EXCEPT ![p] = "running"]
       /\ parent' = [parent EXCEPT ![p] = Menu]
       /\ pc' = [pc EXCEPT ![p] = "std", ![Menu] = "none"]
  /\ UNCHANGED <<fileTable, file_vars, vn_refcount, ft_copy_lock, of, fd, v, old, other, cnt,
                 fault, raced>>

\* A process that ends: its children lose their parent.
Die(a) ==
  /\ state' = [state EXCEPT ![a] = "zombie"]
  /\ parent' = [p \in Users |-> IF parent[p] = a THEN NULL ELSE parent[p]]
  /\ Goto(a, "none")

\* std_open, called by runprogram for the descriptors below FirstFd; runprogram
\* fails when a slot or the device cannot be had.
std_open(a) ==
  /\ pc[a] = "std"
  /\ \E x \in Vnodes :
       IF FreeFiles # {} /\ vn_refcount[x] < MaxRefs
       THEN /\ FillSlot(Min(FreeFiles), x)
            /\ vnode_incref(x)
            /\ fileTable' = [fileTable EXCEPT ![a][fd[a]] = Min(FreeFiles)]
            /\ IF fd[a] + 1 < FirstFd
               THEN fd' = [fd EXCEPT ![a] = @ + 1] /\ UNCHANGED pc
               ELSE fd' = [fd EXCEPT ![a] = 0] /\ Goto(a, "user")
            /\ UNCHANGED <<state, parent>>
       ELSE /\ Die(a)
            /\ fd' = [fd EXCEPT ![a] = 0]
            /\ UNCHANGED <<fileTable, file_vars, vn_refcount, raced>>
  /\ UNCHANGED <<ft_copy_lock, of, v, old, other, cnt, fault>>

sys__exit(a) ==
  /\ pc[a] = "user" /\ "exit" \in Calls
  /\ Die(a)
  /\ UNCHANGED <<fileTable, file_vars, vn_refcount, ft_copy_lock, of, fd, v, old, other, cnt,
                 fault, raced>>

\* waitpid by the parent or the menu finds an exited process.
Reap(a) ==
  /\ pc[a] = IF a = Menu THEN "none" ELSE "user"
  /\ \E p \in Users :
       /\ state[p] = "zombie" /\ parent[p] = a
       /\ other' = [other EXCEPT ![a] = p]
  /\ Goto(a, "d_fd")
  /\ UNCHANGED <<fileTable, file_vars, vn_refcount, ft_copy_lock, state, parent, of, fd, v,
                 old, cnt, fault, raced>>

\* The next descriptor of proc_destroy's loop, or its end.
DestroyNext(a) ==
  IF fd[a] + 1 < OPEN_MAX
  THEN fd' = [fd EXCEPT ![a] = @ + 1] /\ UNCHANGED <<pc, other, state, parent>>
  ELSE /\ fd' = [fd EXCEPT ![a] = 0]
       /\ Goto(a, IF a = Menu THEN "menu" ELSE "user")
       /\ other' = [other EXCEPT ![a] = NULL]
       /\ state' = [state EXCEPT ![other[a]] = "none"]
       /\ parent' = [parent EXCEPT ![other[a]] = NULL]

\* One turn of proc_destroy's loop.  At the last reference the vnode is closed and
\* the lock destroyed; of->vn stays.
DestroyFd(a) ==
  /\ pc[a] = "d_fd"
  /\ LET p == other[a]
         i == fileTable[p][fd[a]]
         rest == <<vn, offset, ft_copy_lock, of, v, old, cnt, fault, raced>> IN
       IF i = NULL
       THEN DestroyNext(a) /\ UNCHANGED <<fileTable, countRef, of_lock, vn_refcount, rest>>
       ELSE WithLock(i,
         IF Minus1(countRef[i]) = 0 /\ vn[i] # NULL
         THEN WithVnode(vn[i],
                /\ countRef' = [countRef EXCEPT ![i] = 0]
                /\ fileTable' = [fileTable EXCEPT ![p][fd[a]] = NULL]
                /\ vnode_decref(vn[i])
                /\ of_lock' = [of_lock EXCEPT ![i] = "none"]
                /\ DestroyNext(a)
                /\ UNCHANGED rest)
         ELSE /\ countRef' = [countRef EXCEPT ![i] = Minus1(@)]
              /\ fileTable' = [fileTable EXCEPT ![p][fd[a]] = NULL]
              /\ of_lock' = IF Minus1(countRef[i]) = 0 THEN [of_lock EXCEPT ![i] = "none"] ELSE of_lock
              /\ DestroyNext(a)
              /\ UNCHANGED <<vn_refcount, rest>>)
-----------------------------------------------------------------------------
Step(a) ==
  \/ sys_open(a) \/ OpenSlot(a) \/ OpenFd(a)
  \/ sys_close(a) \/ CloseLock(a) \/ CloseRelease(a) \/ CloseVfs(a) \/ CloseDestroy(a)
  \/ sys_dup2(a) \/ DupIncr(a)
  \/ BeginIO(a) \/ EndIO(a) \/ sys_lseek(a)
  \/ sys_fork(a) \/ CopyRead(a) \/ CopyWrite(a) \/ ForkEnd(a)
  \/ sys__exit(a) \/ DestroyFd(a)

Next ==
  /\ fault = "none"
  /\ \/ common_prog \/ Reap(Menu) \/ DestroyFd(Menu)
     \/ \E a \in Users : Step(a) \/ Reap(a) \/ std_open(a)

Spec == sft_init /\ [][Next]_vars
-----------------------------------------------------------------------------
\* Types of the variables.
TypeOK ==
  /\ fileTable \in [Users -> [Fds -> Files \cup {NULL}]]
  /\ vn \in [Files -> Vnodes \cup {NULL}]
  /\ offset \in [Files -> 0..(OffMod - 1)]
  /\ countRef \in [Files -> 0..(CountMod - 1)]
  /\ of_lock \in [Files -> {"none", "free"} \cup Users]
  /\ vn_refcount \in [Vnodes -> 0..(MaxRefs + 1)]
  /\ ft_copy_lock \in Users \cup {NULL}
  /\ state \in [Users -> {"none", "running", "zombie"}]
  /\ parent \in [Users -> Actors \cup {NULL}]
  /\ pc \in [Actors -> Pcs]
  /\ of \in [Actors -> Files \cup {NULL}]
  /\ fd \in [Actors -> Fds]
  /\ v \in [Actors -> Vnodes \cup {NULL}]
  /\ old \in [Actors -> Files \cup {NULL}]
  /\ other \in [Actors -> Users \cup {NULL}]
  /\ cnt \in [Actors -> 0..Max({OffMod, CountMod})]
  /\ fault \in {"none", "lock", "vnode"}
  /\ raced \in BOOLEAN

\* The references to slot i: the descriptors, and the one that an opener is about
\* to store or a closer has just cleared.
Descriptors(i) == {d \in Users \X Fds : fileTable[d[1]][d[2]] = i}
InHand(i) == {a \in Users : pc[a] \in {"o_fd", "c_lock"} /\ of[a] = i}

\* The descriptors of slot i that are stored and not yet counted: dup2 and fork
\* store first.
Uncounted(i) ==
  {a \in Users : \/ pc[a] = "u_incr" /\ old[a] = i
                 \/ pc[a] = "f_write" /\ fileTable[a][fd[a]] = i}

\* As long as no increment is lost and no slot is reused too early, countRef of an
\* open file is the number of descriptors that refer to it, in all processes and
\* through every order of open, close, dup2, fork, exit and waitpid.
CountIsExact ==
  ~raced => \A i \in Files : Descriptors(i) # {} =>
    countRef[i] + Cardinality(Uncounted(i)) = Cardinality(Descriptors(i)) + Cardinality(InHand(i))

\* Under the same condition a descriptor leads to an open file with a lock and with
\* a vnode that was not reclaimed: the last close is really the last.
OpenIsUsable ==
  ~raced => \A p \in Users, f \in Fds :
    LET i == fileTable[p][f] IN
    i # NULL => vn[i] # NULL /\ of_lock[i] # "none" /\ vn_refcount[vn[i]] > 0

\* Under the same condition the assertions hold: no dead lock is used or destroyed
\* again, no vnode is used or closed after it was reclaimed.
NoFault == raced \/ fault = "none"

\* A transfer finds of->offset, when it is done, as it was when it started: no
\* other process that shares the open file has moved it.
OffsetStable == \A a \in Users : pc[a] = "rw" => offset[of[a]] = cnt[a]

\* Whoever holds an of_lock is in a transfer or in the last close, so that no call
\* returns with it; the EOVERFLOW exits of sys_lseek, which keep it, are never taken.
LockReturned ==
  \A i \in Files : of_lock[i] \in Users =>
    pc[of_lock[i]] \in {"rw", "c_rel"} /\ of[of_lock[i]] = i
-----------------------------------------------------------------------------
(* What comments and manual pages say that the code does not keep. *)

\* No call is in progress.
Quiescent == \A a \in Actors : pc[a] \in {"none", "menu", "user"}

\* A descriptor is not affected when another one is closed: it still leads to an
\* open file with a vnode and a lock.
OtherHandles ==
  \A p \in Users, f \in Fds :
    LET i == fileTable[p][f] IN i # NULL => vn[i] # NULL /\ of_lock[i] # "none"

\* A slot that is taken is an open file of some process.
SlotInUse == Quiescent => \A i \in Files : vn[i] # NULL => Descriptors(i) # {}
=============================================================================
