--------------------------- MODULE ProcessProofs ---------------------------
(***************************************************************************)
(* Theorems about Process, for any number of addresses, threads and slots: *)
(* the inductive invariant, the two kinds of step that most actions are    *)
(* (one thread moves on, or one thread leaves its process), and then the   *)
(* actions that create a struct proc, give it its thread and free it, the  *)
(* end of a thread, and proc_destroy's section under processTable.lk,      *)
(* where an orderly state may stop being one.  On top of that invariant, a *)
(* second one is about parents, children and exit statuses.                *)
(***************************************************************************)
EXTENDS Process, TLAPS

\* Where a thread holds a struct proc pointer of its own.
TargetPcs == {"f_check", "f_copy", "f_thread", "f_ret", "w_pid", "w_lock", "w_sem",
              "d_table", "d_free"}

\* Where it holds one that it created.
OwnerPcs == {"f_check", "f_copy", "f_thread", "f_ret", "w_pid"}

MenuPcs == {"menu", "f_check", "f_thread", "w_pid", "w_lock", "w_sem", "d_table", "d_free"}

\* What holds in every state, orderly or not: which pointers a thread has where.
Shape ==
  /\ pc[Menu] \in MenuPcs
  /\ \A t \in Thrs : pc[t] \notin {"menu", "w_pid"}
  /\ self[Menu] = KProc
  /\ \A t \in Thrs : IF pc[t] = "free" THEN self[t] = NULL ELSE self[t] \in Procs
  /\ \A t \in Threads : IF pc[t] \in TargetPcs THEN target[t] \in Procs ELSE target[t] = NULL
  /\ table[1] = KProc
  /\ \A i \in Slots : table[i] = KProc => i = 1
  /\ \A a \in Procs : p_pid[a] # 1

\* The table and the structures, as in TableSound.
SoundTable ==
  /\ \A i \in Slots : table[i] # NULL => Live(table[i]) /\ p_pid[table[i]] = i
  /\ \A a \in Addrs : Live(a) => p_pid[a] \in Slots /\ table[p_pid[a]] = a

\* A thread runs in a process of its own, which exists and counts it until
\* proc_remthread.
SoundSelf ==
  /\ \A t \in Threads : pc[t] # "free" => Live(self[t])
  /\ \A t, u \in Threads : t # u /\ pc[t] # "free" => self[t] # self[u]
  /\ \A t \in Threads : pc[t] \notin {"free", "e_link", "e_sem"} => p_numthreads[self[t]] = 1
  /\ \A a \in Procs : p_numthreads[a] # 0 =>
       \E t \in Threads : self[t] = a /\ pc[t] \notin {"free", "e_link", "e_sem"}

\* The structure in hand exists, and until thread_fork it is the creator's alone.
SoundTarget ==
  /\ \A t \in Threads : pc[t] \in TargetPcs \ {"d_free"} => Live(target[t])
  /\ \A t \in Threads : pc[t] = "d_free" => mem[target[t]] = "dying"
  /\ \A t, u \in Threads : t # u /\ pc[t] = "d_free" => target[u] # target[t]
  /\ \A t, u \in Threads : pc[t] \in {"f_check", "f_copy", "f_thread"} => self[u] # target[t]
  /\ \A t, u \in Threads : t # u /\ pc[t] \in OwnerPcs /\ pc[u] \in OwnerPcs =>
       target[t] # target[u]
  /\ \A t \in Threads : pc[t] \in {"w_sem", "d_table"} => self[t] # target[t]

\* Nobody is its own parent, and a forked child is linked to its creator.
SoundParent ==
  /\ \A a \in Procs : Live(a) => parent_proc[a] # a
  /\ \A t \in Threads : pc[t] = "f_ret" => parent_proc[target[t]] = self[t]

Sound ==
  /\ fault = "none" /\ is_full = FALSE
  /\ SoundTable
  /\ SoundSelf
  /\ SoundTarget
  /\ SoundParent

\* TypeOK in four parts.
TableType ==
  /\ table \in [Slots -> Addrs \cup {NULL}]
  /\ last_i \in Slots

ProcType ==
  /\ mem \in [Addrs -> {"free", "live", "dying"}]
  /\ p_pid \in [Addrs -> 0..MAX_PROC]
  /\ p_status \in [Addrs -> {"none", "exit", "signal"}]
  /\ p_exited \in [Addrs -> 0..1]
  /\ p_numthreads \in [Addrs -> Nat]
  /\ p_sem \in [Addrs -> Nat]
  /\ parent_proc \in [Addrs -> Addrs \cup {NULL}]

ThreadType ==
  /\ pc \in [Threads -> Pcs]
  /\ self \in [Threads -> Addrs \cup {NULL}]
  /\ target \in [Threads -> Addrs \cup {NULL}]
  /\ s \in [Threads -> {"none", "exit", "signal"}]

FlagType == fault \in Faults /\ is_full \in BOOLEAN /\ orderly \in BOOLEAN

IInv == TypeOK /\ Shape /\ (orderly => Sound)
-----------------------------------------------------------------------------
\* The parts make up TypeOK.
LEMMA TypeParts ==
  /\ TypeOK <=> TableType /\ ProcType /\ ThreadType /\ FlagType
  /\ TypeOK' <=> TableType' /\ ProcType' /\ ThreadType' /\ FlagType'
BY Zenon DEF TypeOK, TableType, ProcType, ThreadType, FlagType

\* proc_bootstrap establishes the invariant.
LEMMA InitIInv == Init => IInv
<1> SUFFICES ASSUME Init PROVE IInv
  OBVIOUS
<1> USE ProcessAssumption DEF Init, proc_bootstrap, PID_MIN, Addrs, Threads, Slots
<1>1. TypeOK
  <2>1. TableType
    BY DEF TableType
  <2>2. ProcType
    BY DEF ProcType
  <2>3. ThreadType
    BY Zenon DEF ThreadType, Pcs
  <2>4. FlagType
    BY Zenon DEF FlagType, Faults
  <2> QED
    BY ZenonT(30), <2>1, <2>2, <2>3, <2>4
    DEF TypeOK, TableType, ProcType, ThreadType, FlagType
<1>2. Shape
  BY DEF Shape, MenuPcs, TargetPcs
<1>3. Sound
  BY DEF Sound, SoundTable, SoundSelf, SoundTarget, SoundParent, Live, TargetPcs, OwnerPcs
<1> QED
  BY Zenon, <1>1, <1>2, <1>3 DEF IInv

\* A KASSERT that fails, or a use of freed memory, changes nothing but fault.
LEMMA CrashIInv ==
  ASSUME IInv, NEW why \in Faults, Crash(why), orderly' = FALSE
  PROVE  IInv'
<1> USE DEF Crash, tab_vars, proc_vars, thr_vars
<1>1. TypeOK'
  BY Zenon DEF IInv, TypeOK
<1>2. Shape'
  BY Zenon DEF IInv, Shape
<1> QED
  BY Zenon, <1>1, <1>2 DEF IInv

-----------------------------------------------------------------------------
(* Most steps move one thread, with the pointer it has in hand, and leave the *)
(* table, the existing structures and their thread counts alone.              *)

\* The parts of the type that such a step may touch.
RestType ==
  /\ p_status \in [Addrs -> {"none", "exit", "signal"}]
  /\ p_exited \in [Addrs -> 0..1]
  /\ p_sem \in [Addrs -> Nat]
  /\ parent_proc \in [Addrs -> Addrs \cup {NULL}]
  /\ s \in [Threads -> {"none", "exit", "signal"}]

\* Thread t goes on at l with the pointer x.
Move(t, l, x) ==
  /\ pc' = [pc EXCEPT ![t] = l]
  /\ target' = [target EXCEPT ![t] = x]
  /\ table' = table /\ last_i' = last_i /\ is_full' = is_full
  /\ mem' = mem /\ p_pid' = p_pid /\ p_numthreads' = p_numthreads
  /\ self' = self /\ fault' = fault /\ orderly' = orderly

\* The move keeps Shape.
MoveShape(t, l, x) ==
  /\ pc[t] # "free" /\ l \in Pcs \ {"free"}
  /\ IF t = Menu THEN l \in MenuPcs ELSE l \notin {"menu", "w_pid"}
  /\ IF l \in TargetPcs THEN x \in Procs ELSE x = NULL

\* The move keeps SoundSelf and SoundTarget.
MoveSound(t, l, x) ==
  /\ l \notin {"d_free", "f_ret"}
  /\ l \in {"e_link", "e_sem"} <=> pc[t] \in {"e_link", "e_sem"}
  /\ l \in TargetPcs => Live(x)
  /\ l \in {"f_check", "f_copy", "f_thread"} =>
       x = target[t] /\ pc[t] \in {"f_check", "f_copy", "f_thread"}
  /\ l \in OwnerPcs => x = target[t] /\ pc[t] \in OwnerPcs
  /\ l \in {"w_sem", "d_table"} => self[t] # x

\* The links that matter are kept.
ParentKept(t) ==
  /\ \A a \in Procs : Live(a) => parent_proc'[a] # a
  /\ \A u \in Threads : u # t /\ pc[u] = "f_ret" => parent_proc'[target[u]] = self[u]

\* A step that leaves parent_proc alone keeps the links.
LEMMA ParentSame ==
  ASSUME IInv, NEW t \in Threads, parent_proc' = parent_proc
  PROVE  orderly => ParentKept(t)
BY Zenon DEF IInv, Sound, SoundParent, ParentKept

\* A thread that keeps its pointer.
LEMMA SameTarget ==
  ASSUME IInv, NEW t \in Threads, target' = target
  PROVE  target' = [target EXCEPT ![t] = target[t]]
BY Zenon DEF IInv, TypeOK

\* The variables of RestType keep their types when they are left alone.
LEMMA RestSame ==
  ASSUME IInv
  PROVE  /\ RestType
         /\ UNCHANGED <<p_status, p_exited, p_sem, parent_proc, s>> => RestType'
BY ZenonT(30) DEF IInv, TypeOK, RestType

\* Such a move keeps the invariant.
LEMMA MoveIInv ==
  ASSUME IInv, NEW t \in Threads, NEW l, NEW x,
         Move(t, l, x), RestType', MoveShape(t, l, x),
         orderly => MoveSound(t, l, x) /\ ParentKept(t)
  PROVE  IInv'
<1> USE DEF Threads, Addrs
<1>0. TypeOK /\ Shape
  BY Zenon DEF IInv
<1>1. /\ pc'[t] = l /\ target'[t] = x
      /\ \A u \in Threads : u # t => pc'[u] = pc[u] /\ target'[u] = target[u]
  BY Zenon, <1>0 DEF Move, TypeOK
<1>2. /\ table' = table /\ last_i' = last_i
      /\ mem' = mem /\ p_pid' = p_pid /\ p_numthreads' = p_numthreads /\ self' = self
  BY Zenon DEF Move
<1>3. fault' = fault /\ is_full' = is_full /\ orderly' = orderly
  BY Zenon DEF Move
<1>4. l \in Pcs /\ x \in Addrs \cup {NULL}
  BY Zenon DEF MoveShape
<1>5. TypeOK'
  <2>1. TableType'
    BY Zenon, <1>0, <1>2 DEF TypeOK, TableType
  <2>2. ProcType'
    BY Zenon, <1>0, <1>2 DEF TypeOK, ProcType, RestType
  <2>3. ThreadType'
    BY ZenonT(30), <1>0, <1>2, <1>4 DEF TypeOK, ThreadType, RestType, Move
  <2>4. FlagType'
    BY Zenon, <1>0, <1>3 DEF TypeOK, FlagType
  <2> QED
    BY Zenon, <2>1, <2>2, <2>3, <2>4, TypeParts
<1>6. Shape'
  <2>1. /\ pc'[Menu] \in MenuPcs
        /\ \A u \in Thrs : pc'[u] \notin {"menu", "w_pid"}
    BY ZenonT(60), <1>0, <1>1, ProcessAssumption DEF Shape, MoveShape
  <2>2. \A u \in Thrs : IF pc'[u] = "free" THEN self'[u] = NULL ELSE self'[u] \in Procs
    BY Zenon, <1>0, <1>1, <1>2 DEF Shape, MoveShape
  <2>3. \A u \in Threads :
          IF pc'[u] \in TargetPcs THEN target'[u] \in Procs ELSE target'[u] = NULL
    BY Zenon, <1>0, <1>1 DEF Shape, MoveShape
  <2> QED
    BY ZenonT(30), <1>0, <1>2, <2>1, <2>2, <2>3 DEF Shape
<1>7. ASSUME orderly PROVE Sound'
  <2>1. Sound /\ MoveSound(t, l, x) /\ ParentKept(t) /\ pc[t] # "free" /\ l # "free"
    BY Zenon, <1>7 DEF IInv, MoveShape
  <2>2. SoundTable'
    BY Zenon, <1>2, <2>1 DEF Sound, SoundTable, Live
  <2>3. \A u \in Threads : /\ pc'[u] = "free" <=> pc[u] = "free"
                           /\ pc'[u] \in {"e_link", "e_sem"} <=> pc[u] \in {"e_link", "e_sem"}
    BY Zenon, <1>1, <2>1 DEF MoveSound
  <2>4. SoundSelf'
    BY <1>2, <2>1, <2>3 DEF Sound, SoundSelf, Live
  <2>5. SoundTarget'
    <3>1. \A u \in Threads : pc'[u] \in TargetPcs \ {"d_free"} => Live(target'[u])
      BY Zenon, <1>1, <2>1 DEF Sound, SoundTarget, MoveSound
    <3>2. \A u \in Threads : pc'[u] = "d_free" => u # t /\ mem[target'[u]] = "dying"
      BY ZenonT(30), <1>1, <2>1 DEF Sound, SoundTarget, MoveSound
    <3>3. \A u, v \in Threads : u # v /\ pc'[u] = "d_free" => target'[v] # target'[u]
      <4> SUFFICES ASSUME NEW u \in Threads, NEW v \in Threads, u # v, pc'[u] = "d_free"
                   PROVE  target'[v] # target'[u]
        OBVIOUS
      <4>1. u # t /\ pc[u] = "d_free" /\ target'[u] = target[u] /\ mem[target[u]] = "dying"
        BY Zenon, <1>1, <3>2
      <4>2. CASE v # t
        BY <1>1, <2>1, <4>1, <4>2 DEF Sound, SoundTarget
      <4>3. CASE v = t
        <5>1. x \in Procs => mem[x] = "live"
          BY Zenon, <2>1, ProcessAssumption DEF MoveShape, MoveSound, Live
        <5>2. target[u] \in Procs
          BY ZenonT(30), <1>0, <4>1 DEF Shape, TargetPcs
        <5> QED
          BY ZenonT(30), <1>1, <4>1, <4>3, <5>1, <5>2
      <4> QED
        BY Zenon, <4>2, <4>3
    <3>4. \A u, v \in Threads : pc'[u] \in {"f_check", "f_copy", "f_thread"} =>
            self[v] # target'[u]
      BY <1>1, <2>1 DEF Sound, SoundTarget, MoveSound
    <3>5. \A u, v \in Threads : u # v /\ pc'[u] \in OwnerPcs /\ pc'[v] \in OwnerPcs =>
            target'[u] # target'[v]
      <4>1. \A u \in Threads : pc'[u] \in OwnerPcs =>
              pc[u] \in OwnerPcs /\ target'[u] = target[u]
        BY Zenon, <1>1, <2>1 DEF MoveSound
      <4> QED
        BY ZenonT(30), <2>1, <4>1 DEF Sound, SoundTarget
    <3>6. \A u \in Threads : pc'[u] \in {"w_sem", "d_table"} => self[u] # target'[u]
      BY Zenon, <1>1, <2>1 DEF Sound, SoundTarget, MoveSound
    <3> QED
      BY ZenonT(30), <1>2, <3>1, <3>2, <3>3, <3>4, <3>5, <3>6 DEF SoundTarget, Live
  <2>6. SoundParent'
    BY ZenonT(30), <1>1, <1>2, <2>1 DEF SoundParent, ParentKept, MoveSound, Live
  <2> QED
    BY Zenon, <1>3, <2>1, <2>2, <2>4, <2>5, <2>6 DEF Sound
<1> QED
  BY Zenon, <1>3, <1>5, <1>6, <1>7 DEF IInv

-----------------------------------------------------------------------------
\* Thread t is no longer counted by its process, and it is gone when l is "free".
Leave(t, l) ==
  /\ pc[t] \notin TargetPcs \cup {"free"} /\ l \in {"e_link", "free"}
  /\ pc' = [pc EXCEPT ![t] = l]
  /\ self' = IF l = "free" THEN [self EXCEPT ![t] = NULL] ELSE self
  /\ UNCHANGED <<table, last_i, is_full, mem, p_pid, p_status, p_exited, parent_proc,
                 target, s, fault, orderly>>

\* A thread that leaves keeps the invariant.
LEMMA LeaveIInv ==
  ASSUME IInv, NEW t \in Thrs, NEW l, Leave(t, l),
         p_numthreads' \in [Addrs -> Nat], p_sem' \in [Addrs -> Nat],
         orderly => /\ p_numthreads'[self[t]] = 0
                    /\ \A b \in Addrs : b # self[t] => p_numthreads'[b] = p_numthreads[b]
  PROVE  IInv'
<1>0. TypeOK /\ Shape /\ t \in Threads /\ t # Menu
  BY Zenon, ProcessAssumption DEF IInv, Threads
<1>1. /\ pc'[t] = l /\ self'[t] = IF l = "free" THEN NULL ELSE self[t]
      /\ \A u \in Threads : u # t => pc'[u] = pc[u] /\ self'[u] = self[u]
  BY ZenonT(30), <1>0 DEF Leave, TypeOK
<1>2. /\ UNCHANGED <<table, last_i, mem, p_pid, p_status, p_exited, parent_proc, target, s>>
      /\ pc[t] \notin TargetPcs \cup {"free"} /\ l \in {"e_link", "free"}
  BY Zenon DEF Leave
<1>3. fault' = fault /\ is_full' = is_full /\ orderly' = orderly
  BY Zenon DEF Leave
<1>4. TypeOK'
  <2>1. TableType'
    BY Zenon, <1>0, <1>2 DEF TypeOK, TableType
  <2>2. ProcType'
    BY Zenon, <1>0, <1>2 DEF TypeOK, ProcType
  <2>3. ThreadType'
    BY Zenon, <1>0 DEF TypeOK, ThreadType, Leave, Pcs
  <2>4. FlagType'
    BY Zenon, <1>0, <1>3 DEF TypeOK, FlagType
  <2> QED
    BY Zenon, <2>1, <2>2, <2>3, <2>4, TypeParts
<1>5. Shape'
  <2>1. target'[t] = NULL /\ l \notin TargetPcs
    BY Zenon, <1>0, <1>2 DEF Shape, TargetPcs
  <2>2. \A u \in Threads :
          IF pc'[u] \in TargetPcs THEN target'[u] \in Procs ELSE target'[u] = NULL
    BY ZenonT(30), <1>0, <1>1, <1>2, <2>1 DEF Shape
  <2>3. /\ pc'[Menu] = pc[Menu] /\ self'[Menu] = self[Menu]
        /\ \A u \in Thrs : pc'[u] \notin {"menu", "w_pid"}
        /\ \A u \in Thrs : IF pc'[u] = "free" THEN self'[u] = NULL ELSE self'[u] \in Procs
    BY <1>0, <1>1, <1>2 DEF Shape, Threads
  <2> QED
    BY Zenon, <1>0, <1>2, <2>2, <2>3 DEF Shape
<1>6. ASSUME orderly PROVE Sound'
  <2>1. Sound /\ Live(self[t])
    BY Zenon, <1>0, <1>2, <1>6 DEF IInv, Sound, SoundSelf
  <2>2. SoundTable'
    BY Zenon, <1>2, <2>1 DEF Sound, SoundTable, Live
  <2>3. SoundSelf'
    <3>1. \A u \in Threads : u # t /\ pc[u] # "free" => self[u] # self[t] /\ self[u] \in Addrs
      BY ZenonT(30), <1>0, <1>2, <2>1, ProcessAssumption
      DEF Sound, SoundSelf, Shape, Threads, Addrs
    <3>2. \A u \in Threads : pc'[u] # "free" => mem'[self'[u]] = "live"
      BY <1>1, <1>2, <2>1 DEF Sound, SoundSelf, Live
    <3>3. \A u, v \in Threads : u # v /\ pc'[u] # "free" => self'[u] # self'[v]
      <4>1. \A u \in Threads : pc'[u] # "free" => pc[u] # "free" /\ self'[u] = self[u]
        BY Zenon, <1>1, <1>2
      <4>2. \A u \in Threads : pc[u] # "free" => self[u] # NULL
        BY ZenonT(30), <1>0, ProcessAssumption DEF Shape, Threads, Addrs
      <4> QED
        BY <1>1, <2>1, <4>1, <4>2 DEF Sound, SoundSelf
    <3>4. \A u \in Threads : pc'[u] \notin {"free", "e_link", "e_sem"} =>
            p_numthreads'[self'[u]] = 1
      BY <1>1, <1>2, <1>6, <2>1, <3>1 DEF Sound, SoundSelf
    <3>5. \A a \in Procs : p_numthreads'[a] # 0 =>
            \E u \in Threads : self'[u] = a /\ pc'[u] \notin {"free", "e_link", "e_sem"}
      <4> SUFFICES ASSUME NEW a \in Procs, p_numthreads'[a] # 0
                   PROVE  \E u \in Threads :
                            self'[u] = a /\ pc'[u] \notin {"free", "e_link", "e_sem"}
        OBVIOUS
      <4>1. a # self[t] /\ p_numthreads[a] # 0
        BY Zenon, <1>6 DEF Addrs
      <4>2. PICK u \in Threads : self[u] = a /\ pc[u] \notin {"free", "e_link", "e_sem"}
        BY Zenon, <2>1, <4>1 DEF Sound, SoundSelf
      <4> QED
        BY ZenonT(30), <1>1, <4>1, <4>2
    <3> QED
      BY Zenon, <3>2, <3>3, <3>4, <3>5 DEF SoundSelf, Live
  <2>4. SoundTarget'
    <3>1. \A u \in Threads : pc'[u] \in TargetPcs =>
            u # t /\ pc'[u] = pc[u] /\ self'[u] = self[u] /\ target[u] \in Procs
      BY Zenon, <1>0, <1>1, <1>2 DEF TargetPcs, Shape
    <3>2. \A u \in Threads : self'[u] \in Procs => self'[u] = self[u]
      BY ZenonT(30), <1>1, ProcessAssumption
    <3>3. /\ \A u \in Threads : pc'[u] \in TargetPcs \ {"d_free"} => mem'[target'[u]] = "live"
          /\ \A u \in Threads : pc'[u] = "d_free" => mem'[target'[u]] = "dying"
          /\ \A u, v \in Threads : u # v /\ pc'[u] = "d_free" => target'[v] # target'[u]
      BY <1>2, <2>1, <3>1 DEF Sound, SoundTarget, Live, TargetPcs
    <3>4. /\ \A u, v \in Threads : pc'[u] \in {"f_check", "f_copy", "f_thread"} =>
               self'[v] # target'[u]
          /\ \A u, v \in Threads : u # v /\ pc'[u] \in OwnerPcs /\ pc'[v] \in OwnerPcs =>
               target'[u] # target'[v]
          /\ \A u \in Threads : pc'[u] \in {"w_sem", "d_table"} => self'[u] # target'[u]
      BY <1>2, <2>1, <3>1, <3>2 DEF Sound, SoundTarget, TargetPcs, OwnerPcs
    <3> QED
      BY Zenon, <3>3, <3>4 DEF SoundTarget, Live
  <2>5. SoundParent'
    BY Zenon, <1>1, <1>2, <2>1 DEF Sound, SoundParent, Live
  <2> QED
    BY ZenonT(30), <1>3, <2>1, <2>2, <2>3, <2>4, <2>5 DEF Sound
<1> QED
  BY Zenon, <1>3, <1>4, <1>5, <1>6 DEF IInv
-----------------------------------------------------------------------------

\* Copying the image: only the program counter moves.
LEMMA CopyImageIInv ==
  ASSUME IInv, NEW t \in Threads, CopyImage(t)
  PROVE  IInv'
<1>1. PICK l \in {"f_thread", "d_table"} :
        /\ pc[t] = "f_copy" /\ pc' = [pc EXCEPT ![t] = l]
        /\ UNCHANGED <<tab_vars, proc_vars, self, target, s, fault, orderly>>
  BY Zenon DEF CopyImage, Goto
<1>2. Move(t, l, target[t])
  BY Zenon, <1>1, SameTarget DEF Move, tab_vars, proc_vars
<1>3. target[t] \in Procs /\ t # Menu
  BY Zenon, <1>1 DEF IInv, Shape, TargetPcs, MenuPcs
<1>4. MoveShape(t, l, target[t])
  BY Zenon, <1>1, <1>3 DEF MoveShape, Pcs, TargetPcs, MenuPcs
<1>5. orderly => MoveSound(t, l, target[t])
  BY Zenon, <1>1 DEF IInv, Sound, SoundTarget, MoveSound, TargetPcs, OwnerPcs
<1>6. RestType' /\ (orderly => ParentKept(t))
  BY Zenon, <1>1, RestSame, ParentSame DEF proc_vars
<1> QED
  BY Zenon, <1>2, <1>4, <1>5, <1>6, MoveIInv

\* fork returns.
LEMMA ForkReturnIInv ==
  ASSUME IInv, NEW t \in Threads, ForkReturn(t)
  PROVE  IInv'
<1>1. /\ pc[t] = "f_ret" /\ pc' = [pc EXCEPT ![t] = Back(t)]
      /\ target' = [target EXCEPT ![t] = NULL]
      /\ s' = [s EXCEPT ![t] = "none"]
      /\ UNCHANGED <<tab_vars, proc_vars, self, fault, orderly>>
  BY Zenon DEF ForkReturn, Return, Goto
<1>2. Move(t, Back(t), NULL)
  BY Zenon, <1>1 DEF Move, tab_vars, proc_vars
<1>3. MoveShape(t, Back(t), NULL)
  BY Zenon, <1>1 DEF MoveShape, Back, Pcs, TargetPcs, MenuPcs
<1>4. MoveSound(t, Back(t), NULL)
  BY Zenon, <1>1 DEF MoveSound, Back, TargetPcs, OwnerPcs
<1>5. RestType'
  BY Zenon, <1>1, RestSame DEF RestType, proc_vars
<1>6. orderly => ParentKept(t)
  BY Zenon, <1>1, ParentSame DEF proc_vars
<1> QED
  BY Zenon, <1>2, <1>3, <1>4, <1>5, <1>6, MoveIInv

\* sys__exit marks the process.
LEMMA ExitIInv ==
  ASSUME IInv, NEW t \in Threads, sys__exit(t)
  PROVE  IInv'
<1>1. /\ pc[t] = "user" /\ pc' = [pc EXCEPT ![t] = "e_rem"]
      /\ p_status' = [p_status EXCEPT ![self[t]] = "exit"]
      /\ p_exited' = [p_exited EXCEPT ![self[t]] = 1]
      /\ UNCHANGED <<tab_vars, mem, p_pid, p_numthreads, p_sem, parent_proc,
                     self, target, s, fault, orderly>>
  BY Zenon DEF sys__exit, Goto
<1>2. Move(t, "e_rem", target[t])
  BY Zenon, <1>1, SameTarget DEF Move, tab_vars
<1>3. target[t] = NULL /\ t # Menu
  BY Zenon, <1>1 DEF IInv, Shape, TargetPcs, MenuPcs
<1>4. MoveShape(t, "e_rem", target[t])
  BY Zenon, <1>1, <1>3 DEF MoveShape, Pcs, TargetPcs
<1>5. MoveSound(t, "e_rem", target[t])
  BY Zenon, <1>1 DEF MoveSound, TargetPcs, OwnerPcs
<1>6. RestType'
  BY <1>1, RestSame DEF RestType
<1> QED
  BY Zenon, <1>1, <1>2, <1>4, <1>5, <1>6, ParentSame, MoveIInv

\* kill_curthread marks the process, in two steps.
LEMMA KillIInv ==
  ASSUME IInv, NEW t \in Threads, kill_curthread(t)
  PROVE  IInv'
<1>1. PICK l \in {"k_status", "k_rem"} :
        /\ pc[t] \in {"user", "k_status"} /\ pc' = [pc EXCEPT ![t] = l]
        /\ UNCHANGED <<tab_vars, mem, p_pid, p_numthreads, p_sem, parent_proc,
                       self, target, s, fault, orderly>>
  BY Zenon DEF kill_curthread, Goto
<1>2. Move(t, l, target[t])
  BY Zenon, <1>1, SameTarget DEF Move, tab_vars
<1>3. target[t] = NULL /\ t # Menu
  BY ZenonT(30), <1>1 DEF IInv, Shape, TargetPcs, MenuPcs
<1>4. MoveShape(t, l, target[t])
  BY Zenon, <1>1, <1>3 DEF MoveShape, Pcs, TargetPcs
<1>5. MoveSound(t, l, target[t])
  BY Zenon, <1>1 DEF MoveSound, TargetPcs, OwnerPcs
<1>6. p_status' \in [Addrs -> {"none", "exit", "signal"}] /\ p_exited' \in [Addrs -> 0..1]
  BY RestSame DEF RestType, kill_curthread
<1>7. RestType'
  BY Zenon, <1>1, <1>6, RestSame DEF RestType
<1> QED
  BY Zenon, <1>1, <1>2, <1>4, <1>5, <1>7, ParentSame, MoveIInv

\* thread_fork fails: the structure goes to proc_destroy.
LEMMA ForkNoThreadIInv ==
  ASSUME IInv, NEW t \in Threads, ForkNoThread(t)
  PROVE  IInv'
<1>1. /\ pc[t] = "f_thread" /\ pc' = [pc EXCEPT ![t] = "d_table"]
      /\ LinkParent(t)
      /\ UNCHANGED <<tab_vars, mem, p_pid, p_status, p_exited, p_numthreads, p_sem,
                     self, target, s, fault, orderly>>
  BY Zenon DEF ForkNoThread, Goto
<1>2. Move(t, "d_table", target[t])
  BY Zenon, <1>1, SameTarget DEF Move, tab_vars
<1>3. target[t] \in Procs /\ self[t] \in Addrs /\ TypeOK
  BY Zenon, <1>1 DEF IInv, Shape, TargetPcs, MenuPcs, Threads, Addrs
<1>4. MoveShape(t, "d_table", target[t])
  BY Zenon, <1>1, <1>3 DEF MoveShape, Pcs, TargetPcs, MenuPcs
<1>5. parent_proc' \in [Addrs -> Addrs \cup {NULL}]
  BY Zenon, <1>1, <1>3 DEF LinkParent, TypeOK
<1>6. RestType'
  BY Zenon, <1>1, <1>5, RestSame DEF RestType
<1>7. ASSUME orderly PROVE MoveSound(t, "d_table", target[t]) /\ ParentKept(t)
  <2>1. Sound
    BY Zenon, <1>7 DEF IInv
  <2>2. MoveSound(t, "d_table", target[t])
    BY Zenon, <1>1, <2>1 DEF Sound, SoundTarget, MoveSound, TargetPcs, OwnerPcs
  <2>3. /\ self[t] # target[t]
        /\ \A u \in Threads : u # t /\ pc[u] = "f_ret" =>
             target[u] # target[t] /\ target[u] \in Procs
    BY Zenon, <1>1, <2>1 DEF Sound, SoundTarget, OwnerPcs, IInv, Shape, TargetPcs
  <2>4. \A a \in Procs : parent_proc'[a] =
          IF a = target[t] /\ t # Menu THEN self[t] ELSE parent_proc[a]
    BY Zenon, <1>1, <1>3 DEF LinkParent, TypeOK, Addrs
  <2>5. ParentKept(t)
    BY Zenon, <2>1, <2>3, <2>4 DEF Sound, SoundParent, ParentKept
  <2> QED
    BY Zenon, <2>2, <2>5
<1> QED
  BY Zenon, <1>2, <1>4, <1>6, <1>7, MoveIInv

\* The flag is read again.  In an orderly state it is FALSE.
LEMMA CheckFullIInv ==
  ASSUME IInv, NEW t \in Threads, CheckFull(t)
  PROVE  IInv'
<1>0. TypeOK /\ Shape /\ pc[t] = "f_check" /\ target[t] \in Procs
  BY Zenon DEF IInv, CheckFull, Shape, TargetPcs
<1>1. CASE ~is_full
  <2>1. PICK l \in {"f_thread", "f_copy"} :
          /\ l = IF t = Menu THEN "f_thread" ELSE "f_copy"
          /\ pc' = [pc EXCEPT ![t] = l]
          /\ UNCHANGED <<tab_vars, proc_vars, self, target, s, fault, orderly>>
    BY Zenon, <1>1 DEF CheckFull, Goto
  <2>2. Move(t, l, target[t])
    BY Zenon, <2>1, SameTarget DEF Move, tab_vars, proc_vars
  <2>3. MoveShape(t, l, target[t])
    BY Zenon, <1>0, <2>1 DEF MoveShape, Pcs, TargetPcs, MenuPcs
  <2>4. orderly => MoveSound(t, l, target[t])
    BY Zenon, <1>0, <2>1 DEF IInv, Sound, SoundTarget, MoveSound, TargetPcs, OwnerPcs
  <2>5. RestType' /\ (orderly => ParentKept(t))
    BY Zenon, <2>1, RestSame, ParentSame DEF proc_vars
  <2> QED
    BY Zenon, <2>2, <2>3, <2>4, <2>5, MoveIInv
<1>2. CASE is_full
  <2>1. /\ kfree(target[t])
        /\ pc' = [pc EXCEPT ![t] = Back(t)]
        /\ target' = [target EXCEPT ![t] = NULL]
        /\ s' = [s EXCEPT ![t] = "none"]
        /\ UNCHANGED <<table, last_i, is_full, self, fault, orderly>>
    BY Zenon, <1>2 DEF CheckFull, Return, Goto, tab_vars
  <2>2. TypeOK'
    <3>1. TableType'
      BY ZenonT(30), <1>0, <2>1 DEF TypeOK, TableType
    <3>2. ProcType'
      BY <1>0, <2>1, ProcessAssumption DEF TypeOK, ProcType, kfree, Addrs
    <3>3. ThreadType'
      BY Zenon, <1>0, <2>1 DEF TypeOK, ThreadType, Back, Pcs
    <3>4. FlagType'
      BY ZenonT(30), <1>0, <2>1 DEF TypeOK, FlagType
    <3> QED
      BY Zenon, <3>1, <3>2, <3>3, <3>4, TypeParts
  <2>3. Shape'
    <3>1. \A a \in Procs : p_pid'[a] # 1
      BY <1>0, <2>1 DEF TypeOK, Shape, kfree, Addrs
    <3>2. /\ pc'[t] = Back(t) /\ target'[t] = NULL
          /\ \A u \in Threads : u # t => pc'[u] = pc[u] /\ target'[u] = target[u]
      BY ZenonT(30), <1>0, <2>1 DEF TypeOK
    <3> QED
      BY <1>0, <2>1, <3>1, <3>2, ProcessAssumption
      DEF Shape, Back, MenuPcs, TargetPcs, Threads
  <2>4. ~orderly'
    BY Zenon, <1>2, <2>1 DEF IInv, Sound
  <2> QED
    BY Zenon, <2>2, <2>3, <2>4 DEF IInv
<1> QED
  BY Zenon, <1>1, <1>2

\* waitpid under p_lock.
LEMMA WaitCheckIInvOK ==
  ASSUME IInv, NEW t \in Threads, WaitCheck(t), mem[target[t]] # "free"
  PROVE  IInv'
<1>0. TypeOK /\ pc[t] = "w_lock" /\ target[t] \in Procs
  BY Zenon DEF IInv, WaitCheck, Shape, TargetPcs
<1>1. UNCHANGED <<table, last_i, is_full, mem, p_pid, p_status, p_exited, p_numthreads,
                  p_sem, parent_proc, self, fault, orderly>>
  BY Zenon DEF WaitCheck, Return, tab_vars, proc_vars
<1>2. RestType'
  <2>1. s' \in [Threads -> {"none", "exit", "signal"}]
    <3>1. p_status[target[t]] \in {"none", "exit", "signal"}
      BY Zenon, <1>0 DEF TypeOK, Addrs
    <3>2. \E v \in {"none", "exit", "signal"} : s' = s \/ s' = [s EXCEPT ![t] = v]
      BY Zenon, <3>1 DEF WaitCheck, Return
    <3> QED
      BY Zenon, <1>0, <3>2 DEF TypeOK
  <2> QED
    BY Zenon, <1>1, <2>1, RestSame DEF RestType
<1>3. orderly => ParentKept(t)
  BY Zenon, <1>1, ParentSame
<1>4. CASE pc' = [pc EXCEPT ![t] = Back(t)] /\ target' = [target EXCEPT ![t] = NULL]
  <2>1. Move(t, Back(t), NULL)
    BY Zenon, <1>1, <1>4 DEF Move
  <2>2. MoveShape(t, Back(t), NULL) /\ MoveSound(t, Back(t), NULL)
    BY Zenon, <1>0 DEF MoveShape, MoveSound, Back, Pcs, TargetPcs, OwnerPcs, MenuPcs
  <2> QED
    BY Zenon, <1>2, <1>3, <2>1, <2>2, MoveIInv
<1>5. CASE /\ t = Menu \/ parent_proc[target[t]] = self[t]
           /\ target' = target
           /\ \E l \in {"d_table", "w_sem"} : pc' = [pc EXCEPT ![t] = l]
  <2>1. PICK l \in {"d_table", "w_sem"} : pc' = [pc EXCEPT ![t] = l]
    BY Zenon, <1>5
  <2>2. Move(t, l, target[t])
    BY Zenon, <1>1, <1>5, <2>1, SameTarget DEF Move
  <2>3. MoveShape(t, l, target[t])
    BY Zenon, <1>0, <2>1 DEF MoveShape, Pcs, TargetPcs, MenuPcs
  <2>4. ASSUME orderly PROVE MoveSound(t, l, target[t])
    <3>1. Live(target[t])
      BY ZenonT(30), <1>0, <2>4 DEF IInv, Sound, SoundTarget, TargetPcs
    <3>2. self[t] # target[t]
      BY <1>0, <1>5, <2>4, <3>1, ProcessAssumption DEF IInv, Sound, SoundParent, Shape
    <3> QED
      BY Zenon, <1>0, <2>1, <3>1, <3>2 DEF MoveSound, TargetPcs, OwnerPcs
  <2> QED
    BY Zenon, <1>2, <1>3, <2>2, <2>3, <2>4, MoveIInv
<1> QED
  BY Zenon, <1>4, <1>5 DEF WaitCheck, Return, Goto

\* waitpid under p_lock, the assertion that could fail included.
LEMMA WaitCheckIInv ==
  ASSUME IInv, NEW t \in Threads, WaitCheck(t)
  PROVE  IInv'
<1>1. CASE mem[target[t]] # "free"
  BY Zenon, <1>1, WaitCheckIInvOK
<1>2. CASE ~(mem[target[t]] # "free")
  <2>1. Crash("freed") /\ orderly' = orderly /\ "freed" \in Faults
    BY Zenon, <1>2 DEF WaitCheck, Faults
  <2>2. ~orderly
    BY ZenonT(30), <1>2, TypeParts, ProcessAssumption
    DEF WaitCheck, IInv, Sound, SoundTarget, TargetPcs, Live
  <2>3. orderly' = FALSE
    BY Zenon, <2>1, <2>2 DEF IInv, TypeOK
  <2> QED
    BY Zenon, <2>1, <2>3, CrashIInv
<1> QED
  BY Zenon, <1>1, <1>2

\* P(p_sem) returns.
LEMMA ProcWaitIInvOK ==
  ASSUME IInv, NEW t \in Threads, proc_wait(t), Live(target[t])
  PROVE  IInv'
<1>0. TypeOK /\ pc[t] = "w_sem" /\ target[t] \in Procs
  BY Zenon DEF IInv, proc_wait, Shape, TargetPcs
<1>1. /\ pc' = [pc EXCEPT ![t] = "d_table"]
      /\ p_sem[target[t]] > 0
      /\ p_sem' = [p_sem EXCEPT ![target[t]] = @ - 1]
      /\ s' = [s EXCEPT ![t] = p_status[target[t]]]
      /\ UNCHANGED <<table, last_i, is_full, mem, p_pid, p_status, p_exited, p_numthreads,
                     parent_proc, self, target, fault, orderly>>
  BY Zenon DEF proc_wait, Goto, tab_vars
<1>2. Move(t, "d_table", target[t])
  BY Zenon, <1>1, SameTarget DEF Move
<1>3. MoveShape(t, "d_table", target[t])
  BY Zenon, <1>0 DEF MoveShape, Pcs, TargetPcs, MenuPcs
<1>4. orderly => MoveSound(t, "d_table", target[t])
  BY ZenonT(30), <1>0 DEF IInv, Sound, SoundTarget, MoveSound, TargetPcs, OwnerPcs
<1>5. RestType'
  BY <1>0, <1>1, RestSame DEF RestType, Addrs
<1> QED
  BY ZenonT(30), <1>1, <1>2, <1>3, <1>4, <1>5, ParentSame, MoveIInv

\* P(p_sem) returns, the assertion that could fail included.
LEMMA ProcWaitIInv ==
  ASSUME IInv, NEW t \in Threads, proc_wait(t)
  PROVE  IInv'
<1>1. CASE Live(target[t])
  BY Zenon, <1>1, ProcWaitIInvOK
<1>2. CASE ~(Live(target[t]))
  <2>1. Crash("freed") /\ orderly' = orderly /\ "freed" \in Faults
    BY Zenon, <1>2 DEF proc_wait, Faults
  <2>2. ~orderly
    BY Zenon, <1>2, TypeParts, ProcessAssumption
    DEF proc_wait, IInv, Sound, SoundTarget, TargetPcs, Live
  <2>3. orderly' = FALSE
    BY Zenon, <2>1, <2>2 DEF IInv, TypeOK
  <2> QED
    BY Zenon, <2>1, <2>3, CrashIInv
<1> QED
  BY Zenon, <1>1, <1>2

\* proc_search_pid found a process of the table.
LEMMA FoundIInvOK ==
  ASSUME IInv, NEW t \in Threads, NEW pid \in PID_MIN..MAX_PROC, Found(t, pid),
         table[pid] # NULL, pc[t] \in {"user", "w_pid"},
         mem[table[pid]] # "free", p_pid[table[pid]] = pid
  PROVE  IInv'
<1>0. pid \in Slots /\ table[pid] \in Procs
  BY ProcessAssumption DEF IInv, TypeOK, Shape, Slots, PID_MIN, Addrs
<1>1. /\ pc' = [pc EXCEPT ![t] = "w_lock"]
      /\ target' = [target EXCEPT ![t] = table[pid]]
      /\ UNCHANGED <<tab_vars, proc_vars, self, s, fault, orderly>>
  BY Zenon DEF Found, Goto
<1>2. Move(t, "w_lock", table[pid])
  BY Zenon, <1>1 DEF Move, tab_vars, proc_vars
<1>3. MoveShape(t, "w_lock", table[pid])
  BY Zenon, <1>0 DEF MoveShape, Pcs, TargetPcs, MenuPcs
<1>4. orderly => MoveSound(t, "w_lock", table[pid])
  BY Zenon, <1>0 DEF IInv, Sound, SoundTable, MoveSound, TargetPcs, OwnerPcs
<1>5. RestType' /\ (orderly => ParentKept(t))
  BY Zenon, <1>1, RestSame, ParentSame DEF proc_vars
<1> QED
  BY ZenonT(30), <1>2, <1>3, <1>4, <1>5, MoveIInv

\* proc_search_pid, its assertion included.
LEMMA FoundIInv ==
  ASSUME IInv, NEW t \in Threads, NEW pid \in PID_MIN..MAX_PROC, Found(t, pid),
         table[pid] # NULL, pc[t] \in {"user", "w_pid"}
  PROVE  IInv'
<1>1. CASE mem[table[pid]] # "free" /\ p_pid[table[pid]] = pid
  BY Zenon, <1>1, FoundIInvOK
<1>2. CASE mem[table[pid]] = "free" \/ p_pid[table[pid]] # pid
  <2>1. Crash("search") /\ "search" \in Faults /\ orderly' = orderly
    BY Zenon, <1>2 DEF Found, Faults
  <2>2. ~orderly
    BY <1>2, ProcessAssumption DEF IInv, Sound, SoundTable, Live, Slots, PID_MIN
  <2>3. orderly' = FALSE
    BY Zenon, <2>1, <2>2 DEF IInv, TypeOK
  <2> QED
    BY Zenon, <2>1, <2>3, CrashIInv
<1> QED
  BY Zenon, <1>1, <1>2

\* waitpid called by a program.
LEMMA SearchIInv ==
  ASSUME IInv, NEW t \in Threads, SearchPid(t)
  PROVE  IInv'
BY Zenon, FoundIInv DEF SearchPid

\* The menu gets ESRCH: its program has no pid.
LEMMA MenuMissIInv ==
  ASSUME IInv, NEW t \in Threads, MenuSearchPid(t),
         p_pid[target[t]] < PID_MIN \/ table[p_pid[target[t]]] = NULL
  PROVE  IInv'
<1>0. pc[t] = "w_pid" /\ target[t] \in Procs /\ t = Menu
  BY ZenonT(30) DEF IInv, Shape, TargetPcs, MenuSearchPid, Threads
<1>1. /\ pc' = [pc EXCEPT ![t] = "d_table"]
      /\ UNCHANGED <<tab_vars, proc_vars, self, target, s, fault, orderly>>
  <2>1. p_pid[target[t]] \in 0..MAX_PROC
    BY Zenon, <1>0 DEF IInv, TypeOK, Addrs
  <2> QED
    BY <2>1, ProcessAssumption DEF MenuSearchPid, PID_MIN, Goto
<1>2. Move(t, "d_table", target[t])
  BY Zenon, <1>1, SameTarget DEF Move, tab_vars, proc_vars
<1>3. MoveShape(t, "d_table", target[t])
  BY Zenon, <1>0 DEF MoveShape, Pcs, TargetPcs, MenuPcs
<1>4. orderly => MoveSound(t, "d_table", target[t])
  BY ZenonT(30), <1>0, ProcessAssumption
  DEF IInv, Shape, Sound, SoundTarget, MoveSound, TargetPcs, OwnerPcs
<1>5. RestType' /\ (orderly => ParentKept(t))
  BY Zenon, <1>1, RestSame, ParentSame DEF proc_vars
<1> QED
  BY Zenon, <1>2, <1>3, <1>4, <1>5, MoveIInv

\* The menu waits for its program.
LEMMA MenuSearchIInv ==
  ASSUME IInv, NEW t \in Threads, MenuSearchPid(t)
  PROVE  IInv'
<1>1. CASE p_pid[target[t]] < PID_MIN \/ table[p_pid[target[t]]] = NULL
  BY Zenon, <1>1, MenuMissIInv
<1>2. CASE ~(p_pid[target[t]] < PID_MIN \/ table[p_pid[target[t]]] = NULL)
  <2>1. target[t] \in Addrs
    BY Zenon DEF IInv, Shape, TargetPcs, MenuSearchPid, Addrs
  <2>2. p_pid[target[t]] \in PID_MIN..MAX_PROC
    BY <1>2, <2>1, ProcessAssumption DEF IInv, TypeOK, PID_MIN
  <2>3. Found(t, p_pid[target[t]]) /\ pc[t] = "w_pid"
    BY <1>2, <2>2, ProcessAssumption DEF MenuSearchPid, PID_MIN
  <2> QED
    BY Zenon, <1>2, <2>2, <2>3, FoundIInv
<1> QED
  BY Zenon, <1>1, <1>2
-----------------------------------------------------------------------------
\* thread_fork: the new structure gets its one thread.
LEMMA ThreadForkIInv ==
  ASSUME IInv, NEW t \in Threads, thread_fork(t)
  PROVE  IInv'
<1> DEFINE a == target[t]
           l == IF t = Menu THEN "w_pid" ELSE "f_ret"
           k == IF t = Menu THEN "prog" ELSE "user"
<1>0. /\ TypeOK /\ Shape /\ pc[t] = "f_thread"
      /\ a \in Procs /\ a \in Addrs /\ self[t] \in Addrs
  BY Zenon DEF IInv, thread_fork, Shape, TargetPcs, Threads, Addrs
<1>1. PICK w \in Thrs : /\ pc[w] = "free"
                        /\ pc' = [pc EXCEPT ![w] = k, ![t] = l]
                        /\ self' = [self EXCEPT ![w] = a]
  BY Zenon DEF thread_fork
<1>2. /\ p_numthreads' = [p_numthreads EXCEPT ![a] = @ + 1] /\ LinkParent(t)
      /\ UNCHANGED <<table, last_i, is_full, mem, p_pid, p_status, p_exited, p_sem,
                     target, s, fault, orderly>>
  BY Zenon DEF thread_fork, tab_vars
<1>3. /\ w \in Threads /\ w # t /\ w # Menu
      /\ pc'[t] = l /\ pc'[w] = k /\ self'[w] = a /\ self'[t] = self[t]
      /\ \A u \in Threads \ {t, w} : pc'[u] = pc[u]
      /\ \A u \in Threads \ {w} : self'[u] = self[u]
  BY ZenonT(30), <1>0, <1>1, ProcessAssumption DEF TypeOK, Threads
<1>4. \A b \in Addrs :
        /\ p_numthreads'[b] = IF b = a THEN p_numthreads[b] + 1 ELSE p_numthreads[b]
        /\ parent_proc'[b] = IF b = a /\ t # Menu THEN self[t] ELSE parent_proc[b]
  BY Zenon, <1>0, <1>2 DEF TypeOK, LinkParent
<1>5. target[w] = NULL /\ l \in {"w_pid", "f_ret"} /\ k \in {"prog", "user"}
  BY ZenonT(30), <1>0, <1>1, <1>3 DEF Shape, TargetPcs
<1>6. TypeOK'
  <2>1. TableType'
    BY Zenon, <1>0, <1>2 DEF TypeOK, TableType
  <2>2. ProcType'
    <3>1. parent_proc' \in [Addrs -> Addrs \cup {NULL}]
      BY ZenonT(30), <1>0, <1>2 DEF TypeOK, LinkParent
    <3>2. p_numthreads' \in [Addrs -> Nat]
      BY <1>0, <1>2 DEF TypeOK
    <3> QED
      BY ZenonT(30), <1>0, <1>2, <3>1, <3>2 DEF TypeOK, ProcType
  <2>3. ThreadType'
    BY Zenon, <1>0, <1>1, <1>2 DEF TypeOK, ThreadType, Pcs
  <2>4. FlagType'
    BY Zenon, <1>0, <1>2 DEF TypeOK, FlagType
  <2> QED
    BY Zenon, <2>1, <2>2, <2>3, <2>4, TypeParts
<1>7. Shape'
  <2>1. /\ pc'[Menu] \in MenuPcs
        /\ \A u \in Thrs : pc'[u] \notin {"menu", "w_pid"}
    BY Zenon, <1>0, <1>3, ProcessAssumption DEF Shape, MenuPcs, Threads
  <2>2. /\ self'[Menu] = KProc
        /\ \A u \in Thrs : IF pc'[u] = "free" THEN self'[u] = NULL ELSE self'[u] \in Procs
    BY ZenonT(60), <1>0, <1>3, <1>5 DEF Shape, Threads
  <2>3. \A u \in Threads :
          IF pc'[u] \in TargetPcs THEN target[u] \in Procs ELSE target[u] = NULL
    BY ZenonT(30), <1>0, <1>3, <1>5 DEF Shape, TargetPcs
  <2> QED
    BY Zenon, <1>0, <1>2, <2>1, <2>2, <2>3 DEF Shape
<1>8. ASSUME orderly PROVE Sound'
  <2>1. Sound
    BY Zenon, <1>8 DEF IInv
  <2>2. /\ Live(a) /\ \A u \in Threads : self[u] # a
        /\ \A u \in Threads : u # t /\ pc[u] \in OwnerPcs => target[u] # a
    BY Zenon, <1>0, <2>1 DEF Sound, SoundTarget, TargetPcs, OwnerPcs
  <2>3. p_numthreads[a] = 0
    BY ZenonT(30), <1>0, <2>1, <2>2 DEF Sound, SoundSelf
  <2> HIDE DEF a, l, k
  <2>4. SoundTable'
    BY Zenon, <1>2, <2>1 DEF Sound, SoundTable, Live
  <2>5. \A u \in Threads : pc[u] # "free" => self[u] \in Addrs
    BY Zenon, <1>0 DEF Shape, Threads, Addrs
  <2>6. SoundSelf'
    <3>1. \A u \in Threads : pc'[u] # "free" =>
            Live(self'[u]) /\ (u # w => pc[u] # "free" /\ self'[u] = self[u])
      BY ZenonT(30), <1>0, <1>3, <2>1, <2>2 DEF Sound, SoundSelf
    <3>2. \A u, v \in Threads : u # v /\ pc'[u] # "free" => self'[u] # self'[v]
      BY <1>3, <2>1, <2>2, <3>1 DEF Sound, SoundSelf
    <3>3. \A u \in Threads : pc'[u] \notin {"free", "e_link", "e_sem"} =>
            p_numthreads'[self'[u]] = 1
      <4>1. p_numthreads'[self'[w]] = 1
        BY <1>0, <1>3, <1>4, <2>3
      <4>2. ASSUME NEW u \in Threads, u # w, pc'[u] \notin {"free", "e_link", "e_sem"}
            PROVE  p_numthreads'[self'[u]] = 1
        <5>1. pc[u] \notin {"free", "e_link", "e_sem"} /\ self'[u] = self[u]
          BY Zenon, <1>0, <1>3, <4>2
        <5> QED
          BY <1>4, <2>1, <2>2, <2>5, <5>1 DEF Sound, SoundSelf
      <4> QED
        BY ZenonT(30), <4>1, <4>2
    <3>4. \A b \in Procs : p_numthreads'[b] # 0 =>
            \E u \in Threads : self'[u] = b /\ pc'[u] \notin {"free", "e_link", "e_sem"}
      <4> SUFFICES ASSUME NEW b \in Procs, p_numthreads'[b] # 0
                   PROVE  \E u \in Threads :
                            self'[u] = b /\ pc'[u] \notin {"free", "e_link", "e_sem"}
        OBVIOUS
      <4>1. CASE b = a
        BY Zenon, <1>3, <1>5, <4>1
      <4>2. CASE b # a
        <5>1. PICK u \in Threads : self[u] = b /\ pc[u] \notin {"free", "e_link", "e_sem"}
          BY ZenonT(60), <1>4, <2>1, <4>2 DEF Sound, SoundSelf, Addrs
        <5> QED
          BY ZenonT(30), <1>1, <1>3, <1>5, <5>1
      <4> QED
        BY Zenon, <4>1, <4>2
    <3> QED
      BY Zenon, <1>2, <3>1, <3>2, <3>3, <3>4 DEF SoundSelf, Live
  <2>7. SoundTarget'
    <3>1. \A u \in Threads : pc'[u] \in TargetPcs =>
            /\ u # w /\ self'[u] = self[u]
            /\ IF u = t THEN pc'[u] \in {"w_pid", "f_ret"} ELSE pc'[u] = pc[u]
      BY Zenon, <1>3, <1>5 DEF TargetPcs
    <3>2. /\ \A u \in Threads : pc'[u] \in TargetPcs \ {"d_free"} => Live(target[u])
          /\ \A u \in Threads : pc'[u] = "d_free" => mem[target[u]] = "dying"
          /\ \A u, v \in Threads : u # v /\ pc'[u] = "d_free" => target[v] # target[u]
      BY <2>1, <2>2, <3>1 DEF Sound, SoundTarget, TargetPcs, a
    <3>3. \A u, v \in Threads : pc'[u] \in {"f_check", "f_copy", "f_thread"} =>
            self'[v] # target[u]
      <4>1. \A u \in Threads : pc'[u] \in {"f_check", "f_copy", "f_thread"} =>
              pc[u] = pc'[u] /\ target[u] # a
        BY Zenon, <2>2, <3>1 DEF TargetPcs, OwnerPcs
      <4> QED
        BY <1>3, <2>1, <4>1 DEF Sound, SoundTarget
    <3>4. \A u, v \in Threads : u # v /\ pc'[u] \in OwnerPcs /\ pc'[v] \in OwnerPcs =>
            target[u] # target[v]
      <4>1. \A u \in Threads : pc'[u] \in OwnerPcs => pc[u] \in OwnerPcs
        BY Zenon, <1>0, <3>1 DEF TargetPcs, OwnerPcs
      <4> QED
        BY Zenon, <2>1, <4>1 DEF Sound, SoundTarget
    <3>5. \A u \in Threads : pc'[u] \in {"w_sem", "d_table"} => self'[u] # target[u]
      BY Zenon, <2>1, <3>1 DEF Sound, SoundTarget, TargetPcs
    <3> QED
      BY ZenonT(30), <1>2, <3>2, <3>3, <3>4, <3>5 DEF SoundTarget, Live
  <2>8. SoundParent'
    <3>1. \A b \in Procs : Live(b) => parent_proc'[b] # b
      BY <1>4, <2>1, <2>2 DEF Sound, SoundParent, Addrs
    <3>2. ASSUME NEW u \in Threads, pc'[u] = "f_ret"
          PROVE  parent_proc'[target[u]] = self'[u]
      <4>1. CASE u = t
        BY Zenon, <1>0, <1>3, <1>4, <3>2, <4>1 DEF a, l
      <4>2. CASE u # t
        <5>1. pc[u] = "f_ret" /\ self'[u] = self[u] /\ target[u] \in Addrs /\ target[u] # a
          BY ZenonT(30), <1>0, <1>1, <1>3, <1>5, <2>2, <3>2, <4>2
          DEF Shape, TargetPcs, OwnerPcs, Addrs
        <5> QED
          BY Zenon, <1>4, <2>1, <5>1 DEF Sound, SoundParent
      <4> QED
        BY Zenon, <4>1, <4>2
    <3> QED
      BY Zenon, <1>2, <3>1, <3>2 DEF SoundParent, Live
  <2> QED
    BY Zenon, <1>2, <2>1, <2>4, <2>6, <2>7, <2>8 DEF Sound
<1> QED
  BY Zenon, <1>2, <1>6, <1>7, <1>8 DEF IInv

\* The structure is freed: it was out of the table, and nobody else had it.
LEMMA FreeProcIInv ==
  ASSUME IInv, NEW t \in Threads, FreeProc(t)
  PROVE  IInv'
<1> DEFINE a == target[t]
<1>0. TypeOK /\ Shape /\ pc[t] = "d_free" /\ a \in Procs /\ a \in Addrs
  BY Zenon DEF IInv, FreeProc, Shape, TargetPcs, Addrs
<1>1. /\ pc' = [pc EXCEPT ![t] = Back(t)] /\ target' = [target EXCEPT ![t] = NULL]
      /\ s' = [s EXCEPT ![t] = "none"] /\ kfree(a)
      /\ UNCHANGED <<table, last_i, is_full, self, fault, orderly>>
  BY Zenon DEF FreeProc, Return, Goto, tab_vars
<1>2. /\ pc'[t] = Back(t) /\ target'[t] = NULL /\ Back(t) \in {"menu", "user"}
      /\ \A u \in Threads : u # t => pc'[u] = pc[u] /\ target'[u] = target[u]
  BY ZenonT(30), <1>0, <1>1 DEF TypeOK, Back
<1>3. /\ mem'[a] = "free" /\ p_pid'[a] = 0 /\ p_numthreads'[a] = 0
      /\ \A b \in Addrs : b # a => /\ mem'[b] = mem[b] /\ p_pid'[b] = p_pid[b]
                                   /\ p_numthreads'[b] = p_numthreads[b]
                                   /\ parent_proc'[b] = parent_proc[b]
  BY ZenonT(30), <1>0, <1>1 DEF TypeOK, kfree
<1> HIDE DEF a
<1>4. TypeOK'
  <2>1. TableType'
    BY Zenon, <1>0, <1>1 DEF TypeOK, TableType
  <2>2. ProcType'
    BY <1>0, <1>1, ProcessAssumption DEF TypeOK, ProcType, kfree
  <2>3. ThreadType'
    BY Zenon, <1>0, <1>1, <1>2 DEF TypeOK, ThreadType, Pcs
  <2>4. FlagType'
    BY Zenon, <1>0, <1>1 DEF TypeOK, FlagType
  <2> QED
    BY Zenon, <2>1, <2>2, <2>3, <2>4, TypeParts
<1>5. Shape'
  <2>1. \A b \in Procs : p_pid'[b] # 1
    BY <1>0, <1>3 DEF Shape, Addrs
  <2>2. /\ pc'[Menu] \in MenuPcs
        /\ \A u \in Thrs : pc'[u] \notin {"menu", "w_pid"}
    BY ZenonT(30), <1>0, <1>2, ProcessAssumption DEF Shape, Back, MenuPcs, Threads
  <2>3. \A u \in Threads : pc'[u] = "free" <=> pc[u] = "free"
    BY Zenon, <1>0, <1>2
  <2>4. \A u \in Threads :
          IF pc'[u] \in TargetPcs THEN target'[u] \in Procs ELSE target'[u] = NULL
    BY ZenonT(30), <1>0, <1>2 DEF Shape, TargetPcs
  <2> QED
    BY ZenonT(30), <1>0, <1>1, <2>1, <2>2, <2>3, <2>4 DEF Shape, Threads
<1>6. ASSUME orderly PROVE Sound'
  <2>1. Sound
    BY Zenon, <1>6 DEF IInv
  <2>2. /\ mem[a] = "dying"
        /\ \A u \in Threads : self[u] # a
        /\ \A u \in Threads : u # t => target[u] # a
        /\ \A i \in Slots : table[i] # a
    <3>1. mem[a] = "dying" /\ \A u \in Threads : u # t => target[u] # a
      BY Zenon, <1>0, <2>1 DEF Sound, SoundTarget, a
    <3>2. \A u \in Threads : self[u] # a
      BY <1>0, <2>1, <3>1, ProcessAssumption
      DEF Sound, SoundSelf, Shape, Live, Threads, Addrs
    <3>3. \A i \in Slots : table[i] # a
      BY <1>0, <2>1, <3>1, ProcessAssumption DEF Sound, SoundTable, Live, Addrs
    <3> QED
      BY Zenon, <3>1, <3>2, <3>3
  <2>3. SoundTable'
    BY <1>0, <1>1, <1>3, <2>1, <2>2 DEF Sound, SoundTable, Live, TypeOK
  <2>4. \A u \in Threads : pc[u] # "free" => self[u] \in Addrs /\ self[u] # a
    BY Zenon, <1>0, <2>2 DEF Shape, Threads, Addrs
  <2>5. \A u \in Threads : /\ pc'[u] = "free" <=> pc[u] = "free"
                           /\ pc'[u] \in {"e_link", "e_sem"} <=> pc[u] \in {"e_link", "e_sem"}
    BY ZenonT(30), <1>0, <1>2
  <2>6. SoundSelf'
    BY <1>1, <1>3, <2>1, <2>4, <2>5 DEF Sound, SoundSelf, Live, Addrs
  <2>7. \A u \in Threads : pc'[u] \in TargetPcs => /\ u # t /\ pc'[u] = pc[u]
          /\ target'[u] = target[u] /\ target[u] \in Procs /\ target[u] # a
    BY ZenonT(30), <1>0, <1>2, <2>2 DEF Shape, TargetPcs
  <2>8. SoundTarget'
    <3>1. /\ \A u \in Threads : pc'[u] \in TargetPcs \ {"d_free"} => mem'[target'[u]] = "live"
          /\ \A u \in Threads : pc'[u] = "d_free" => mem'[target'[u]] = "dying"
      BY <1>3, <2>1, <2>7 DEF Sound, SoundTarget, Live, TargetPcs, Addrs
    <3>2. \A u, v \in Threads : u # v /\ pc'[u] = "d_free" => target'[v] # target'[u]
      BY <1>2, <2>1, <2>7, ProcessAssumption DEF Sound, SoundTarget, TargetPcs
    <3>3. /\ \A u, v \in Threads : pc'[u] \in {"f_check", "f_copy", "f_thread"} =>
               self[v] # target'[u]
          /\ \A u, v \in Threads : u # v /\ pc'[u] \in OwnerPcs /\ pc'[v] \in OwnerPcs =>
               target'[u] # target'[v]
          /\ \A u \in Threads : pc'[u] \in {"w_sem", "d_table"} => self[u] # target'[u]
      BY <2>1, <2>7 DEF Sound, SoundTarget, TargetPcs, OwnerPcs
    <3> QED
      BY <1>1, <3>1, <3>2, <3>3 DEF SoundTarget, Live
  <2>9. SoundParent'
    <3>1. \A b \in Procs : mem'[b] = "live" => parent_proc'[b] # b
      BY ZenonT(30), <1>3, <2>1 DEF Sound, SoundParent, Live, Addrs
    <3>2. \A u \in Threads : pc'[u] = "f_ret" => parent_proc'[target'[u]] = self[u]
      BY <1>3, <2>1, <2>7 DEF Sound, SoundParent, TargetPcs, Addrs
    <3> QED
      BY Zenon, <1>1, <3>1, <3>2 DEF SoundParent, Live
  <2> QED
    BY Zenon, <1>1, <2>1, <2>3, <2>6, <2>8, <2>9 DEF Sound
<1> QED
  BY Zenon, <1>1, <1>4, <1>5, <1>6 DEF IInv

\* The circular search yields a slot that is free.
LEMMA SearchSlot ==
  ASSUME TypeOK, NEW i \in Slots, NextSlot(i)
  PROVE  table[i] = NULL
BY Zenon DEF NextSlot, FreeOffsets

\* proc_create: the address was free, so nobody refers to it.
LEMMA CreateIInv ==
  ASSUME IInv, NEW t \in Threads, proc_create(t)
  PROVE  IInv'
<1>1. PICK a \in Procs : proc_create(t)!2!(a)
  BY Zenon DEF proc_create
<1>2. /\ pc[t] \in {"user", "menu"}
      /\ pc' = [pc EXCEPT ![t] = "f_check"]
      /\ UNCHANGED <<self, s, fault>>
  BY Zenon DEF proc_create, Goto
<1>3. /\ mem[a] = "free" /\ mem' = [mem EXCEPT ![a] = "live"]
      /\ p_status' = [p_status EXCEPT ![a] = "none"]
      /\ p_exited' = [p_exited EXCEPT ![a] = 0]
      /\ p_numthreads' = [p_numthreads EXCEPT ![a] = 0]
      /\ p_sem' = [p_sem EXCEPT ![a] = 0]
      /\ parent_proc' = [parent_proc EXCEPT ![a] = NULL]
      /\ target' = [target EXCEPT ![t] = a]
  BY Zenon, <1>1
<1>4. \/ \E i \in Slots : /\ NextSlot(i)
                          /\ table' = [table EXCEPT ![i] = a]
                          /\ last_i' = i
                          /\ p_pid' = [p_pid EXCEPT ![a] = i]
                          /\ UNCHANGED <<is_full, orderly>>
      \/ /\ p_pid' = [p_pid EXCEPT ![a] = 0]
         /\ is_full' = TRUE
         /\ orderly' = FALSE
         /\ UNCHANGED <<table, last_i>>
  BY Zenon, <1>1
<1> HIDE <1>1
<1>5. TypeOK /\ Shape /\ a \in Addrs /\ a # NULL /\ a # KProc
  BY Zenon, ProcessAssumption DEF IInv, Addrs
<1>6. TypeOK'
  <2>1. p_pid \in [Addrs -> 0..MAX_PROC] /\ TableType
    BY Zenon, <1>5 DEF TypeOK, TableType
  <2>2. TableType'
    BY ZenonT(30), <1>4, <1>5, <2>1 DEF TableType
  <2>3. \E k \in 0..MAX_PROC : p_pid' = [p_pid EXCEPT ![a] = k]
    BY <1>4, ProcessAssumption DEF Slots
  <2>4. p_pid' \in [Addrs -> 0..MAX_PROC]
    BY Zenon, <2>1, <2>3
  <2>5. ProcType'
    BY <1>3, <1>5, <2>4, ProcessAssumption DEF TypeOK, ProcType
  <2>6. ThreadType'
    BY Zenon, <1>2, <1>3, <1>5 DEF TypeOK, ThreadType, Pcs
  <2>7. FlagType'
    <3>1. fault' \in Faults
      BY Zenon, <1>2, <1>5 DEF TypeOK
    <3>2. is_full' \in BOOLEAN /\ orderly' \in BOOLEAN
      BY <1>4, <1>5, Zenon DEF TypeOK
    <3> QED
      BY Zenon, <3>1, <3>2 DEF FlagType
  <2> QED
    BY Zenon, <2>2, <2>5, <2>6, <2>7, TypeParts
<1>7. Shape'
  <2>1. /\ table'[1] = KProc
        /\ \A i \in Slots : table'[i] = KProc => i = 1
    <3>1. 1 \in Slots /\ table \in [Slots -> Addrs \cup {NULL}]
      BY <1>5, ProcessAssumption DEF TypeOK, Slots, PID_MIN
    <3>2. /\ table[1] = KProc /\ KProc # NULL
          /\ \A i \in Slots : table[i] = KProc => i = 1
      BY Zenon, <1>5, ProcessAssumption DEF Shape
    <3>3. CASE UNCHANGED table
      BY Zenon, <3>2, <3>3
    <3>4. ASSUME NEW j \in Slots, NextSlot(j), table' = [table EXCEPT ![j] = a]
          PROVE  <2>1!:
      <4>1. table[j] = NULL
        BY Zenon, <1>5, <3>4, SearchSlot
      <4> QED
        BY Zenon, <1>5, <3>1, <3>2, <3>4, <4>1
    <3> QED
      BY Zenon, <1>4, <3>3, <3>4
  <2>2. \A b \in Procs : p_pid'[b] # 1
    <3>1. p_pid \in [Addrs -> 0..MAX_PROC]
      BY ZenonT(30), <1>5 DEF TypeOK
    <3>2. CASE p_pid' = [p_pid EXCEPT ![a] = 0]
      BY <1>5, <3>1, <3>2 DEF Shape, Addrs
    <3>3. ASSUME NEW j \in Slots, NextSlot(j), p_pid' = [p_pid EXCEPT ![a] = j]
          PROVE  <2>2!:
      <4>1. table[j] = NULL
        BY Zenon, <1>5, <3>3, SearchSlot
      <4>2. j # 1
        BY Zenon, <1>5, <4>1, ProcessAssumption DEF Shape
      <4> QED
        BY Zenon, <1>5, <3>1, <3>3, <4>2 DEF Shape, Addrs
    <3> QED
      BY Zenon, <1>4, <3>2, <3>3
  <2>3. /\ pc'[t] = "f_check" /\ target'[t] = a
        /\ \A u \in Threads : u # t => pc'[u] = pc[u] /\ target'[u] = target[u]
    BY Zenon, <1>2, <1>3, <1>5 DEF TypeOK
  <2>4. /\ pc'[Menu] \in MenuPcs /\ self'[Menu] = KProc
        /\ \A u \in Thrs : pc'[u] \notin {"menu", "w_pid"}
    BY Zenon, <1>2, <1>5, <2>3, ProcessAssumption DEF Shape, MenuPcs, Threads
  <2>5. \A u \in Thrs : IF pc'[u] = "free" THEN self'[u] = NULL ELSE self'[u] \in Procs
    BY ZenonT(60), <1>2, <1>5, <2>3, ProcessAssumption DEF Shape, Threads
  <2>6. \A u \in Threads : IF pc'[u] \in TargetPcs THEN target'[u] \in Procs
                           ELSE target'[u] = NULL
    BY ZenonT(30), <1>5, <2>3 DEF Shape, TargetPcs
  <2> QED
    BY Zenon, <2>1, <2>2, <2>4, <2>5, <2>6 DEF Shape
<1>8. ASSUME orderly' PROVE Sound'
  <2>1. PICK i \in Slots : /\ NextSlot(i)
                           /\ table' = [table EXCEPT ![i] = a]
                           /\ p_pid' = [p_pid EXCEPT ![a] = i]
                           /\ UNCHANGED <<is_full, orderly>>
    BY <1>4, <1>8, Zenon
  <2>2. Sound
    BY Zenon, <1>8, <2>1 DEF IInv
  <2>3. /\ pc'[t] = "f_check" /\ target'[t] = a /\ self' = self
        /\ \A u \in Threads : u # t => pc'[u] = pc[u] /\ target'[u] = target[u]
    BY Zenon, <1>2, <1>3, <1>5 DEF TypeOK
  <2>4. /\ mem'[a] = "live" /\ p_numthreads'[a] = 0 /\ parent_proc'[a] = NULL
        /\ \A b \in Addrs : b # a => /\ mem'[b] = mem[b]
                                     /\ p_numthreads'[b] = p_numthreads[b]
                                     /\ parent_proc'[b] = parent_proc[b]
    BY Zenon, <1>3, <1>5 DEF TypeOK
  <2>5. \A u \in Threads : self[u] # a
    BY ZenonT(30), <1>3, <1>5, <2>2 DEF Sound, SoundSelf, Shape, Live, Threads
  <2>6. \A u \in Threads : target[u] # a
    BY Zenon, <1>3, <1>5, <2>2 DEF Sound, SoundTarget, Shape, Live
  <2>7. \A u \in Threads : /\ pc[u] # "free" => self[u] \in Addrs
                           /\ pc[u] \in TargetPcs => target[u] \in Addrs
    BY Zenon, <1>5 DEF Shape, Threads, Addrs
  <2>8. SoundTable'
    <3>1. table[i] = NULL
      BY Zenon, <1>5, <2>1, SearchSlot
    <3>2. /\ table'[i] = a /\ \A j \in Slots : j # i => table'[j] = table[j]
          /\ p_pid'[a] = i /\ \A b \in Addrs : b # a => p_pid'[b] = p_pid[b]
      BY ZenonT(30), <1>5, <2>1 DEF TypeOK
    <3>3. /\ \A j \in Slots : table[j] # NULL => Live(table[j]) /\ p_pid[table[j]] = j
          /\ \A b \in Addrs : Live(b) => p_pid[b] \in Slots /\ table[p_pid[b]] = b
          /\ \A j \in Slots : table[j] # NULL => table[j] \in Addrs
      BY <1>5, <2>2 DEF Sound, SoundTable, TypeOK
    <3>4. ASSUME NEW j \in Slots, table'[j] # NULL
          PROVE  mem'[table'[j]] = "live" /\ p_pid'[table'[j]] = j
      <4>1. CASE j = i
        BY Zenon, <2>4, <3>2, <4>1
      <4>2. CASE j # i
        <5>1. table[j] \in Addrs /\ mem[table[j]] = "live" /\ p_pid[table[j]] = j
          BY Zenon, <3>2, <3>3, <3>4, <4>2 DEF Live
        <5>2. table[j] # a
          BY Zenon, <1>3, <5>1
        <5> QED
          BY ZenonT(30), <2>4, <3>2, <4>2, <5>1, <5>2
      <4> QED
        BY Zenon, <4>1, <4>2
    <3>5. ASSUME NEW b \in Addrs, mem'[b] = "live"
          PROVE  p_pid'[b] \in Slots /\ table'[p_pid'[b]] = b
      <4>1. CASE b = a
        BY Zenon, <3>2, <4>1
      <4>2. CASE b # a
        <5>1. p_pid[b] \in Slots /\ table[p_pid[b]] = b /\ p_pid'[b] = p_pid[b]
          BY Zenon, <2>4, <3>2, <3>3, <3>5, <4>2 DEF Live
        <5>2. p_pid[b] # i
          BY ZenonT(30), <3>1, <5>1, ProcessAssumption DEF Addrs
        <5> QED
          BY Zenon, <3>2, <5>1, <5>2
      <4> QED
        BY Zenon, <4>1, <4>2
    <3> QED
      BY Zenon, <3>4, <3>5 DEF SoundTable, Live
  <2>9. SoundSelf'
    <3>1. \A u \in Threads : (pc'[u] = "free" <=> pc[u] = "free")
            /\ (pc'[u] \in {"e_link", "e_sem"} <=> pc[u] \in {"e_link", "e_sem"})
      BY Zenon, <1>2, <2>3
    <3>2. \A u \in Threads : pc[u] # "free" => /\ mem'[self[u]] = mem[self[u]]
                                              /\ p_numthreads'[self[u]] = p_numthreads[self[u]]
      BY Zenon, <2>4, <2>5, <2>7
    <3>3. \A b \in Procs : p_numthreads'[b] # 0 => p_numthreads[b] # 0
      BY ZenonT(30), <2>4 DEF Addrs
    <3> QED
      BY <2>2, <2>3, <3>1, <3>2, <3>3 DEF Sound, SoundSelf, Live
  <2>10. SoundTarget'
    BY <1>2, <2>2, <2>3, <2>4, <2>5, <2>6, <2>7
    DEF Sound, SoundTarget, Live, TargetPcs, OwnerPcs
  <2>11. SoundParent'
    BY <1>5, <2>2, <2>3, <2>4, <2>6, <2>7 DEF Sound, SoundParent, Live, TargetPcs, Addrs
  <2> QED
    BY Zenon, <1>2, <2>1, <2>2, <2>8, <2>9, <2>10, <2>11 DEF Sound
<1> QED
  BY Zenon, <1>6, <1>7, <1>8 DEF IInv
-----------------------------------------------------------------------------

\* proc_destroy takes the structure out of the table: in an orderly state the
\* caller has the only reference.
LEMMA EndWaitpidIInvOK ==
  ASSUME IInv, NEW t \in Threads, EndWaitpid(t), DestroyFault(t, target[t]) = "none"
  PROVE  IInv'
<1> DEFINE a == target[t]
           i == p_pid[target[t]]
<1>0. TypeOK /\ Shape /\ pc[t] = "d_table" /\ a \in Procs /\ a \in Addrs
  BY Zenon DEF IInv, EndWaitpid, Shape, TargetPcs, Addrs
<1>1. Live(a) /\ p_numthreads[a] = 0 /\ i \in Slots /\ i # 1
  <2>1. Live(a) /\ p_numthreads[a] = 0 /\ i # 0
    BY Zenon DEF DestroyFault
  <2>2. i \in 0..MAX_PROC /\ i # 1
    BY Zenon, <1>0 DEF TypeOK, Shape
  <2> QED
    BY <2>1, <2>2, ProcessAssumption DEF Slots
<1>2. /\ pc' = [pc EXCEPT ![t] = "d_free"]
      /\ table' = [table EXCEPT ![i] = NULL]
      /\ mem' = [mem EXCEPT ![a] = "dying"]
      /\ UNCHANGED <<last_i, p_pid, p_status, p_exited, p_numthreads, p_sem, parent_proc,
                     self, target, s, fault>>
  BY Zenon DEF EndWaitpid, Goto
<1>3. is_full' = FALSE /\ orderly' = (orderly /\ ~Referenced(t, a))
  BY Zenon DEF EndWaitpid
<1> HIDE DEF i
<1>4. /\ pc'[t] = "d_free" /\ \A u \in Threads : u # t => pc'[u] = pc[u]
      /\ table'[i] = NULL /\ \A j \in Slots : j # i => table'[j] = table[j]
      /\ mem'[a] = "dying" /\ \A b \in Addrs : b # a => mem'[b] = mem[b]
  BY ZenonT(30), <1>0, <1>1, <1>2 DEF TypeOK
<1>5. TypeOK'
  <2>1. TableType'
    BY Zenon, <1>0, <1>2 DEF TypeOK, TableType
  <2>2. ProcType'
    BY Zenon, <1>0, <1>2 DEF TypeOK, ProcType
  <2>3. ThreadType'
    BY Zenon, <1>0, <1>2 DEF TypeOK, ThreadType, Pcs
  <2>4. FlagType'
    <3>1. fault' \in Faults
      BY Zenon, <1>0, <1>2 DEF TypeOK
    <3> QED
      BY Zenon, <1>3, <3>1 DEF FlagType
  <2> QED
    BY Zenon, <2>1, <2>2, <2>3, <2>4, TypeParts
<1>6. Shape'
  <2>1. table'[1] = KProc /\ \A j \in Slots : table'[j] = KProc => j = 1
    <3>1. 1 \in Slots
      BY ProcessAssumption DEF Slots, PID_MIN
    <3> QED
      BY <1>0, <1>1, <1>4, <3>1, ProcessAssumption DEF Shape
  <2>2. \A u \in Threads : /\ pc'[u] \in TargetPcs <=> pc[u] \in TargetPcs
                           /\ pc'[u] = "free" <=> pc[u] = "free"
                           /\ pc'[u] \in {"menu", "w_pid"} => pc'[u] = pc[u]
                           /\ pc'[u] \in MenuPcs <=> pc[u] \in MenuPcs
    BY Zenon, <1>0, <1>4 DEF TargetPcs, MenuPcs
  <2> QED
    BY ZenonT(30), <1>0, <1>2, <2>1, <2>2 DEF Shape, Threads
<1>7. ASSUME orderly' PROVE Sound'
  <2>1. Sound /\ ~Referenced(t, a)
    BY Zenon, <1>3, <1>7 DEF IInv
  <2>2. /\ \A u \in Threads : u # t => self[u] # a /\ target[u] # a
        /\ self[t] # a
    <3>1. \A u \in Threads : u # t => self[u] # a /\ target[u] # a
      BY Zenon, <2>1 DEF Referenced
    <3>2. self[t] # a
      BY ZenonT(30), <1>0, <2>1 DEF Sound, SoundTarget
    <3> QED
      BY Zenon, <3>1, <3>2
  <2>3. SoundTable'
    <3>1. table[i] = a
      BY ZenonT(30), <1>0, <1>1, <2>1 DEF Sound, SoundTable, i
    <3>2. \A j \in Slots : table'[j] # NULL =>
            table'[j] = table[j] /\ j # i /\ table[j] # a /\ table[j] \in Addrs
      BY <1>0, <1>4, <2>1 DEF Sound, SoundTable, TypeOK, i
    <3>3. \A b \in Addrs : mem'[b] = "live" => b # a /\ mem[b] = "live"
      BY Zenon, <1>4
    <3>4. \A b \in Addrs : mem'[b] = "live" => p_pid[b] \in Slots /\ table'[p_pid[b]] = b
      BY <1>4, <2>1, <3>1, <3>3 DEF Sound, SoundTable, Live
    <3> QED
      BY <1>2, <1>4, <2>1, <3>2, <3>4 DEF Sound, SoundTable, Live
  <2>4. \A u \in Threads : /\ pc'[u] = "free" <=> pc[u] = "free"
                           /\ pc'[u] \in {"e_link", "e_sem"} <=> pc[u] \in {"e_link", "e_sem"}
                           /\ pc[u] # "free" => self[u] \in Addrs /\ self[u] # a
    BY ZenonT(30), <1>0, <1>4, <2>2 DEF Shape, Threads, Addrs
  <2>5. SoundSelf'
    BY <1>2, <1>4, <2>1, <2>4 DEF Sound, SoundSelf, Live
  <2>6. \A u \in Threads : pc'[u] \in TargetPcs =>
          /\ target[u] \in Addrs
          /\ u # t => pc'[u] = pc[u] /\ target[u] # a
    BY ZenonT(30), <1>0, <1>4, <2>2 DEF Shape, TargetPcs, Addrs
  <2>7. SoundTarget'
    <3>1. /\ \A u \in Threads : pc'[u] \in TargetPcs \ {"d_free"} => mem'[target[u]] = "live"
          /\ \A u \in Threads : pc'[u] = "d_free" => mem'[target[u]] = "dying"
      BY <1>4, <2>1, <2>6 DEF Sound, SoundTarget, Live, TargetPcs
    <3>2. \A u, v \in Threads : u # v /\ pc'[u] = "d_free" => target[v] # target[u]
      BY <1>4, <2>1, <2>2 DEF Sound, SoundTarget
    <3>3. /\ \A u, v \in Threads : pc'[u] \in {"f_check", "f_copy", "f_thread"} =>
               self[v] # target[u]
          /\ \A u, v \in Threads : u # v /\ pc'[u] \in OwnerPcs /\ pc'[v] \in OwnerPcs =>
               target[u] # target[v]
          /\ \A u \in Threads : pc'[u] \in {"w_sem", "d_table"} => self[u] # target[u]
      BY ZenonT(30), <1>4, <2>1 DEF Sound, SoundTarget, OwnerPcs
    <3> QED
      BY <1>2, <3>1, <3>2, <3>3 DEF SoundTarget, Live
  <2>8. SoundParent'
    <3>1. \A b \in Procs : mem'[b] = "live" => Live(b)
      BY Zenon, <1>4 DEF Live, Addrs
    <3>2. \A u \in Threads : pc'[u] = "f_ret" => pc[u] = "f_ret"
      BY Zenon, <1>4
    <3> QED
      BY Zenon, <1>2, <2>1, <3>1, <3>2 DEF Sound, SoundParent, Live
  <2>9. fault' = "none"
    BY Zenon, <1>2, <2>1 DEF Sound
  <2> QED
    BY Zenon, <1>3, <2>3, <2>5, <2>7, <2>8, <2>9 DEF Sound
<1> QED
  BY Zenon, <1>5, <1>6, <1>7 DEF IInv

\* When proc_destroy's or proc_end_waitpid's assertion fails, or sem_destroy finds
\* a sleeper, somebody else had a reference.
LEMMA EndWaitpidIInv ==
  ASSUME IInv, NEW t \in Threads, EndWaitpid(t)
  PROVE  IInv'
<1> DEFINE a == target[t]
<1>1. CASE DestroyFault(t, a) = "none"
  BY Zenon, <1>1, EndWaitpidIInvOK
<1>2. CASE DestroyFault(t, a) # "none"
  <2>1. Crash(DestroyFault(t, a)) /\ orderly' = (orderly /\ ~Referenced(t, a))
    BY Zenon, <1>2 DEF EndWaitpid
  <2>2. DestroyFault(t, a) \in Faults
    BY Zenon DEF DestroyFault, Faults
  <2>3. ASSUME orderly PROVE Referenced(t, a)
    <3>1. Sound /\ Shape /\ a \in Procs /\ pc[t] = "d_table"
      BY Zenon, <2>3 DEF IInv, EndWaitpid, Shape, TargetPcs
    <3>2. Live(a) /\ self[t] # a
      BY Zenon, <3>1 DEF Sound, SoundTarget, TargetPcs
    <3>3. p_pid[a] # 0
      <4>1. p_pid[a] \in Slots
        BY Zenon, <3>1, <3>2 DEF Sound, SoundTable, Addrs
      <4> QED
        BY <4>1, ProcessAssumption DEF Slots
    <3>4. p_numthreads[a] # 0 \/ Sleeper(t, a)
      BY Zenon, <1>2, <3>2, <3>3 DEF DestroyFault
    <3>5. CASE p_numthreads[a] # 0
      BY Zenon, <3>1, <3>2, <3>5 DEF Sound, SoundSelf, Referenced
    <3>6. CASE Sleeper(t, a)
      BY Zenon, <3>6 DEF Sleeper, Referenced
    <3> QED
      BY Zenon, <3>4, <3>5, <3>6
  <2>4. orderly' = FALSE
    BY Zenon, <2>1, <2>3 DEF IInv, TypeOK
  <2> QED
    BY Zenon, <2>1, <2>2, <2>4, CrashIInv
<1> QED
  BY Zenon, <1>1, <1>2

\* proc_rm_parent_link: no child that is still being forked is unlinked.
LEMMA RmLinkIInvOK ==
  ASSUME IInv, NEW t \in Threads, proc_rm_parent_link(t), LinkFault(self[t]) = "none"
  PROVE  IInv'
<1> DEFINE Gone == ChildrenOf(p_pid[self[t]])
<1>0. TypeOK /\ Shape /\ pc[t] = "e_link" /\ target[t] = NULL /\ t # Menu
  BY Zenon DEF IInv, proc_rm_parent_link, Shape, TargetPcs, MenuPcs
<1>1. /\ pc' = [pc EXCEPT ![t] = "e_sem"]
      /\ parent_proc' = [a \in Addrs |-> IF a \in Gone THEN NULL ELSE parent_proc[a]]
      /\ UNCHANGED <<table, last_i, is_full, mem, p_pid, p_status, p_exited, p_numthreads,
                     p_sem, self, target, s, fault, orderly>>
  BY Zenon DEF proc_rm_parent_link, Goto, tab_vars
<1>2. Move(t, "e_sem", target[t])
  BY Zenon, <1>1, SameTarget DEF Move
<1>3. MoveShape(t, "e_sem", target[t]) /\ MoveSound(t, "e_sem", target[t])
  BY Zenon, <1>0 DEF MoveShape, MoveSound, Pcs, TargetPcs, OwnerPcs
<1>4. RestType'
  <2>1. parent_proc' \in [Addrs -> Addrs \cup {NULL}]
    <3> HIDE DEF Gone
    <3> QED
      BY Zenon, <1>0, <1>1 DEF TypeOK
  <2> QED
    BY Zenon, <1>1, <2>1, RestSame DEF RestType
<1>5. ASSUME orderly PROVE ParentKept(t)
  <2>1. Sound
    BY Zenon, <1>5 DEF IInv
  <2>2. ASSUME NEW u \in Threads, pc[u] = "f_ret", target[u] \in Gone PROVE FALSE
    <3>1. parent_proc[target[u]] = self[u] /\ p_pid[self[u]] = p_pid[self[t]]
      BY Zenon, <2>1, <2>2 DEF Sound, SoundParent, ChildrenOf
    <3>2. /\ self[u] \in Addrs /\ self[t] \in Addrs
          /\ Live(self[u]) /\ Live(self[t]) /\ u # t
      BY Zenon, <1>0, <2>1, <2>2 DEF Sound, SoundSelf, Shape, MenuPcs, Addrs, Threads
    <3>3. self[u] = self[t]
      BY Zenon, <2>1, <3>1, <3>2 DEF Sound, SoundTable
    <3> QED
      BY ZenonT(30), <2>1, <2>2, <3>2, <3>3 DEF Sound, SoundSelf
  <2>3. \A u \in Threads : pc[u] = "f_ret" => target[u] \in Procs
    BY Zenon, <1>0 DEF Shape, TargetPcs
  <2> HIDE DEF Gone
  <2> QED
    BY Zenon, <1>1, <2>1, <2>2, <2>3, ProcessAssumption
    DEF Sound, SoundParent, ParentKept, Addrs
<1> QED
  BY ZenonT(30), <1>2, <1>3, <1>4, <1>5, MoveIInv

\* proc_rm_parent_link, the assertion that could fail included.
LEMMA RmLinkIInv ==
  ASSUME IInv, NEW t \in Threads, proc_rm_parent_link(t)
  PROVE  IInv'
<1>1. CASE LinkFault(self[t]) = "none"
  BY Zenon, <1>1, RmLinkIInvOK
<1>2. CASE ~(LinkFault(self[t]) = "none")
  <2>1. Crash(LinkFault(self[t])) /\ orderly' = orderly /\ LinkFault(self[t]) \in Faults
    BY Zenon, <1>2 DEF proc_rm_parent_link, LinkFault, Faults
  <2>2. ~orderly
    <3> SUFFICES ASSUME orderly PROVE FALSE
      OBVIOUS
    <3>1. Sound /\ Shape /\ TableType /\ ProcType
      BY Zenon, TypeParts DEF IInv
    <3>2. self[t] \in Procs /\ Live(self[t])
      BY Zenon, <3>1, ProcessAssumption
      DEF Sound, SoundSelf, Shape, MenuPcs, Threads, proc_rm_parent_link
    <3>3. p_pid[self[t]] \in Slots /\ p_pid[self[t]] # 1
      BY Zenon, <3>1, <3>2 DEF Sound, SoundTable, Shape, Addrs
    <3>4. \A i \in Slots : table[i] # NULL => mem[table[i]] # "free"
      BY Zenon, <3>1 DEF Sound, SoundTable, Live
    <3> QED
      BY <1>2, <3>2, <3>3, <3>4, ProcessAssumption DEF LinkFault, Live, Slots, PID_MIN
  <2>3. orderly' = FALSE
    BY Zenon, <2>1, <2>2 DEF IInv, TypeOK
  <2> QED
    BY Zenon, <2>1, <2>3, CrashIInv
<1> QED
  BY Zenon, <1>1, <1>2

\* cmd_progthread.
LEMMA ProgIInvOK ==
  ASSUME IInv, NEW t \in Threads, cmd_progthread(t), fault' = fault
  PROVE  IInv'
<1>0. TypeOK /\ pc[t] = "prog" /\ target[t] = NULL /\ t # Menu /\ self[t] \in Addrs
  BY Zenon DEF IInv, cmd_progthread, Shape, TargetPcs, MenuPcs, Threads, Addrs
<1>1. PICK l \in {"user", "r_rem", "prog"} :
        /\ pc' = [pc EXCEPT ![t] = l]
        /\ UNCHANGED <<table, last_i, is_full, mem, p_pid, p_status, p_exited,
                       p_numthreads, parent_proc, self, target, s, orderly>>
  BY ZenonT(30), <1>0 DEF cmd_progthread, Goto, tab_vars, TypeOK
<1>2. Move(t, l, target[t])
  BY Zenon, <1>1, SameTarget DEF Move
<1>3. MoveShape(t, l, target[t]) /\ MoveSound(t, l, target[t])
  BY ZenonT(30), <1>0, <1>1 DEF MoveShape, MoveSound, Pcs, TargetPcs, OwnerPcs
<1>4. p_sem' \in [Addrs -> Nat]
  BY <1>0 DEF cmd_progthread, TypeOK
<1>5. RestType'
  BY Zenon, <1>1, <1>4, RestSame DEF RestType
<1> QED
  BY ZenonT(30), <1>1, <1>2, <1>3, <1>5, ParentSame, MoveIInv

\* cmd_progthread, the missing semaphore included.
LEMMA ProgIInv ==
  ASSUME IInv, NEW t \in Threads, cmd_progthread(t)
  PROVE  IInv'
<1>1. CASE fault' = fault
  BY Zenon, <1>1, ProgIInvOK
<1>2. CASE fault' # fault
  <2>1. /\ Crash("freed") /\ "freed" \in Faults /\ orderly' = orderly
        /\ p_pid[self[t]] = 0 /\ pc[t] = "prog"
    BY Zenon, <1>2 DEF cmd_progthread, Faults, Crash, tab_vars, proc_vars, thr_vars
  <2>2. ~orderly
    <3> SUFFICES ASSUME orderly PROVE FALSE
      OBVIOUS
    <3>1. self[t] \in Procs /\ Live(self[t])
      BY Zenon, <2>1 DEF IInv, Sound, SoundSelf, Shape, MenuPcs, Threads
    <3>2. p_pid[self[t]] \in Slots
      BY Zenon, <3>1 DEF IInv, Sound, SoundTable, Addrs
    <3> QED
      BY <2>1, <3>2, ProcessAssumption DEF Slots
  <2>3. orderly' = FALSE
    BY Zenon, <2>1, <2>2 DEF IInv, TypeOK
  <2> QED
    BY Zenon, <2>1, <2>3, CrashIInv
<1> QED
  BY Zenon, <1>1, <1>2

\* proc_signal_end: the process does not count the thread any more.
LEMMA SignalEndIInvOK ==
  ASSUME IInv, NEW t \in Threads, proc_signal_end(t), Live(self[t])
  PROVE  IInv'
<1>0. TypeOK /\ Shape /\ pc[t] = "e_sem" /\ t \in Thrs /\ self[t] \in Procs
  BY Zenon DEF IInv, proc_signal_end, Shape, MenuPcs, Threads
<1>1. Leave(t, "free") /\ p_numthreads' = p_numthreads
  BY ZenonT(30), <1>0 DEF Leave, proc_signal_end, ThreadGone, Goto, tab_vars, TargetPcs
<1>2. p_sem' \in [Addrs -> Nat]
  BY <1>0 DEF proc_signal_end, TypeOK, Addrs
<1>3. orderly => p_numthreads[self[t]] = 0
  BY <1>0 DEF IInv, Sound, SoundSelf
<1> QED
  BY ZenonT(30), <1>0, <1>1, <1>2, <1>3, LeaveIInv DEF TypeOK

\* proc_signal_end, the assertion that could fail included.
LEMMA SignalEndIInv ==
  ASSUME IInv, NEW t \in Threads, proc_signal_end(t)
  PROVE  IInv'
<1>1. CASE Live(self[t])
  BY Zenon, <1>1, SignalEndIInvOK
<1>2. CASE ~(Live(self[t]))
  <2>1. Crash("freed") /\ orderly' = orderly /\ "freed" \in Faults
    BY Zenon, <1>2 DEF proc_signal_end, Faults
  <2>2. ~orderly
    BY Zenon, <1>2, TypeParts, ProcessAssumption
    DEF proc_signal_end, IInv, Sound, SoundSelf, Live
  <2>3. orderly' = FALSE
    BY Zenon, <2>1, <2>2 DEF IInv, TypeOK
  <2> QED
    BY Zenon, <2>1, <2>3, CrashIInv
<1> QED
  BY Zenon, <1>1, <1>2

\* proc_remthread: the count goes back to 0.
LEMMA RemThreadIInvOK ==
  ASSUME IInv, NEW t \in Threads, proc_remthread(t),
         mem[self[t]] # "free", p_numthreads[self[t]] # 0
  PROVE  IInv'
<1>0. /\ TypeOK /\ Shape /\ t \in Thrs /\ self[t] \in Procs
      /\ pc[t] \in {"e_rem", "k_rem", "r_rem"}
  BY Zenon DEF IInv, proc_remthread, Shape, MenuPcs, Threads
<1>1. PICK l \in {"e_link", "free"} : Leave(t, l)
  BY Zenon, <1>0 DEF Leave, proc_remthread, ThreadGone, Goto, tab_vars, TargetPcs
<1>2. /\ p_numthreads' = [p_numthreads EXCEPT ![self[t]] = @ - 1]
      /\ p_sem' = p_sem
  BY Zenon DEF proc_remthread
<1>3. p_numthreads' \in [Addrs -> Nat] /\ p_sem' \in [Addrs -> Nat]
  <2>1. self[t] \in Addrs /\ p_numthreads \in [Addrs -> Nat] /\ p_sem \in [Addrs -> Nat]
    BY Zenon, <1>0 DEF TypeOK, Addrs
  <2>2. p_numthreads[self[t]] - 1 \in Nat
    BY <2>1
  <2> QED
    BY Zenon, <1>2, <2>1, <2>2
<1>4. ASSUME orderly
      PROVE  /\ p_numthreads'[self[t]] = 0
             /\ \A b \in Addrs : b # self[t] => p_numthreads'[b] = p_numthreads[b]
  <2>1. p_numthreads[self[t]] = 1
    BY Zenon, <1>0, <1>4 DEF IInv, Sound, SoundSelf
  <2> QED
    BY <1>0, <1>2, <2>1 DEF TypeOK, Addrs
<1> QED
  BY Zenon, <1>0, <1>1, <1>3, <1>4, LeaveIInv

\* proc_remthread, its assertion included.
LEMMA RemThreadIInv ==
  ASSUME IInv, NEW t \in Threads, proc_remthread(t)
  PROVE  IInv'
<1>1. CASE mem[self[t]] # "free" /\ p_numthreads[self[t]] # 0
  BY Zenon, <1>1, RemThreadIInvOK
<1>2. CASE mem[self[t]] = "free" \/ p_numthreads[self[t]] = 0
  <2>1. PICK why \in Faults : Crash(why) /\ orderly' = orderly
    BY Zenon, <1>2 DEF proc_remthread, Faults
  <2>2. ~orderly
    BY <1>2 DEF proc_remthread, IInv, Sound, SoundSelf, Live
  <2>3. orderly' = FALSE
    BY Zenon, <2>1, <2>2 DEF IInv, TypeOK
  <2> QED
    BY Zenon, <2>1, <2>3, CrashIInv
<1> QED
  BY Zenon, <1>1, <1>2

-----------------------------------------------------------------------------
\* Every step keeps the invariant.
LEMMA NextIInv == IInv /\ [Next]_vars => IInv'
<1>1. ASSUME IInv, NEW t \in Threads, Step(t) PROVE IInv'
  <2>1. CASE sys_fork(t)
    BY Zenon, <1>1, <2>1, CreateIInv, CheckFullIInv, CopyImageIInv, ThreadForkIInv,
       ForkNoThreadIInv, ForkReturnIInv DEF sys_fork
  <2>2. CASE sys_waitpid(t)
    BY Zenon, <1>1, <2>2, SearchIInv, MenuSearchIInv, WaitCheckIInv, ProcWaitIInv
    DEF sys_waitpid
  <2>3. CASE proc_destroy(t)
    BY Zenon, <1>1, <2>3, EndWaitpidIInv, FreeProcIInv DEF proc_destroy
  <2>4. CASE sys__exit(t) \/ ExitSteps(t)
    BY Zenon, <1>1, <2>4, ExitIInv, RemThreadIInv, RmLinkIInv, SignalEndIInv DEF ExitSteps
  <2>5. CASE kill_curthread(t) \/ cmd_progthread(t)
    BY Zenon, <1>1, <2>5, KillIInv, ProgIInv
  <2> QED
    BY Zenon, <1>1, <2>1, <2>2, <2>3, <2>4, <2>5 DEF Step
<1>2. ASSUME IInv, UNCHANGED vars PROVE IInv'
  <2>1. UNCHANGED <<table, last_i, is_full, mem, p_pid, p_status, p_exited, p_numthreads,
                    p_sem, parent_proc, pc, self, target, s, fault, orderly>>
    BY Zenon, <1>2 DEF vars, tab_vars, proc_vars, thr_vars
  <2>2. TypeOK'
    BY Zenon, <1>2, <2>1 DEF IInv, TypeOK
  <2>3. Shape'
    BY Zenon, <1>2, <2>1 DEF IInv, Shape
  <2>4. ASSUME orderly PROVE Sound'
    <3>1. Sound
      BY ZenonT(30), <1>2, <2>4 DEF IInv
    <3>2. SoundTable' /\ SoundSelf'
      BY <2>1, <3>1 DEF Sound, SoundTable, SoundSelf, Live
    <3>3. SoundTarget' /\ SoundParent'
      BY ZenonT(60), <2>1, <3>1 DEF Sound, SoundTarget, SoundParent, Live
    <3> QED
      BY Zenon, <2>1, <3>1, <3>2, <3>3 DEF Sound
  <2> QED
    BY Zenon, <2>1, <2>2, <2>3, <2>4 DEF IInv
<1> QED
  BY Zenon, <1>1, <1>2 DEF Next

\* The invariant holds in every reachable state.
LEMMA SpecIInv == Spec => []IInv
BY InitIInv, NextIInv, PTL DEF Spec

\* For any number of processes, threads and slots, every variable keeps its type.
THEOREM ProcessTypeOK == Spec => []TypeOK
<1>1. IInv => TypeOK
  BY Zenon DEF IInv
<1> QED
  BY <1>1, SpecIInv, PTL

\* For any number of processes, threads and slots: while proc_destroy is called
\* with the only reference and the table has not filled, the process table lists
\* exactly the structures that exist, each under its pid.
THEOREM ProcessTable == Spec => []TableSound
<1>1. IInv => TableSound
  BY Zenon DEF IInv, Sound, SoundTable, TableSound
<1> QED
  BY <1>1, SpecIInv, PTL

\* Under the same conditions no assertion of the process code fails and no freed
\* struct proc is used, whatever the system calls, traps and failures.
THEOREM ProcessKernelSafe == Spec => []KernelSafe
<1>1. IInv => KernelSafe
  BY Zenon DEF IInv, Sound, KernelSafe
<1> QED
  BY <1>1, SpecIInv, PTL

\* Under the same conditions the child whose pid fork returns is there, linked to
\* the caller and found under that pid.
THEOREM ProcessForkReturns == Spec => []ForkReturnsLiveChild
<1>1. IInv => ForkReturnsLiveChild
  BY ZenonT(60), ProcessAssumption
  DEF IInv, Shape, Sound, SoundTable, SoundTarget, SoundParent, ForkReturnsLiveChild, TargetPcs, Addrs
<1> QED
  BY <1>1, SpecIInv, PTL
-----------------------------------------------------------------------------
\* Where a thread no longer runs its program, and where a child has no thread yet.
Ended == {"free", "e_rem", "e_link", "e_sem", "k_status", "k_rem", "r_rem"}
NewPcs == {"f_check", "f_copy", "f_thread"}

\* The parent of a live process runs, or was killed.
LifeParent ==
  \A b \in Addrs : Live(b) /\ parent_proc[b] # NULL =>
    \/ \E u \in Threads : self[u] = parent_proc[b] /\ pc[u] \notin {"e_sem", "free"}
    \/ Live(parent_proc[b]) /\ p_status[parent_proc[b]] = "signal"

\* A process without a thread yet has no status and no parent,
NewFields ==
  \A t \in Threads : pc[t] \in NewPcs =>
    /\ parent_proc[target[t]] = NULL /\ p_status[target[t]] = "none"
    /\ p_exited[target[t]] = 0 /\ p_sem[target[t]] = 0

\* no child,
NewNoChild ==
  \A t \in Threads, b \in Addrs : pc[t] \in NewPcs /\ Live(b) => parent_proc[b] # target[t]

\* and others can only have found it by its pid.
NewAlone ==
  \A t, u \in Threads : t # u /\ pc[t] \in NewPcs /\ target[u] = target[t] =>
    u # Menu /\ pc[u] = "w_lock"

\* A process whose program never ran has no child, and kproc has no parent.
ProgNoChild ==
  /\ parent_proc[KProc] = NULL
  /\ \A t \in Threads, b \in Addrs :
       pc[t] \in {"prog", "r_rem"} /\ Live(b) => parent_proc[b] # self[t]

\* A killed process has its status before its thread leaves it.
KilledMarked ==
  \A t \in Threads : pc[t] = "k_rem" => p_status[self[t]] = "signal"

\* A process that runs has not signalled its end.
RunsOpen ==
  \A t \in Threads : pc[t] \notin Ended => p_exited[self[t]] = 0 /\ p_sem[self[t]] = 0

\* Who waits is the parent or the menu.
WaitsForChild ==
  \A t \in Threads : pc[t] = "w_sem" => t = Menu \/ parent_proc[target[t]] = self[t]

\* What is destroyed no longer runs its program,
DestroysEnded ==
  \A t, u \in Threads : pc[t] = "d_table" /\ self[u] = target[t] => pc[u] \in Ended

\* and its status is in the hands of its parent or the menu.
DestroysCollected ==
  \A t \in Threads : pc[t] = "d_table" /\ p_status[target[t]] = "exit" =>
    s[t] = "exit" /\ (t = Menu \/ parent_proc[target[t]] = self[t])

Life == /\ LifeParent /\ NewFields /\ NewNoChild /\ NewAlone /\ ProgNoChild
        /\ KilledMarked /\ RunsOpen /\ WaitsForChild /\ DestroysEnded /\ DestroysCollected

LInv == orderly => Life
-----------------------------------------------------------------------------
\* What a move of thread t must satisfy to keep the second invariant.
MoveFields(t, l) ==
  /\ \A a \in Addrs : a # self[t] =>
       /\ p_status'[a] = p_status[a] /\ p_exited'[a] = p_exited[a]
       /\ p_sem[a] = 0 => p_sem'[a] = 0
  /\ pc[t] \in Ended => (p_status'[self[t]] = "exit" => p_status[self[t]] = "exit")
  /\ l = "k_rem" => p_status'[self[t]] = "signal"
  /\ l \notin Ended => /\ pc[t] \notin Ended
                       /\ p_exited'[self[t]] = p_exited[self[t]]
                       /\ p_sem'[self[t]] = p_sem[self[t]]

MoveLife(t, l, x) ==
  /\ l # "e_sem" /\ pc[t] # "e_sem" /\ (pc[t] \in Ended => l \in Ended)
  /\ l \in NewPcs => pc[t] \in NewPcs /\ x = target[t]
  /\ l \in {"prog", "r_rem"} => pc[t] \in {"prog", "r_rem"}
  /\ \A u \in Threads : u # t /\ pc[u] \in NewPcs /\ x = target[u] => t # Menu /\ l = "w_lock"
  /\ l = "w_sem" => t = Menu \/ parent_proc[x] = self[t]
  /\ l = "d_table" =>
       /\ \A u \in Threads : self[u] = x => u # t /\ pc[u] \in Ended
       /\ p_status'[x] = "exit" => s'[t] = "exit" /\ (t = Menu \/ parent_proc[x] = self[t])

\* Such a move keeps it.
LEMMA MoveLInv ==
  ASSUME IInv, IInv', Life, orderly, NEW t \in Threads, NEW l, NEW x,
         Move(t, l, x), MoveShape(t, l, x), parent_proc' = parent_proc,
         \A u \in Threads : u # t => s'[u] = s[u],
         MoveFields(t, l), MoveLife(t, l, x)
  PROVE  Life'
<1>0. TypeOK /\ Shape /\ Sound /\ t \in Threads
  BY Zenon DEF IInv
<1>1. /\ pc'[t] = l /\ target'[t] = x
      /\ \A u \in Threads : u # t => pc'[u] = pc[u] /\ target'[u] = target[u]
  BY Zenon, <1>0 DEF Move, TypeOK
<1>2. /\ mem' = mem /\ self' = self /\ parent_proc' = parent_proc
      /\ pc[t] # "free" /\ l # "free"
  BY Zenon DEF Move, MoveShape
<1>3. \A u \in Threads : u # t => self[u] # self[t]
  BY Zenon, <1>0, <1>2 DEF Sound, SoundSelf
<1>4. /\ \A u \in Threads : pc[u] # "free" => self[u] \in Addrs
      /\ \A u \in Threads : pc[u] \in TargetPcs => target[u] \in Addrs
  BY Zenon, <1>0 DEF Shape, Threads, Addrs
<1>5. LifeParent'
  <2> SUFFICES ASSUME NEW b \in Addrs, Live(b)', parent_proc'[b] # NULL
               PROVE  \/ \E u \in Threads : self'[u] = parent_proc'[b] /\ pc'[u] \notin {"e_sem", "free"}
                      \/ Live(parent_proc[b])' /\ p_status'[parent_proc'[b]] = "signal"
    BY Zenon DEF LifeParent
  <2>1. Live(b) /\ parent_proc[b] # NULL /\ parent_proc[b] \in Addrs
    BY ZenonT(60), <1>0, <1>2 DEF Live, TypeOK
  <2>2. CASE parent_proc[b] = self[t]
    BY Zenon, <1>1, <1>2, <2>2 DEF MoveLife
  <2>3. CASE parent_proc[b] # self[t]
    <3>1. CASE \E u \in Threads : self[u] = parent_proc[b] /\ pc[u] \notin {"e_sem", "free"}
      <4>1. PICK u \in Threads : self[u] = parent_proc[b] /\ pc[u] \notin {"e_sem", "free"}
        BY Zenon, <3>1
      <4> QED
        BY Zenon, <1>1, <1>2, <2>3, <4>1
    <3>2. CASE Live(parent_proc[b]) /\ p_status[parent_proc[b]] = "signal"
      BY Zenon, <1>2, <2>1, <2>3, <3>2 DEF Live, MoveFields
    <3> QED
      BY Zenon, <2>1, <3>1, <3>2 DEF Life, LifeParent
  <2> QED
    BY Zenon, <2>2, <2>3
<1>6. \A u \in Threads : pc'[u] \in NewPcs =>
        /\ pc[u] \in NewPcs /\ target'[u] = target[u] /\ target[u] \in Addrs
        /\ target[u] # self[t]
  BY ZenonT(60), <1>0, <1>1, <1>4 DEF MoveLife, NewPcs, TargetPcs, Sound, SoundTarget
<1>7. NewFields'
  <2> SUFFICES ASSUME NEW u \in Threads, pc'[u] \in NewPcs
               PROVE  /\ parent_proc'[target'[u]] = NULL /\ p_status'[target'[u]] = "none"
                      /\ p_exited'[target'[u]] = 0 /\ p_sem'[target'[u]] = 0
    BY Zenon DEF NewFields
  <2>1. /\ parent_proc[target[u]] = NULL /\ p_status[target[u]] = "none"
        /\ p_exited[target[u]] = 0 /\ p_sem[target[u]] = 0
    BY Zenon, <1>6 DEF Life, NewFields
  <2> QED
    BY ZenonT(60), <1>2, <1>6, <2>1 DEF MoveFields
<1>8. NewNoChild'
  BY Zenon, <1>2, <1>6 DEF Life, NewNoChild, Live
<1>9. NewAlone'
  <2> SUFFICES ASSUME NEW w \in Threads, NEW u \in Threads, w # u, pc'[w] \in NewPcs,
                      target'[u] = target'[w]
               PROVE  u # Menu /\ pc'[u] = "w_lock"
    BY Zenon DEF NewAlone
  <2>1. pc[w] \in NewPcs /\ target'[w] = target[w]
    BY Zenon, <1>6
  <2>2. CASE u = t
    BY Zenon, <1>1, <2>1, <2>2 DEF MoveLife
  <2>3. CASE u # t
    BY Zenon, <1>1, <2>1, <2>3 DEF Life, NewAlone
  <2> QED
    BY Zenon, <2>2, <2>3
<1>10. ProgNoChild'
  <2>1. \A u \in Threads : pc'[u] \in {"prog", "r_rem"} => pc[u] \in {"prog", "r_rem"}
    BY Zenon, <1>1 DEF MoveLife
  <2> QED
    BY Zenon, <1>2, <2>1 DEF Life, ProgNoChild, Live
<1>11. KilledMarked'
  <2> SUFFICES ASSUME NEW u \in Threads, pc'[u] = "k_rem"
               PROVE  p_status'[self[u]] = "signal"
    BY Zenon, <1>2 DEF KilledMarked
  <2>1. CASE u = t
    BY Zenon, <1>1, <2>1 DEF MoveFields
  <2>2. CASE u # t
    <3>1. pc[u] = "k_rem" /\ self[u] # self[t] /\ self[u] \in Addrs
      BY Zenon, <1>1, <1>3, <1>4, <2>2
    <3> QED
      BY Zenon, <3>1 DEF MoveFields, Life, KilledMarked
  <2> QED
    BY Zenon, <2>1, <2>2
<1>12. RunsOpen'
  <2> SUFFICES ASSUME NEW u \in Threads, pc'[u] \notin Ended
               PROVE  p_exited'[self[u]] = 0 /\ p_sem'[self[u]] = 0
    BY Zenon, <1>2 DEF RunsOpen
  <2>1. CASE u = t
    BY Zenon, <1>1, <2>1 DEF MoveFields, Life, RunsOpen
  <2>2. CASE u # t
    <3>1. pc[u] \notin Ended /\ self[u] # self[t] /\ self[u] \in Addrs
      BY Zenon, <1>1, <1>3, <1>4, <2>2 DEF Ended
    <3> QED
      BY Zenon, <3>1 DEF MoveFields, Life, RunsOpen
  <2> QED
    BY Zenon, <2>1, <2>2
<1>13. WaitsForChild'
  BY Zenon, <1>1, <1>2 DEF MoveLife, Life, WaitsForChild
<1>14. DestroysEnded'
  <2> SUFFICES ASSUME NEW u \in Threads, NEW w \in Threads,
                      pc'[u] = "d_table", self[w] = target'[u]
               PROVE  pc'[w] \in Ended
    BY Zenon, <1>2 DEF DestroysEnded
  <2>1. pc[w] \in Ended => pc'[w] \in Ended
    BY Zenon, <1>1 DEF MoveLife
  <2>2. CASE u = t
    BY Zenon, <1>1, <2>1, <2>2 DEF MoveLife
  <2>3. CASE u # t
    BY Zenon, <1>1, <2>1, <2>3 DEF Life, DestroysEnded
  <2> QED
    BY Zenon, <2>2, <2>3
<1>15. DestroysCollected'
  <2> SUFFICES ASSUME NEW u \in Threads, pc'[u] = "d_table", p_status'[target'[u]] = "exit"
               PROVE  s'[u] = "exit" /\ (u = Menu \/ parent_proc[target'[u]] = self[u])
    BY Zenon, <1>2 DEF DestroysCollected
  <2>1. CASE u = t
    BY Zenon, <1>1, <2>1 DEF MoveLife
  <2>2. CASE u # t
    <3>1. pc[u] = "d_table" /\ target'[u] = target[u] /\ target[u] \in Addrs
      BY Zenon, <1>1, <1>4, <2>2 DEF TargetPcs
    <3>2. p_status[target[u]] = "exit"
      <4>1. CASE target[u] = self[t]
        BY Zenon, <3>1, <4>1 DEF Life, DestroysEnded, MoveFields
      <4>2. CASE target[u] # self[t]
        BY Zenon, <3>1, <4>2 DEF MoveFields
      <4> QED
        BY Zenon, <4>1, <4>2
    <3> QED
      BY Zenon, <2>2, <3>1, <3>2 DEF Life, DestroysCollected
  <2> QED
    BY Zenon, <2>1, <2>2
<1> QED
  BY Zenon, <1>5, <1>7, <1>8, <1>9, <1>10, <1>11, <1>12, <1>13, <1>14, <1>15 DEF Life

-----------------------------------------------------------------------------
\* A move that changes no process.
LEMMA QuietFields ==
  ASSUME NEW t \in Threads, NEW l, UNCHANGED <<p_status, p_exited, p_sem>>,
         l # "k_rem", l \notin Ended => pc[t] \notin Ended
  PROVE  MoveFields(t, l)
BY Zenon DEF MoveFields

\* What the pointer of another thread that creates a process can be.
LEMMA NewTargets ==
  ASSUME IInv, orderly, Life, NEW t \in Threads, NEW u \in Threads, u # t, pc[u] \in NewPcs
  PROVE  /\ target[u] # NULL
         /\ target[u] = target[t] => t # Menu /\ pc[t] = "w_lock"
         /\ pc[t] \in OwnerPcs => target[u] # target[t]
<1>1. pc[u] \in OwnerPcs /\ pc[u] \in TargetPcs
  BY Zenon DEF NewPcs, OwnerPcs, TargetPcs
<1>2. target[u] \in Procs /\ target[u] # NULL
  BY Zenon, <1>1, ProcessAssumption DEF IInv, Shape
<1>3. pc[t] \in OwnerPcs => target[u] # target[t]
  BY Zenon, <1>1 DEF IInv, Sound, SoundTarget
<1> QED
  BY Zenon, <1>2, <1>3 DEF Life, NewAlone

\* The flag is read again, and is FALSE.
LEMMA CheckFullLife ==
  ASSUME IInv, IInv', orderly, Life, NEW t \in Threads, CheckFull(t)
  PROVE  Life'
<1>0. pc[t] = "f_check" /\ target[t] \in Procs /\ ~is_full
  BY Zenon DEF IInv, CheckFull, Shape, TargetPcs, Sound
<1>1. PICK l \in {"f_thread", "f_copy"} :
        /\ l = IF t = Menu THEN "f_thread" ELSE "f_copy"
        /\ pc' = [pc EXCEPT ![t] = l]
        /\ UNCHANGED <<tab_vars, proc_vars, self, target, s, fault, orderly>>
  BY Zenon, <1>0 DEF CheckFull, Goto
<1>2. Move(t, l, target[t])
  BY Zenon, <1>1, SameTarget DEF Move, tab_vars, proc_vars
<1>3. MoveShape(t, l, target[t])
  BY Zenon, <1>0, <1>1 DEF MoveShape, Pcs, TargetPcs, MenuPcs
<1>4. MoveFields(t, l)
  BY Zenon, <1>0, <1>1, QuietFields DEF proc_vars, Ended
<1>5. MoveLife(t, l, target[t])
  BY Zenon, <1>0, <1>1, NewTargets DEF MoveLife, NewPcs, Ended, OwnerPcs
<1> QED
  BY Zenon, <1>1, <1>2, <1>3, <1>4, <1>5, MoveLInv DEF proc_vars

\* The image is copied, or the child is given up.
LEMMA CopyImageLife ==
  ASSUME IInv, IInv', orderly, Life, NEW t \in Threads, CopyImage(t)
  PROVE  Life'
<1>1. PICK l \in {"f_thread", "d_table"} :
        /\ pc[t] = "f_copy" /\ pc' = [pc EXCEPT ![t] = l]
        /\ UNCHANGED <<tab_vars, proc_vars, self, target, s, fault, orderly>>
  BY Zenon DEF CopyImage, Goto
<1>2. Move(t, l, target[t])
  BY Zenon, <1>1, SameTarget DEF Move, tab_vars, proc_vars
<1>3. target[t] \in Procs /\ t # Menu /\ \A u \in Threads : self[u] # target[t]
  BY Zenon, <1>1 DEF IInv, Shape, TargetPcs, MenuPcs, Sound, SoundTarget
<1>4. MoveShape(t, l, target[t])
  BY Zenon, <1>1, <1>3 DEF MoveShape, Pcs, TargetPcs, MenuPcs
<1>5. MoveFields(t, l)
  BY Zenon, <1>1, QuietFields DEF proc_vars, Ended
<1>6. p_status'[target[t]] = "none"
  BY Zenon, <1>1 DEF Life, NewFields, NewPcs, proc_vars
<1>7. MoveLife(t, l, target[t])
  BY Zenon, <1>1, <1>3, <1>6, NewTargets DEF MoveLife, NewPcs, Ended, OwnerPcs
<1> QED
  BY Zenon, <1>1, <1>2, <1>4, <1>5, <1>7, MoveLInv DEF proc_vars

\* A call that returns without having changed a process.
LEMMA ReturnLife ==
  ASSUME IInv, IInv', orderly, Life, NEW t \in Threads,
         pc[t] \in {"f_ret", "w_lock"}, Return(t),
         UNCHANGED <<tab_vars, proc_vars, fault, orderly>>
  PROVE  Life'
<1>1. /\ pc' = [pc EXCEPT ![t] = Back(t)]
      /\ target' = [target EXCEPT ![t] = NULL]
      /\ s' = [s EXCEPT ![t] = "none"] /\ UNCHANGED self
      /\ Back(t) \in {"menu", "user"}
  BY Zenon DEF Return, Goto, Back
<1>2. Move(t, Back(t), NULL)
  BY Zenon, <1>1 DEF Move, tab_vars, proc_vars
<1>3. MoveShape(t, Back(t), NULL)
  BY Zenon, <1>1 DEF MoveShape, Back, Pcs, TargetPcs, MenuPcs
<1>4. MoveFields(t, Back(t))
  BY Zenon, <1>1, QuietFields DEF proc_vars, Ended
<1>5. MoveLife(t, Back(t), NULL)
  BY Zenon, <1>1, NewTargets DEF MoveLife, NewPcs, Ended
<1>6. \A u \in Threads : u # t => s'[u] = s[u]
  BY ZenonT(60), <1>1 DEF IInv, TypeOK
<1> QED
  BY Zenon, <1>1, <1>2, <1>3, <1>4, <1>5, <1>6, MoveLInv DEF proc_vars

\* fork returns.
LEMMA ForkReturnLife ==
  ASSUME IInv, IInv', orderly, Life, NEW t \in Threads, ForkReturn(t)
  PROVE  Life'
BY Zenon, ReturnLife DEF ForkReturn

\* waitpid under p_lock: who goes on to wait or to destroy is the parent or the
\* menu, and what is destroyed has exited.
LEMMA WaitCheckLife ==
  ASSUME IInv, IInv', orderly, orderly', Life, NEW t \in Threads, WaitCheck(t)
  PROVE  Life'
<1>0. TypeOK /\ Shape /\ Sound /\ pc[t] = "w_lock" /\ target[t] \in Procs
  BY Zenon DEF IInv, WaitCheck, Shape, TargetPcs
<1>1. mem[target[t]] # "free"
  BY Zenon, <1>0, ProcessAssumption DEF Sound, SoundTarget, TargetPcs, Live
<1>2. CASE Return(t) /\ UNCHANGED <<tab_vars, proc_vars, fault, orderly>>
  BY Zenon, <1>0, <1>2, ReturnLife
<1>3. CASE /\ t = Menu \/ parent_proc[target[t]] = self[t]
           /\ UNCHANGED <<tab_vars, proc_vars, self, target, fault, orderly>>
           /\ \/ /\ p_exited[target[t]] = 1
                 /\ s' = [s EXCEPT ![t] = p_status[target[t]]]
                 /\ pc' = [pc EXCEPT ![t] = "d_table"]
              \/ /\ p_exited[target[t]] # 1
                 /\ s' = s
                 /\ pc' = [pc EXCEPT ![t] = "w_sem"]
  <2>1. PICK l \in {"d_table", "w_sem"} :
          /\ pc' = [pc EXCEPT ![t] = l]
          /\ l = "d_table" => p_exited[target[t]] = 1
          /\ l = "d_table" => s' = [s EXCEPT ![t] = p_status[target[t]]]
    BY Zenon, <1>3
  <2>2. Move(t, l, target[t])
    BY Zenon, <1>3, <2>1, SameTarget DEF Move, tab_vars, proc_vars
  <2>3. MoveShape(t, l, target[t])
    BY Zenon, <1>0, <2>1 DEF MoveShape, Pcs, TargetPcs, MenuPcs
  <2>4. MoveFields(t, l)
    BY Zenon, <1>0, <1>3, <2>1, QuietFields DEF proc_vars, Ended
  <2>5. \A u \in Threads : u # t => s'[u] = s[u]
    BY Zenon, <1>0, <1>3 DEF TypeOK
  <2>6. l = "d_table" => s'[t] = p_status[target[t]]
    BY Zenon, <1>0, <2>1 DEF TypeOK
  <2>7. self[t] # NULL /\ self[t] # target[t]
    <3>1. Live(target[t])
      BY Zenon, <1>0 DEF Sound, SoundTarget, TargetPcs
    <3>2. self[t] # NULL
      BY Zenon, <1>0, ProcessAssumption DEF Shape, Threads
    <3>3. self[t] # target[t]
      <4>1. CASE t = Menu
        BY Zenon, <1>0, <4>1, ProcessAssumption DEF Shape
      <4>2. CASE parent_proc[target[t]] = self[t]
        BY Zenon, <1>0, <3>1, <4>2 DEF Sound, SoundParent
      <4> QED
        BY Zenon, <1>3, <4>1, <4>2
    <3> QED
      BY Zenon, <3>2, <3>3
  <2>8. \A u \in Threads : u # t /\ pc[u] \in NewPcs => target[u] # target[t]
    BY ZenonT(60), <1>3, <2>7, NewTargets DEF Life, NewFields
  <2>9. ASSUME l = "d_table", NEW u \in Threads, self[u] = target[t]
        PROVE  u # t /\ pc[u] \in Ended
    <3>1. p_exited[self[u]] = 1
      BY Zenon, <2>1, <2>9
    <3>2. p_exited[self[u]] # 0
      BY <3>1
    <3> QED
      BY Zenon, <2>7, <2>9, <3>2 DEF Life, RunsOpen
  <2>10. p_status' = p_status
    BY Zenon, <1>3 DEF proc_vars
  <2>11. MoveLife(t, l, target[t])
    BY Zenon, <1>0, <1>3, <2>1, <2>6, <2>8, <2>9, <2>10 DEF MoveLife, NewPcs, Ended
  <2> QED
    BY Zenon, <1>3, <2>2, <2>3, <2>4, <2>5, <2>11, MoveLInv DEF proc_vars
<1> QED
  BY Zenon, <1>1, <1>2, <1>3 DEF WaitCheck, Goto

\* P(p_sem) returns: the child signalled its end.
LEMMA ProcWaitLife ==
  ASSUME IInv, IInv', orderly, orderly', Life, NEW t \in Threads, proc_wait(t)
  PROVE  Life'
<1>0. TypeOK /\ Shape /\ Sound /\ pc[t] = "w_sem" /\ target[t] \in Procs /\ Live(target[t])
  BY Zenon DEF IInv, proc_wait, Shape, TargetPcs, Sound, SoundTarget
<1>1. /\ pc' = [pc EXCEPT ![t] = "d_table"]
      /\ p_sem[target[t]] > 0
      /\ p_sem' = [p_sem EXCEPT ![target[t]] = @ - 1]
      /\ s' = [s EXCEPT ![t] = p_status[target[t]]]
      /\ UNCHANGED <<table, last_i, is_full, mem, p_pid, p_status, p_exited, p_numthreads,
                     parent_proc, self, target, fault, orderly>>
  BY Zenon, <1>0 DEF proc_wait, Goto, tab_vars
<1>2. Move(t, "d_table", target[t])
  BY Zenon, <1>1, SameTarget DEF Move
<1>3. MoveShape(t, "d_table", target[t])
  BY Zenon, <1>0 DEF MoveShape, Pcs, TargetPcs, MenuPcs
<1>4. /\ self[t] # target[t] /\ p_sem[target[t]] # 0
      /\ \A a \in Addrs : a # target[t] => p_sem'[a] = p_sem[a]
      /\ self[t] \in Addrs
  <2>1. self[t] # target[t] /\ self[t] \in Addrs
    BY Zenon, <1>0 DEF Sound, SoundTarget, Shape, Threads, Addrs
  <2>2. \A a \in Addrs : a # target[t] => p_sem'[a] = p_sem[a]
    BY Zenon, <1>0, <1>1 DEF TypeOK
  <2>3. p_sem[target[t]] # 0
    BY <1>1
  <2> QED
    BY Zenon, <2>1, <2>2, <2>3
<1>5. MoveFields(t, "d_table")
  BY Zenon, <1>0, <1>1, <1>4 DEF MoveFields, Ended
<1>6. s'[t] = p_status[target[t]] /\ \A u \in Threads : u # t => s'[u] = s[u]
  BY Zenon, <1>0, <1>1 DEF TypeOK
<1>7. \A u \in Threads : u # t /\ pc[u] \in NewPcs => target[u] # target[t]
  BY Zenon, <1>0, NewTargets
<1>8. \A u \in Threads : self[u] = target[t] => u # t /\ pc[u] \in Ended
  BY Zenon, <1>4 DEF Life, RunsOpen
<1>9. MoveLife(t, "d_table", target[t])
  BY Zenon, <1>0, <1>1, <1>6, <1>7, <1>8 DEF MoveLife, NewPcs, Ended, Life, WaitsForChild
<1> QED
  BY Zenon, <1>1, <1>2, <1>3, <1>5, <1>6, <1>9, MoveLInv

\* proc_search_pid finds a process of the table.
LEMMA FoundLife ==
  ASSUME IInv, IInv', orderly, orderly', Life, NEW t \in Threads,
         NEW pid \in PID_MIN..MAX_PROC, Found(t, pid),
         table[pid] # NULL, pc[t] \in {"user", "w_pid"},
         pc[t] = "w_pid" => table[pid] = target[t]
  PROVE  Life'
<1>0. pid \in Slots /\ table[pid] \in Procs
  BY ProcessAssumption DEF IInv, TypeOK, Shape, Slots, PID_MIN, Addrs
<1>1. fault' = "none"
  BY Zenon DEF IInv, Sound
<1>2. /\ pc' = [pc EXCEPT ![t] = "w_lock"]
      /\ target' = [target EXCEPT ![t] = table[pid]]
      /\ UNCHANGED <<tab_vars, proc_vars, self, s, fault, orderly>>
  BY Zenon, <1>1 DEF Found, Goto, Crash
<1>3. Move(t, "w_lock", table[pid])
  BY Zenon, <1>2 DEF Move, tab_vars, proc_vars
<1>4. MoveShape(t, "w_lock", table[pid])
  BY Zenon, <1>0 DEF MoveShape, Pcs, TargetPcs, MenuPcs
<1>5. MoveFields(t, "w_lock")
  BY Zenon, <1>2, QuietFields DEF proc_vars, Ended
<1>6. pc[t] = "user" => t # Menu
  BY Zenon DEF IInv, Shape, MenuPcs
<1>7. \A u \in Threads : u # t /\ pc[u] \in NewPcs /\ table[pid] = target[u] => t # Menu
  BY Zenon, <1>6, NewTargets DEF OwnerPcs
<1>8. MoveLife(t, "w_lock", table[pid])
  BY Zenon, <1>7 DEF MoveLife, NewPcs, Ended
<1> QED
  BY Zenon, <1>2, <1>3, <1>4, <1>5, <1>8, MoveLInv DEF proc_vars

\* waitpid called by a program.
LEMMA SearchLife ==
  ASSUME IInv, IInv', orderly, orderly', Life, NEW t \in Threads, SearchPid(t)
  PROVE  Life'
BY Zenon, FoundLife DEF SearchPid

\* The menu waits for its program, whose pid is its own.
LEMMA MenuSearchLife ==
  ASSUME IInv, IInv', orderly, orderly', Life, NEW t \in Threads, MenuSearchPid(t)
  PROVE  Life'
<1>1. pc[t] = "w_pid" /\ target[t] \in Procs /\ target[t] \in Addrs
  BY Zenon DEF IInv, Shape, TargetPcs, MenuSearchPid, Addrs
<1>2. p_pid[target[t]] \in Slots /\ table[p_pid[target[t]]] = target[t]
  BY Zenon, <1>1 DEF IInv, Sound, SoundTarget, SoundTable, TargetPcs
<1>3. p_pid[target[t]] # 1
  BY Zenon, <1>1 DEF IInv, Shape
<1>4. p_pid[target[t]] \in PID_MIN..MAX_PROC
  BY <1>2, <1>3, ProcessAssumption DEF PID_MIN, Slots
<1>5. Found(t, p_pid[target[t]]) /\ table[p_pid[target[t]]] # NULL
  BY <1>1, <1>2, <1>4, ProcessAssumption DEF MenuSearchPid, PID_MIN
<1> QED
  BY Zenon, <1>1, <1>2, <1>4, <1>5, FoundLife

\* sys__exit marks the process.
LEMMA ExitLife ==
  ASSUME IInv, IInv', orderly, Life, NEW t \in Threads, sys__exit(t)
  PROVE  Life'
<1>1. /\ pc[t] = "user" /\ pc' = [pc EXCEPT ![t] = "e_rem"]
      /\ p_status' = [p_status EXCEPT ![self[t]] = "exit"]
      /\ p_exited' = [p_exited EXCEPT ![self[t]] = 1]
      /\ UNCHANGED <<tab_vars, mem, p_pid, p_numthreads, p_sem, parent_proc,
                     self, target, s, fault, orderly>>
  BY Zenon DEF sys__exit, Goto
<1>2. Move(t, "e_rem", target[t])
  BY Zenon, <1>1, SameTarget DEF Move, tab_vars
<1>3. target[t] = NULL /\ t # Menu
  BY Zenon, <1>1 DEF IInv, Shape, TargetPcs, MenuPcs
<1>4. MoveShape(t, "e_rem", target[t])
  BY Zenon, <1>1, <1>3 DEF MoveShape, Pcs, TargetPcs
<1>5. MoveFields(t, "e_rem")
  <2>1. \A a \in Addrs : a # self[t] => p_status'[a] = p_status[a] /\ p_exited'[a] = p_exited[a]
    BY Zenon, <1>1, RestSame DEF RestType
  <2> QED
    BY Zenon, <1>1, <2>1 DEF MoveFields, Ended
<1>6. MoveLife(t, "e_rem", target[t])
  BY Zenon, <1>1, <1>3, NewTargets DEF MoveLife, NewPcs, Ended
<1> QED
  BY Zenon, <1>1, <1>2, <1>4, <1>5, <1>6, MoveLInv

\* kill_curthread marks the process, in two steps.
LEMMA KillLife ==
  ASSUME IInv, IInv', orderly, Life, NEW t \in Threads, kill_curthread(t)
  PROVE  Life'
<1>1. PICK l \in {"k_status", "k_rem"} :
        /\ pc[t] \in {"user", "k_status"} /\ pc' = [pc EXCEPT ![t] = l]
        /\ IF l = "k_rem" THEN p_status' = [p_status EXCEPT ![self[t]] = "signal"]
           ELSE p_status' = p_status
        /\ IF l = "k_rem" THEN p_exited' = p_exited
           ELSE p_exited' = [p_exited EXCEPT ![self[t]] = 1]
        /\ UNCHANGED <<tab_vars, mem, p_pid, p_numthreads, p_sem, parent_proc,
                       self, target, s, fault, orderly>>
  BY Zenon DEF kill_curthread, Goto
<1>2. Move(t, l, target[t])
  BY Zenon, <1>1, SameTarget DEF Move, tab_vars
<1>3. target[t] = NULL /\ t # Menu /\ self[t] \in Addrs
  BY ZenonT(30), <1>1 DEF IInv, Shape, TargetPcs, MenuPcs, Threads, Addrs
<1>4. MoveShape(t, l, target[t])
  BY Zenon, <1>1, <1>3 DEF MoveShape, Pcs, TargetPcs
<1>5. MoveFields(t, l)
  <2>1. /\ l = "k_rem" => p_status'[self[t]] = "signal"
        /\ l # "k_rem" => p_status' = p_status
        /\ \A a \in Addrs : a # self[t] => p_status'[a] = p_status[a] /\ p_exited'[a] = p_exited[a]
    BY Zenon, <1>1, <1>3, RestSame DEF RestType
  <2> QED
    BY Zenon, <1>1, <2>1 DEF MoveFields, Ended
<1>6. MoveLife(t, l, target[t])
  BY Zenon, <1>1, <1>3, NewTargets DEF MoveLife, NewPcs, Ended
<1> QED
  BY Zenon, <1>1, <1>2, <1>4, <1>5, <1>6, MoveLInv

\* The program starts, or cannot be run.
LEMMA ProgLife ==
  ASSUME IInv, IInv', orderly, orderly', Life, NEW t \in Threads, cmd_progthread(t)
  PROVE  Life'
<1>0. fault' = "none"
  BY Zenon DEF IInv, Sound
<1>1. PICK l \in {"user", "r_rem"} :
        /\ pc[t] = "prog" /\ pc' = [pc EXCEPT ![t] = l]
        /\ IF l = "user" THEN p_sem' = p_sem ELSE p_sem' = [p_sem EXCEPT ![self[t]] = @ + 1]
        /\ UNCHANGED <<tab_vars, mem, p_pid, p_status, p_exited, p_numthreads, parent_proc,
                       self, target, s, fault, orderly>>
  BY Zenon, <1>0 DEF cmd_progthread, Goto, IInv, Sound
<1>2. Move(t, l, target[t])
  BY Zenon, <1>1, SameTarget DEF Move, tab_vars
<1>3. target[t] = NULL /\ t # Menu /\ self[t] \in Addrs
  BY ZenonT(30), <1>1 DEF IInv, Shape, TargetPcs, MenuPcs, Threads, Addrs
<1>4. MoveShape(t, l, target[t])
  BY Zenon, <1>1, <1>3 DEF MoveShape, Pcs, TargetPcs
<1>5. MoveFields(t, l)
  <2>1. /\ l = "user" => p_sem' = p_sem
        /\ \A a \in Addrs : a # self[t] => p_sem'[a] = p_sem[a]
    BY Zenon, <1>1, <1>3, RestSame DEF RestType
  <2> QED
    BY Zenon, <1>1, <2>1 DEF MoveFields, Ended
<1>6. MoveLife(t, l, target[t])
  BY Zenon, <1>1, <1>3, NewTargets DEF MoveLife, NewPcs, Ended
<1> QED
  BY Zenon, <1>1, <1>2, <1>4, <1>5, <1>6, MoveLInv

-----------------------------------------------------------------------------
\* thread_fork fails: the structure, linked to the caller, goes to proc_destroy.
LEMMA ForkNoThreadLife ==
  ASSUME IInv, IInv', orderly, Life, NEW t \in Threads, ForkNoThread(t)
  PROVE  Life'
<1> DEFINE a == target[t]
<1>0. /\ TypeOK /\ Shape /\ Sound /\ pc[t] = "f_thread"
      /\ a \in Procs /\ a \in Addrs /\ a # KProc /\ self[t] \in Addrs
  BY Zenon, ProcessAssumption DEF IInv, ForkNoThread, Shape, TargetPcs, Threads, Addrs
<1>1. /\ pc' = [pc EXCEPT ![t] = "d_table"] /\ LinkParent(t)
      /\ UNCHANGED <<mem, p_status, p_exited, p_sem, self, target, s>>
  BY Zenon DEF ForkNoThread, Goto
<1>2. pc'[t] = "d_table" /\ \A u \in Threads : u # t => pc'[u] = pc[u]
  BY Zenon, <1>0, <1>1 DEF TypeOK
<1>3. \A b \in Addrs : parent_proc'[b] = IF b = a /\ t # Menu THEN self[t] ELSE parent_proc[b]
  BY Zenon, <1>0, <1>1 DEF LinkParent, TypeOK
<1>4. /\ \A u \in Threads : u # t /\ pc[u] \in NewPcs => target[u] # a /\ self[t] # target[u]
      /\ \A u \in Threads : u # t /\ pc[u] \in {"w_sem", "d_table"} => target[u] # a
      /\ \A u \in Threads : self[u] # a
      /\ \A u \in Threads : u # t => self[u] # self[t]
      /\ p_status[a] = "none"
  <2>1. \A u \in Threads : u # t /\ pc[u] \in NewPcs => target[u] # a /\ self[t] # target[u]
    BY Zenon, <1>0 DEF Sound, SoundTarget, NewPcs, OwnerPcs
  <2>2. \A u \in Threads : u # t /\ pc[u] \in {"w_sem", "d_table"} => target[u] # a
    BY Zenon, <1>0 DEF Life, NewAlone, NewPcs
  <2>3. \A u \in Threads : self[u] # a
    BY Zenon, <1>0 DEF Sound, SoundTarget
  <2>4. \A u \in Threads : u # t => self[u] # self[t]
    BY Zenon, <1>0 DEF Sound, SoundSelf
  <2>5. p_status[a] = "none"
    BY Zenon, <1>0 DEF Life, NewFields, NewPcs
  <2> QED
    BY Zenon, <2>1, <2>2, <2>3, <2>4, <2>5
<1>5. \A u \in Threads : pc[u] \in TargetPcs => target[u] \in Addrs
  BY Zenon, <1>0 DEF Shape, Addrs
<1> HIDE DEF a
<1>6. LifeParent'
  <2> SUFFICES ASSUME NEW b \in Addrs, mem[b] = "live", parent_proc'[b] # NULL
               PROVE  \/ \E u \in Threads : self[u] = parent_proc'[b] /\ pc'[u] \notin {"e_sem", "free"}
                      \/ mem[parent_proc'[b]] = "live" /\ p_status[parent_proc'[b]] = "signal"
    BY Zenon, <1>1 DEF LifeParent, Live
  <2>1. CASE parent_proc'[b] = self[t]
    BY Zenon, <1>2, <2>1
  <2>2. CASE parent_proc'[b] # self[t]
    <3>1. parent_proc'[b] = parent_proc[b]
      BY Zenon, <1>3, <2>2
    <3> QED
      BY Zenon, <1>2, <3>1 DEF Life, LifeParent, Live
  <2> QED
    BY Zenon, <2>1, <2>2
<1>7. \A u \in Threads : pc'[u] \in NewPcs => u # t /\ pc[u] \in NewPcs /\ target[u] \in Addrs
  BY Zenon, <1>2, <1>5 DEF NewPcs, TargetPcs
<1>8. NewFields'
  BY Zenon, <1>1, <1>3, <1>4, <1>7 DEF Life, NewFields
<1>9. NewNoChild'
  BY ZenonT(60), <1>1, <1>3, <1>4, <1>7 DEF Life, NewNoChild, Live
<1>10. NewAlone'
  <2> SUFFICES ASSUME NEW w \in Threads, NEW u \in Threads, w # u, pc'[w] \in NewPcs,
                      target[u] = target[w]
               PROVE  u # Menu /\ pc'[u] = "w_lock"
    BY Zenon, <1>1 DEF NewAlone
  <2>1. u # t
    BY Zenon, <1>4, <1>7 DEF a
  <2> QED
    BY Zenon, <1>2, <1>7, <2>1 DEF Life, NewAlone
<1>11. ProgNoChild'
  <2>1. \A u \in Threads : pc'[u] \in {"prog", "r_rem"} => u # t /\ pc[u] \in {"prog", "r_rem"}
    BY Zenon, <1>2
  <2>2. parent_proc'[KProc] = NULL
    BY Zenon, <1>0, <1>3 DEF Life, ProgNoChild, Addrs
  <2>3. ASSUME NEW u \in Threads, NEW b \in Addrs, pc'[u] \in {"prog", "r_rem"}, mem[b] = "live"
        PROVE  parent_proc'[b] # self[u]
    BY Zenon, <1>3, <1>4, <2>1, <2>3 DEF Life, ProgNoChild, Live
  <2> QED
    BY Zenon, <1>1, <2>2, <2>3 DEF ProgNoChild, Live
<1>12. KilledMarked' /\ RunsOpen'
  BY Zenon, <1>0, <1>1, <1>2 DEF Life, KilledMarked, RunsOpen, Ended
<1>13. WaitsForChild'
  <2> SUFFICES ASSUME NEW u \in Threads, pc'[u] = "w_sem"
               PROVE  u = Menu \/ parent_proc'[target[u]] = self[u]
    BY Zenon, <1>1 DEF WaitsForChild
  <2>1. u # t /\ pc[u] = "w_sem" /\ target[u] # a /\ target[u] \in Addrs
    BY Zenon, <1>2, <1>4, <1>5 DEF TargetPcs
  <2> QED
    BY Zenon, <1>3, <2>1 DEF Life, WaitsForChild
<1>14. DestroysEnded'
  BY ZenonT(60), <1>0, <1>1, <1>2, <1>4 DEF Life, DestroysEnded, Ended, a
<1>15. DestroysCollected'
  <2> SUFFICES ASSUME NEW u \in Threads, pc'[u] = "d_table", p_status[target[u]] = "exit"
               PROVE  s[u] = "exit" /\ (u = Menu \/ parent_proc'[target[u]] = self[u])
    BY Zenon, <1>1 DEF DestroysCollected
  <2>1. u # t
    BY Zenon, <1>4 DEF a
  <2>2. pc[u] = "d_table" /\ target[u] # a /\ target[u] \in Addrs
    BY Zenon, <1>2, <1>4, <1>5, <2>1 DEF TargetPcs
  <2> QED
    BY Zenon, <1>3, <2>2 DEF Life, DestroysCollected
<1> QED
  BY Zenon, <1>6, <1>8, <1>9, <1>10, <1>11, <1>12, <1>13, <1>14, <1>15 DEF Life

\* thread_fork: the child gets its thread and, from fork, its parent.
LEMMA ThreadForkLife ==
  ASSUME IInv, IInv', orderly, Life, NEW t \in Threads, thread_fork(t)
  PROVE  Life'
<1> DEFINE a == target[t]
           l == IF t = Menu THEN "w_pid" ELSE "f_ret"
           k == IF t = Menu THEN "prog" ELSE "user"
<1>0. /\ TypeOK /\ Shape /\ Sound /\ pc[t] = "f_thread"
      /\ a \in Procs /\ a \in Addrs /\ a # KProc /\ self[t] \in Addrs
  BY Zenon, ProcessAssumption DEF IInv, thread_fork, Shape, TargetPcs, Threads, Addrs
<1>1. PICK w \in Thrs : /\ pc[w] = "free"
                        /\ pc' = [pc EXCEPT ![w] = k, ![t] = l]
                        /\ self' = [self EXCEPT ![w] = a]
  BY Zenon DEF thread_fork
<1>2. /\ LinkParent(t)
      /\ UNCHANGED <<mem, p_status, p_exited, p_sem, target, s>>
  BY Zenon DEF thread_fork
<1>3. /\ w \in Threads /\ w # t
      /\ pc'[t] = l /\ pc'[w] = k /\ self'[w] = a
      /\ \A u \in Threads \ {t, w} : pc'[u] = pc[u]
      /\ \A u \in Threads \ {w} : self'[u] = self[u]
  BY ZenonT(30), <1>0, <1>1, ProcessAssumption DEF TypeOK, Threads
<1>4. \A b \in Addrs : parent_proc'[b] = IF b = a /\ t # Menu THEN self[t] ELSE parent_proc[b]
  BY Zenon, <1>0, <1>2 DEF TypeOK, LinkParent
<1>5. target[w] = NULL /\ l \in {"w_pid", "f_ret"} /\ k \in {"prog", "user"}
  BY ZenonT(30), <1>0, <1>1, <1>3 DEF Shape, TargetPcs
<1>6. /\ \A u \in Threads : u # t /\ pc[u] \in NewPcs => target[u] # a /\ self[t] # target[u]
      /\ \A u \in Threads : u # t /\ pc[u] \in {"w_sem", "d_table"} => target[u] # a
      /\ \A u \in Threads : self[u] # a
      /\ \A u \in Threads : u # t => self[u] # self[t]
  <2>1. \A u \in Threads : u # t /\ pc[u] \in NewPcs => target[u] # a /\ self[t] # target[u]
    BY Zenon, <1>0 DEF Sound, SoundTarget, NewPcs, OwnerPcs
  <2>2. \A u \in Threads : u # t /\ pc[u] \in {"w_sem", "d_table"} => target[u] # a
    BY Zenon, <1>0 DEF Life, NewAlone, NewPcs
  <2>3. \A u \in Threads : self[u] # a
    BY Zenon, <1>0 DEF Sound, SoundTarget
  <2>4. \A u \in Threads : u # t => self[u] # self[t]
    BY Zenon, <1>0 DEF Sound, SoundSelf
  <2> QED
    BY Zenon, <2>1, <2>2, <2>3, <2>4
<1>7. /\ p_exited[a] = 0 /\ p_sem[a] = 0
      /\ \A b \in Addrs : mem[b] = "live" => parent_proc[b] # a
  BY Zenon, <1>0 DEF Life, NewFields, NewNoChild, NewPcs, Live
<1>8. \A u \in Threads : pc[u] \in TargetPcs => target[u] \in Addrs /\ target[u] # NULL
  BY Zenon, <1>0, ProcessAssumption DEF Shape, Addrs
<1> HIDE DEF a, l, k
<1>9. \A u \in Threads : u # w /\ u # t => pc'[u] = pc[u] /\ self'[u] = self[u]
  BY Zenon, <1>3
<1>10. LifeParent'
  <2> SUFFICES ASSUME NEW b \in Addrs, mem[b] = "live", parent_proc'[b] # NULL
               PROVE  \/ \E u \in Threads : self'[u] = parent_proc'[b] /\ pc'[u] \notin {"e_sem", "free"}
                      \/ mem[parent_proc'[b]] = "live" /\ p_status[parent_proc'[b]] = "signal"
    BY Zenon, <1>2 DEF LifeParent, Live
  <2>1. CASE parent_proc'[b] = self[t]
    <3>1. self'[t] = self[t] /\ pc'[t] \notin {"e_sem", "free"}
      BY Zenon, <1>3, <1>5
    <3> QED
      BY Zenon, <2>1, <3>1
  <2>2. CASE parent_proc'[b] # self[t]
    <3>1. parent_proc'[b] = parent_proc[b]
      BY Zenon, <1>4, <2>2
    <3>2. CASE \E u \in Threads : self[u] = parent_proc[b] /\ pc[u] \notin {"e_sem", "free"}
      BY Zenon, <1>1, <1>9, <2>2, <3>1, <3>2
    <3> QED
      BY ZenonT(60), <3>1, <3>2 DEF Life, LifeParent, Live
  <2> QED
    BY Zenon, <2>1, <2>2
<1>11. \A u \in Threads : pc'[u] \in NewPcs =>
         u # t /\ u # w /\ pc[u] \in NewPcs /\ target[u] \in Addrs /\ target[u] # NULL
  BY Zenon, <1>3, <1>5, <1>8 DEF NewPcs, TargetPcs
<1>12. NewFields'
  BY Zenon, <1>2, <1>4, <1>6, <1>11 DEF Life, NewFields
<1>13. NewNoChild'
  BY Zenon, <1>2, <1>4, <1>6, <1>11 DEF Life, NewNoChild, Live
<1>14. NewAlone'
  <2> SUFFICES ASSUME NEW v \in Threads, NEW u \in Threads, v # u, pc'[v] \in NewPcs,
                      target[u] = target[v]
               PROVE  u # Menu /\ pc'[u] = "w_lock"
    BY Zenon, <1>2 DEF NewAlone
  <2>1. u # t
    BY Zenon, <1>6, <1>11 DEF a
  <2>2. u # w
    BY Zenon, <1>5, <1>11
  <2> QED
    BY Zenon, <1>9, <1>11, <2>1, <2>2 DEF Life, NewAlone
<1>15. ProgNoChild'
  <2>1. parent_proc'[KProc] = NULL
    BY Zenon, <1>0, <1>4 DEF Life, ProgNoChild, Addrs
  <2>2. ASSUME NEW u \in Threads, NEW b \in Addrs, pc'[u] \in {"prog", "r_rem"}, mem[b] = "live"
        PROVE  parent_proc'[b] # self'[u]
    <3>1. CASE u = w
      BY ZenonT(60), <1>3, <1>4, <1>6, <1>7, <2>2, <3>1
    <3>2. CASE u # w
      <4>1. u # t /\ pc[u] \in {"prog", "r_rem"} /\ self'[u] = self[u]
        BY Zenon, <1>3, <1>5, <1>9, <2>2, <3>2
      <4> QED
        BY Zenon, <1>4, <1>6, <2>2, <4>1 DEF Life, ProgNoChild, Live
    <3> QED
      BY Zenon, <3>1, <3>2
  <2> QED
    BY Zenon, <1>2, <2>1, <2>2 DEF ProgNoChild, Live
<1>16. KilledMarked'
  <2>1. \A u \in Threads : pc'[u] = "k_rem" => pc[u] = "k_rem" /\ self'[u] = self[u]
    BY Zenon, <1>3, <1>5, <1>9
  <2> QED
    BY Zenon, <1>2, <2>1 DEF Life, KilledMarked
<1>17. RunsOpen'
  <2> SUFFICES ASSUME NEW u \in Threads, pc'[u] \notin Ended
               PROVE  p_exited[self'[u]] = 0 /\ p_sem[self'[u]] = 0
    BY Zenon, <1>2 DEF RunsOpen
  <2>1. CASE u = w
    BY Zenon, <1>3, <1>7, <2>1
  <2>2. CASE u # w
    <3>1. pc[u] \notin Ended /\ self'[u] = self[u]
      BY Zenon, <1>0, <1>3, <2>2 DEF Ended
    <3> QED
      BY Zenon, <3>1 DEF Life, RunsOpen
  <2> QED
    BY Zenon, <2>1, <2>2
<1>18. \A u \in Threads : pc'[u] \in {"w_sem", "d_table"} =>
         /\ u # t /\ u # w /\ pc[u] = pc'[u] /\ self'[u] = self[u]
         /\ target[u] # a /\ target[u] \in Addrs
  BY Zenon, <1>3, <1>5, <1>6, <1>8, <1>9 DEF TargetPcs
<1>19. WaitsForChild'
  BY Zenon, <1>2, <1>4, <1>18 DEF Life, WaitsForChild
<1>20. DestroysEnded'
  <2> SUFFICES ASSUME NEW u \in Threads, NEW v \in Threads, pc'[u] = "d_table",
                      self'[v] = target[u]
               PROVE  pc'[v] \in Ended
    BY Zenon, <1>2 DEF DestroysEnded
  <2>1. v # w
    BY Zenon, <1>3, <1>18
  <2>2. pc[v] \in Ended
    BY Zenon, <1>3, <1>18, <2>1 DEF Life, DestroysEnded
  <2>3. v # t
    BY Zenon, <1>0, <2>2 DEF Ended
  <2> QED
    BY Zenon, <1>9, <2>1, <2>2, <2>3
<1>21. DestroysCollected'
  BY Zenon, <1>2, <1>4, <1>18 DEF Life, DestroysCollected
<1> QED
  BY Zenon, <1>10, <1>12, <1>13, <1>14, <1>15, <1>16, <1>17, <1>19, <1>20, <1>21 DEF Life

\* A live process has no parent whose structure is not live.
LEMMA ParentLive ==
  ASSUME IInv, orderly, Life, NEW b \in Addrs, Live(b), NEW a \in Procs, ~Live(a)
  PROVE  parent_proc[b] # a
<1> SUFFICES ASSUME parent_proc[b] = a PROVE FALSE
  BY Zenon
<1>1. PICK u \in Threads : self[u] = a /\ pc[u] # "free"
  BY Zenon, ProcessAssumption DEF Life, LifeParent
<1> QED
  BY Zenon, <1>1 DEF IInv, Sound, SoundSelf

\* proc_create: the address was free, so it is nobody's parent.
LEMMA CreateLife ==
  ASSUME IInv, IInv', orderly, Life, NEW t \in Threads, proc_create(t)
  PROVE  Life'
<1>1. PICK a \in Procs :
      /\ mem[a] = "free" /\ mem' = [mem EXCEPT ![a] = "live"]
      /\ p_status' = [p_status EXCEPT ![a] = "none"]
      /\ p_exited' = [p_exited EXCEPT ![a] = 0]
      /\ p_sem' = [p_sem EXCEPT ![a] = 0]
      /\ parent_proc' = [parent_proc EXCEPT ![a] = NULL]
      /\ target' = [target EXCEPT ![t] = a]
  BY Zenon DEF proc_create
<1>2. /\ pc[t] \in {"user", "menu"}
      /\ pc' = [pc EXCEPT ![t] = "f_check"]
      /\ UNCHANGED <<self, s>>
  BY Zenon DEF proc_create, Goto
<1>3. TypeOK /\ Shape /\ Sound /\ a \in Addrs /\ a # NULL /\ a # KProc
  BY Zenon, ProcessAssumption DEF IInv, Addrs
<1>4. /\ pc'[t] = "f_check" /\ target'[t] = a
      /\ \A u \in Threads : u # t => pc'[u] = pc[u] /\ target'[u] = target[u]
  BY Zenon, <1>1, <1>2, <1>3 DEF TypeOK
<1>5. /\ mem'[a] = "live" /\ p_status'[a] = "none" /\ p_exited'[a] = 0 /\ p_sem'[a] = 0
      /\ parent_proc'[a] = NULL
      /\ \A b \in Addrs : b # a =>
           /\ mem'[b] = mem[b] /\ p_status'[b] = p_status[b] /\ p_exited'[b] = p_exited[b]
           /\ p_sem'[b] = p_sem[b] /\ parent_proc'[b] = parent_proc[b]
  <2>1. ProcType
    BY Zenon, <1>3, TypeParts
  <2>2. /\ mem'[a] = "live" /\ p_status'[a] = "none" /\ p_exited'[a] = 0 /\ p_sem'[a] = 0
        /\ parent_proc'[a] = NULL
    BY Zenon, <1>1, <1>3, <2>1 DEF ProcType
  <2>3. \A b \in Addrs : b # a => mem'[b] = mem[b] /\ p_status'[b] = p_status[b]
    BY Zenon, <1>1, <2>1 DEF ProcType
  <2>4. \A b \in Addrs : b # a => p_exited'[b] = p_exited[b] /\ p_sem'[b] = p_sem[b]
    BY Zenon, <1>1, <2>1 DEF ProcType
  <2>5. \A b \in Addrs : b # a => parent_proc'[b] = parent_proc[b]
    BY Zenon, <1>1, <2>1 DEF ProcType
  <2> QED
    BY Zenon, <2>2, <2>3, <2>4, <2>5
<1>6. \A u \in Threads : self[u] # a
  BY ZenonT(30), <1>1, <1>3 DEF Sound, SoundSelf, Shape, Live, Threads
<1>7. \A u \in Threads : target[u] # a
  BY Zenon, <1>1, <1>3 DEF Sound, SoundTarget, Shape, Live
<1>8. \A u \in Threads : /\ pc[u] # "free" => self[u] \in Addrs /\ self[u] # NULL
                         /\ pc[u] \in TargetPcs => target[u] \in Addrs /\ target[u] # NULL
  BY Zenon, <1>3, ProcessAssumption DEF Shape, Threads, Addrs
<1>9. \A b \in Addrs : mem[b] = "live" => parent_proc[b] # a
  BY Zenon, <1>1, ParentLive DEF Live
<1>10. LifeParent'
  <2> SUFFICES ASSUME NEW b \in Addrs, mem'[b] = "live", parent_proc'[b] # NULL
               PROVE  \/ \E u \in Threads : self[u] = parent_proc'[b] /\ pc'[u] \notin {"e_sem", "free"}
                      \/ mem'[parent_proc'[b]] = "live" /\ p_status'[parent_proc'[b]] = "signal"
    BY Zenon, <1>2 DEF LifeParent, Live
  <2>1. /\ mem[b] = "live" /\ parent_proc'[b] = parent_proc[b]
        /\ parent_proc[b] \in Addrs /\ parent_proc[b] # a
    BY ZenonT(60), <1>3, <1>5, <1>9 DEF TypeOK
  <2>2. CASE \E u \in Threads : self[u] = parent_proc[b] /\ pc[u] \notin {"e_sem", "free"}
    BY Zenon, <1>4, <2>1, <2>2
  <2>3. CASE mem[parent_proc[b]] = "live" /\ p_status[parent_proc[b]] = "signal"
    BY ZenonT(60), <1>5, <2>1, <2>3
  <2> QED
    BY Zenon, <2>1, <2>2, <2>3 DEF Life, LifeParent, Live
<1>11. \A u \in Threads : u # t /\ pc'[u] \in NewPcs =>
         /\ pc[u] \in NewPcs /\ target'[u] = target[u]
         /\ target[u] \in Addrs /\ target[u] # NULL
  BY Zenon, <1>4, <1>8 DEF NewPcs, TargetPcs
<1>12. NewFields'
  <2> SUFFICES ASSUME NEW u \in Threads, pc'[u] \in NewPcs
               PROVE  /\ parent_proc'[target'[u]] = NULL /\ p_status'[target'[u]] = "none"
                      /\ p_exited'[target'[u]] = 0 /\ p_sem'[target'[u]] = 0
    BY Zenon DEF NewFields
  <2>1. CASE u = t
    BY Zenon, <1>4, <1>5, <2>1
  <2>2. CASE u # t
    <3>1. pc[u] \in NewPcs /\ target'[u] = target[u] /\ target[u] \in Addrs /\ target[u] # a
      BY Zenon, <1>7, <1>11, <2>2
    <3>2. /\ parent_proc[target[u]] = NULL /\ p_status[target[u]] = "none"
          /\ p_exited[target[u]] = 0 /\ p_sem[target[u]] = 0
      BY Zenon, <3>1 DEF Life, NewFields
    <3> QED
      BY Zenon, <1>5, <3>1, <3>2
  <2> QED
    BY Zenon, <2>1, <2>2
<1>13. NewNoChild'
  <2> SUFFICES ASSUME NEW u \in Threads, NEW b \in Addrs, pc'[u] \in NewPcs, mem'[b] = "live"
               PROVE  parent_proc'[b] # target'[u]
    BY Zenon DEF NewNoChild, Live
  <2>1. CASE u = t
    BY Zenon, <1>3, <1>4, <1>5, <1>9, <2>1
  <2>2. CASE u # t
    <3>1. pc[u] \in NewPcs /\ target'[u] = target[u] /\ target[u] # NULL
      BY Zenon, <1>11, <2>2
    <3>2. CASE b = a
      BY Zenon, <1>5, <3>1, <3>2
    <3>3. CASE b # a
      <4>1. Live(b) /\ parent_proc'[b] = parent_proc[b]
        BY Zenon, <1>5, <3>3 DEF Live
      <4> QED
        BY Zenon, <3>1, <4>1 DEF Life, NewNoChild
    <3> QED
      BY Zenon, <3>2, <3>3
  <2> QED
    BY Zenon, <2>1, <2>2
<1>14. NewAlone'
  <2> SUFFICES ASSUME NEW v \in Threads, NEW u \in Threads, v # u, pc'[v] \in NewPcs,
                      target'[u] = target'[v]
               PROVE  u # Menu /\ pc'[u] = "w_lock"
    BY Zenon DEF NewAlone
  <2>1. v # t /\ u # t
    BY Zenon, <1>4, <1>7
  <2> QED
    BY Zenon, <1>4, <2>1 DEF Life, NewAlone
<1>15. ProgNoChild'
  <2>1. parent_proc'[KProc] = NULL
    BY Zenon, <1>3, <1>5 DEF Life, ProgNoChild, Addrs
  <2>2. ASSUME NEW u \in Threads, NEW b \in Addrs, pc'[u] \in {"prog", "r_rem"}, mem'[b] = "live"
        PROVE  parent_proc'[b] # self[u]
    <3>1. pc[u] \in {"prog", "r_rem"} /\ self[u] # NULL
      BY Zenon, <1>4, <1>8, <2>2
    <3> QED
      BY ZenonT(60), <1>5, <2>2, <3>1 DEF Life, ProgNoChild, Live
  <2> QED
    BY Zenon, <1>2, <2>1, <2>2 DEF ProgNoChild, Live
<1>16. KilledMarked'
  <2>1. \A u \in Threads : pc'[u] = "k_rem" => pc[u] = "k_rem" /\ self[u] \in Addrs
    BY Zenon, <1>4, <1>8
  <2> QED
    BY ZenonT(60), <1>2, <1>5, <1>6, <2>1 DEF Life, KilledMarked
<1>17. RunsOpen'
  <2>1. \A u \in Threads : pc'[u] \notin Ended => pc[u] \notin Ended /\ self[u] \in Addrs
    BY Zenon, <1>2, <1>4, <1>8 DEF Ended
  <2> QED
    BY ZenonT(60), <1>2, <1>5, <1>6, <2>1 DEF Life, RunsOpen
<1>18. \A u \in Threads : pc'[u] \in {"w_sem", "d_table"} =>
         u # t /\ pc[u] = pc'[u] /\ target'[u] = target[u] /\ target[u] \in Addrs
  BY Zenon, <1>4, <1>8 DEF TargetPcs
<1>19. WaitsForChild'
  <2> SUFFICES ASSUME NEW u \in Threads, pc'[u] = "w_sem"
               PROVE  u = Menu \/ parent_proc'[target'[u]] = self[u]
    BY Zenon, <1>2 DEF WaitsForChild
  <2>1. pc[u] = "w_sem" /\ target'[u] = target[u] /\ parent_proc'[target[u]] = parent_proc[target[u]]
    BY Zenon, <1>5, <1>7, <1>18
  <2> QED
    BY Zenon, <2>1 DEF Life, WaitsForChild
<1>20. DestroysEnded'
  <2> SUFFICES ASSUME NEW u \in Threads, NEW v \in Threads, pc'[u] = "d_table",
                      self[v] = target'[u]
               PROVE  pc'[v] \in Ended
    BY Zenon, <1>2 DEF DestroysEnded
  <2>1. pc[v] \in Ended
    BY Zenon, <1>18 DEF Life, DestroysEnded
  <2>2. v # t
    BY Zenon, <1>2, <2>1 DEF Ended
  <2> QED
    BY Zenon, <1>4, <2>1, <2>2
<1>21. DestroysCollected'
  <2> SUFFICES ASSUME NEW u \in Threads, pc'[u] = "d_table", p_status'[target'[u]] = "exit"
               PROVE  s[u] = "exit" /\ (u = Menu \/ parent_proc'[target'[u]] = self[u])
    BY Zenon, <1>2 DEF DestroysCollected
  <2>1. /\ pc[u] = "d_table" /\ target'[u] = target[u]
        /\ parent_proc'[target[u]] = parent_proc[target[u]]
        /\ p_status'[target[u]] = p_status[target[u]]
    BY Zenon, <1>5, <1>7, <1>18
  <2> QED
    BY Zenon, <2>1 DEF Life, DestroysCollected
<1> QED
  BY Zenon, <1>10, <1>12, <1>13, <1>14, <1>15, <1>16, <1>17, <1>19, <1>20, <1>21 DEF Life

\* proc_destroy takes the structure out of the table: no child has it.
LEMMA EndWaitpidLife ==
  ASSUME IInv, IInv', orderly, orderly', Life, NEW t \in Threads, EndWaitpid(t)
  PROVE  Life'
<1> DEFINE a == target[t]
<1>0. /\ TypeOK /\ Shape /\ Sound /\ pc[t] = "d_table" /\ a \in Procs /\ a \in Addrs
      /\ fault' = "none"
  BY Zenon DEF IInv, EndWaitpid, Shape, TargetPcs, Addrs, Sound
<1>1. DestroyFault(t, a) = "none"
  BY Zenon, <1>0 DEF EndWaitpid, Crash
<1>2. /\ pc' = [pc EXCEPT ![t] = "d_free"]
      /\ mem' = [mem EXCEPT ![a] = "dying"]
      /\ UNCHANGED <<p_status, p_exited, p_sem, parent_proc, self, target, s>>
      /\ ~Referenced(t, a)
  BY Zenon, <1>1 DEF EndWaitpid, Goto
<1>3. /\ pc'[t] = "d_free" /\ \A u \in Threads : u # t => pc'[u] = pc[u]
      /\ mem'[a] = "dying" /\ \A b \in Addrs : b # a => mem'[b] = mem[b]
  BY Zenon, <1>0, <1>2 DEF TypeOK
<1>4. \A b \in Addrs : mem[b] = "live" => parent_proc[b] # a
  BY Zenon, <1>0, <1>2, ProcessAssumption DEF Referenced, Live, Addrs, Life, ProgNoChild
<1>5. \A b \in Addrs : mem'[b] = "live" => b # a /\ mem[b] = "live"
  BY Zenon, <1>3
<1> HIDE DEF a
<1>6. LifeParent'
  <2> SUFFICES ASSUME NEW b \in Addrs, mem'[b] = "live", parent_proc[b] # NULL
               PROVE  \/ \E u \in Threads : self[u] = parent_proc[b] /\ pc'[u] \notin {"e_sem", "free"}
                      \/ mem'[parent_proc[b]] = "live" /\ p_status[parent_proc[b]] = "signal"
    BY Zenon, <1>2 DEF LifeParent, Live
  <2>1. mem[b] = "live" /\ parent_proc[b] # a /\ parent_proc[b] \in Addrs
    BY Zenon, <1>0, <1>4, <1>5 DEF TypeOK
  <2>2. CASE \E u \in Threads : self[u] = parent_proc[b] /\ pc[u] \notin {"e_sem", "free"}
    BY Zenon, <1>3, <2>2
  <2>3. CASE mem[parent_proc[b]] = "live" /\ p_status[parent_proc[b]] = "signal"
    BY Zenon, <1>3, <2>1, <2>3
  <2> QED
    BY Zenon, <2>1, <2>2, <2>3 DEF Life, LifeParent, Live
<1>7. \A u \in Threads : pc'[u] # "d_free" => u # t /\ pc'[u] = pc[u]
  BY Zenon, <1>3
<1>8. NewFields' /\ KilledMarked' /\ WaitsForChild' /\ DestroysCollected'
  <2>1. NewFields'
    BY Zenon, <1>2, <1>7 DEF Life, NewFields, NewPcs
  <2>2. KilledMarked' /\ WaitsForChild'
    BY ZenonT(60), <1>2, <1>7 DEF Life, KilledMarked, WaitsForChild
  <2>3. DestroysCollected'
    BY ZenonT(60), <1>2, <1>7 DEF Life, DestroysCollected
  <2> QED
    BY Zenon, <2>1, <2>2, <2>3
<1>9. NewNoChild' /\ ProgNoChild'
  <2>1. NewNoChild'
    BY Zenon, <1>2, <1>5, <1>7 DEF Life, NewNoChild, NewPcs, Live
  <2>2. ProgNoChild'
    BY Zenon, <1>2, <1>5, <1>7 DEF Life, ProgNoChild, Live
  <2> QED
    BY Zenon, <2>1, <2>2
<1>10. NewAlone'
  <2> SUFFICES ASSUME NEW v \in Threads, NEW u \in Threads, v # u, pc'[v] \in NewPcs,
                      target[u] = target[v]
               PROVE  u # Menu /\ pc'[u] = "w_lock"
    BY Zenon, <1>2 DEF NewAlone
  <2>1. pc[v] \in NewPcs
    BY Zenon, <1>7 DEF NewPcs
  <2>2. u # Menu /\ pc[u] = "w_lock"
    BY Zenon, <2>1 DEF Life, NewAlone
  <2> QED
    BY Zenon, <1>0, <1>3, <2>2
<1>11. RunsOpen'
  <2>1. \A u \in Threads : pc'[u] \notin Ended => pc[u] \notin Ended
    BY Zenon, <1>0, <1>3 DEF Ended
  <2> QED
    BY Zenon, <1>2, <2>1 DEF Life, RunsOpen
<1>12. DestroysEnded'
  <2>1. \A u \in Threads : pc[u] \in Ended => pc'[u] \in Ended
    BY Zenon, <1>0, <1>3 DEF Ended
  <2> QED
    BY Zenon, <1>2, <1>7, <2>1 DEF Life, DestroysEnded
<1> QED
  BY Zenon, <1>6, <1>8, <1>9, <1>10, <1>11, <1>12 DEF Life

\* The structure is freed: no live process has it as its parent.
LEMMA FreeProcLife ==
  ASSUME IInv, IInv', orderly, Life, NEW t \in Threads, FreeProc(t)
  PROVE  Life'
<1> DEFINE a == target[t]
<1>0. TypeOK /\ Shape /\ Sound /\ pc[t] = "d_free" /\ a \in Procs /\ a \in Addrs /\ a # KProc
  BY Zenon, ProcessAssumption DEF IInv, FreeProc, Shape, TargetPcs, Addrs
<1>1. /\ pc' = [pc EXCEPT ![t] = Back(t)] /\ target' = [target EXCEPT ![t] = NULL]
      /\ s' = [s EXCEPT ![t] = "none"] /\ kfree(a)
      /\ UNCHANGED self
  BY Zenon DEF FreeProc, Return, Goto
<1>2. /\ pc'[t] = Back(t) /\ target'[t] = NULL /\ Back(t) \in {"menu", "user"}
      /\ \A u \in Threads : u # t => /\ pc'[u] = pc[u] /\ target'[u] = target[u]
                                     /\ s'[u] = s[u]
  BY ZenonT(30), <1>0, <1>1 DEF TypeOK, Back
<1>3. /\ mem'[a] = "free" /\ parent_proc'[a] = NULL
      /\ \A b \in Addrs : b # a =>
           /\ mem'[b] = mem[b] /\ p_status'[b] = p_status[b] /\ p_exited'[b] = p_exited[b]
           /\ p_sem'[b] = p_sem[b] /\ parent_proc'[b] = parent_proc[b]
  <2>1. ProcType
    BY Zenon, <1>0, TypeParts
  <2>2. mem'[a] = "free" /\ parent_proc'[a] = NULL
    BY Zenon, <1>0, <1>1, <2>1 DEF ProcType, kfree
  <2>3. \A b \in Addrs : b # a => mem'[b] = mem[b] /\ p_status'[b] = p_status[b]
    BY Zenon, <1>1, <2>1 DEF ProcType, kfree
  <2>4. \A b \in Addrs : b # a => p_exited'[b] = p_exited[b] /\ p_sem'[b] = p_sem[b]
    BY Zenon, <1>1, <2>1 DEF ProcType, kfree
  <2>5. \A b \in Addrs : b # a => parent_proc'[b] = parent_proc[b]
    BY Zenon, <1>1, <2>1 DEF ProcType, kfree
  <2> QED
    BY Zenon, <2>2, <2>3, <2>4, <2>5
<1>4. mem[a] = "dying" /\ \A u \in Threads : u # t => target[u] # a
  BY Zenon, <1>0 DEF Sound, SoundTarget
<1>5. \A u \in Threads : self[u] # a
  <2> SUFFICES ASSUME NEW u \in Threads, self[u] = a PROVE FALSE
    BY Zenon
  <2>1. pc[u] # "free"
    BY Zenon, <1>0, ProcessAssumption DEF Shape, Threads
  <2> QED
    BY Zenon, <1>0, <1>4, <2>1 DEF Sound, SoundSelf, Live
<1>6. \A b \in Addrs : mem[b] = "live" => parent_proc[b] # a
  BY Zenon, <1>0, <1>4, ParentLive DEF Live
<1>7. \A u \in Threads : /\ pc[u] # "free" => self[u] \in Addrs
                         /\ pc[u] \in TargetPcs => target[u] \in Addrs /\ target[u] # NULL
  BY Zenon, <1>0, ProcessAssumption DEF Shape, Threads, Addrs
<1>8. \A b \in Addrs : mem'[b] = "live" => b # a /\ mem[b] = "live"
  BY Zenon, <1>3
<1> HIDE DEF a
<1>9. LifeParent'
  <2> SUFFICES ASSUME NEW b \in Addrs, mem'[b] = "live", parent_proc'[b] # NULL
               PROVE  \/ \E u \in Threads : self[u] = parent_proc'[b] /\ pc'[u] \notin {"e_sem", "free"}
                      \/ mem'[parent_proc'[b]] = "live" /\ p_status'[parent_proc'[b]] = "signal"
    BY Zenon, <1>1 DEF LifeParent, Live
  <2>1. /\ mem[b] = "live" /\ parent_proc'[b] = parent_proc[b]
        /\ parent_proc[b] \in Addrs /\ parent_proc[b] # a
    <3>1. mem[b] = "live" /\ parent_proc'[b] = parent_proc[b]
      BY Zenon, <1>3, <1>8
    <3>2. parent_proc[b] \in Addrs
      BY Zenon, <3>1, RestSame DEF RestType
    <3> QED
      BY Zenon, <1>6, <3>1, <3>2
  <2>2. CASE \E u \in Threads : self[u] = parent_proc[b] /\ pc[u] \notin {"e_sem", "free"}
    <3>1. PICK u \in Threads : self[u] = parent_proc[b] /\ pc[u] \notin {"e_sem", "free"}
      BY Zenon, <2>2
    <3>2. pc'[u] \notin {"e_sem", "free"}
      BY Zenon, <1>2, <3>1
    <3> QED
      BY Zenon, <2>1, <3>1, <3>2
  <2>3. CASE mem[parent_proc[b]] = "live" /\ p_status[parent_proc[b]] = "signal"
    BY Zenon, <1>3, <2>1, <2>3
  <2> QED
    BY Zenon, <2>1, <2>2, <2>3 DEF Life, LifeParent, Live
<1>10. \A u \in Threads : pc'[u] \in TargetPcs =>
         /\ u # t /\ pc'[u] = pc[u] /\ target'[u] = target[u] /\ s'[u] = s[u]
         /\ target[u] \in Addrs /\ target[u] # NULL /\ target[u] # a
  BY Zenon, <1>2, <1>4, <1>7 DEF TargetPcs
<1>11. NewFields'
  <2> SUFFICES ASSUME NEW u \in Threads, pc'[u] \in NewPcs
               PROVE  /\ parent_proc'[target'[u]] = NULL /\ p_status'[target'[u]] = "none"
                      /\ p_exited'[target'[u]] = 0 /\ p_sem'[target'[u]] = 0
    BY Zenon DEF NewFields
  <2>1. pc[u] \in NewPcs /\ target'[u] = target[u] /\ target[u] \in Addrs /\ target[u] # a
    BY Zenon, <1>10 DEF NewPcs, TargetPcs
  <2>2. /\ parent_proc[target[u]] = NULL /\ p_status[target[u]] = "none"
        /\ p_exited[target[u]] = 0 /\ p_sem[target[u]] = 0
    BY Zenon, <2>1 DEF Life, NewFields
  <2> QED
    BY Zenon, <1>3, <2>1, <2>2
<1>12. NewNoChild'
  <2> SUFFICES ASSUME NEW u \in Threads, NEW b \in Addrs, pc'[u] \in NewPcs, mem'[b] = "live"
               PROVE  parent_proc'[b] # target'[u]
    BY Zenon DEF NewNoChild, Live
  <2>1. pc[u] \in NewPcs /\ target'[u] = target[u]
    BY Zenon, <1>10 DEF NewPcs, TargetPcs
  <2>2. Live(b) /\ parent_proc'[b] = parent_proc[b]
    BY Zenon, <1>3, <1>8 DEF Live
  <2> QED
    BY Zenon, <2>1, <2>2 DEF Life, NewNoChild
<1>13. NewAlone'
  <2> SUFFICES ASSUME NEW v \in Threads, NEW u \in Threads, v # u, pc'[v] \in NewPcs,
                      target'[u] = target'[v]
               PROVE  u # Menu /\ pc'[u] = "w_lock"
    BY Zenon DEF NewAlone
  <2>1. pc[v] \in NewPcs /\ target'[v] = target[v] /\ target[v] # NULL
    BY Zenon, <1>10 DEF NewPcs, TargetPcs
  <2>2. u # t
    BY Zenon, <1>2, <2>1
  <2> QED
    BY ZenonT(60), <1>2, <2>1, <2>2 DEF Life, NewAlone
<1>14. ProgNoChild'
  <2>1. parent_proc'[KProc] = NULL
    BY Zenon, <1>0, <1>3 DEF Life, ProgNoChild, Addrs
  <2>2. ASSUME NEW u \in Threads, NEW b \in Addrs, pc'[u] \in {"prog", "r_rem"}, mem'[b] = "live"
        PROVE  parent_proc'[b] # self[u]
    <3>1. pc[u] \in {"prog", "r_rem"}
      BY Zenon, <1>2, <2>2
    <3>2. Live(b) /\ parent_proc'[b] = parent_proc[b]
      BY Zenon, <1>3, <1>8, <2>2 DEF Live
    <3> QED
      BY Zenon, <3>1, <3>2 DEF Life, ProgNoChild
  <2> QED
    BY Zenon, <1>1, <2>1, <2>2 DEF ProgNoChild, Live
<1>15. KilledMarked'
  <2>1. \A u \in Threads : pc'[u] = "k_rem" => pc[u] = "k_rem" /\ self[u] \in Addrs
    BY Zenon, <1>2, <1>7
  <2>2. \A u \in Threads : pc'[u] = "k_rem" => p_status'[self[u]] = p_status[self[u]]
    BY Zenon, <1>3, <1>5, <2>1
  <2> QED
    BY Zenon, <1>1, <2>1, <2>2 DEF Life, KilledMarked
<1>16. RunsOpen'
  <2>1. \A u \in Threads : pc'[u] \notin Ended => pc[u] \notin Ended /\ self[u] \in Addrs
    BY Zenon, <1>0, <1>2, <1>7 DEF Ended
  <2> QED
    BY Zenon, <1>1, <1>3, <1>5, <2>1 DEF Life, RunsOpen
<1>17. WaitsForChild'
  <2> SUFFICES ASSUME NEW u \in Threads, pc'[u] = "w_sem"
               PROVE  u = Menu \/ parent_proc'[target'[u]] = self[u]
    BY Zenon, <1>1 DEF WaitsForChild
  <2>1. pc[u] = "w_sem" /\ target'[u] = target[u] /\ parent_proc'[target[u]] = parent_proc[target[u]]
    BY Zenon, <1>3, <1>10 DEF TargetPcs
  <2> QED
    BY Zenon, <2>1 DEF Life, WaitsForChild
<1>18. DestroysEnded'
  <2> SUFFICES ASSUME NEW u \in Threads, NEW v \in Threads, pc'[u] = "d_table",
                      self[v] = target'[u]
               PROVE  pc'[v] \in Ended
    BY Zenon, <1>1 DEF DestroysEnded
  <2>1. pc[v] \in Ended
    BY Zenon, <1>10 DEF Life, DestroysEnded, TargetPcs
  <2>2. v # t
    BY Zenon, <1>0, <2>1 DEF Ended
  <2> QED
    BY Zenon, <1>2, <2>1, <2>2
<1>19. DestroysCollected'
  <2> SUFFICES ASSUME NEW u \in Threads, pc'[u] = "d_table", p_status'[target'[u]] = "exit"
               PROVE  s'[u] = "exit" /\ (u = Menu \/ parent_proc'[target'[u]] = self[u])
    BY Zenon, <1>1 DEF DestroysCollected
  <2>1. /\ pc[u] = "d_table" /\ target'[u] = target[u] /\ s'[u] = s[u]
        /\ parent_proc'[target[u]] = parent_proc[target[u]]
        /\ p_status'[target[u]] = p_status[target[u]]
    BY Zenon, <1>3, <1>10 DEF TargetPcs
  <2> QED
    BY Zenon, <2>1 DEF Life, DestroysCollected
<1> QED
  BY Zenon, <1>9, <1>11, <1>12, <1>13, <1>14, <1>15, <1>16, <1>17, <1>18, <1>19 DEF Life

\* A thread that leaves its process: no child is left, or the process was killed.
LEMMA LeaveLife ==
  ASSUME IInv, orderly, Life, NEW t \in Thrs, NEW l, Leave(t, l),
         l = "free" => pc[t] \in {"k_rem", "r_rem", "e_sem"},
         \A a \in Addrs : a # self[t] => p_sem'[a] = p_sem[a]
  PROVE  Life'
<1>0. /\ TypeOK /\ Shape /\ Sound /\ t \in Threads
      /\ pc[t] \notin TargetPcs \cup {"free"} /\ l \in {"e_link", "free"}
  BY Zenon DEF IInv, Threads, Leave
<1>1. /\ pc'[t] = l /\ self'[t] = IF l = "free" THEN NULL ELSE self[t]
      /\ \A u \in Threads : u # t => pc'[u] = pc[u] /\ self'[u] = self[u]
  BY ZenonT(30), <1>0 DEF Leave, TypeOK
<1>2. UNCHANGED <<mem, p_status, p_exited, parent_proc, target, s>>
  BY Zenon DEF Leave
<1>3. /\ \A u \in Threads : u # t => self[u] # self[t]
      /\ \A u \in Threads : pc[u] # "free" => self[u] \in Addrs
      /\ \A u \in Threads : pc[u] \in NewPcs => target[u] # self[t] /\ target[u] \in Addrs
      /\ mem[self[t]] = "live"
  <2>1. \A u \in Threads : u # t => self[u] # self[t]
    BY Zenon, <1>0 DEF Sound, SoundSelf
  <2>2. \A u \in Threads : pc[u] # "free" => self[u] \in Addrs
    BY Zenon, <1>0 DEF Shape, Threads, Addrs
  <2>3. \A u \in Threads : pc[u] \in NewPcs => target[u] # self[t] /\ target[u] \in Addrs
    BY Zenon, <1>0 DEF Sound, SoundTarget, Shape, NewPcs, TargetPcs, Addrs
  <2>4. mem[self[t]] = "live"
    BY Zenon, <1>0 DEF Sound, SoundSelf, Live
  <2> QED
    BY Zenon, <2>1, <2>2, <2>3, <2>4
<1>4. LifeParent'
  <2> SUFFICES ASSUME NEW b \in Addrs, mem[b] = "live", parent_proc[b] # NULL
               PROVE  \/ \E u \in Threads : self'[u] = parent_proc[b] /\ pc'[u] \notin {"e_sem", "free"}
                      \/ mem[parent_proc[b]] = "live" /\ p_status[parent_proc[b]] = "signal"
    BY Zenon, <1>2 DEF LifeParent, Live
  <2>1. \/ \E u \in Threads : self[u] = parent_proc[b] /\ pc[u] \notin {"e_sem", "free"}
        \/ mem[parent_proc[b]] = "live" /\ p_status[parent_proc[b]] = "signal"
    BY Zenon DEF Life, LifeParent, Live
  <2>2. ASSUME NEW u \in Threads, self[u] = parent_proc[b], pc[u] \notin {"e_sem", "free"}, u # t
        PROVE  \E v \in Threads : self'[v] = parent_proc[b] /\ pc'[v] \notin {"e_sem", "free"}
    BY Zenon, <1>1, <2>2
  <2>3. CASE self[t] = parent_proc[b] /\ pc[t] # "e_sem" /\ l = "e_link"
    BY Zenon, <1>0, <1>1, <2>3
  <2>4. CASE self[t] = parent_proc[b] /\ pc[t] # "e_sem" /\ l = "free"
    <3>1. pc[t] # "r_rem"
      BY Zenon, <1>0, <2>4 DEF Life, ProgNoChild, Live
    <3>2. p_status[self[t]] = "signal"
      BY Zenon, <1>0, <2>4, <3>1 DEF Life, KilledMarked
    <3> QED
      BY Zenon, <1>3, <2>4, <3>2
  <2> QED
    BY Zenon, <1>0, <2>1, <2>2, <2>3, <2>4
<1>5. \A u \in Threads : pc'[u] \in NewPcs => u # t /\ pc[u] \in NewPcs
  BY Zenon, <1>0, <1>1 DEF NewPcs
<1>6. NewFields'
  <2> SUFFICES ASSUME NEW u \in Threads, pc'[u] \in NewPcs
               PROVE  /\ parent_proc[target[u]] = NULL /\ p_status[target[u]] = "none"
                      /\ p_exited[target[u]] = 0 /\ p_sem'[target[u]] = 0
    BY Zenon, <1>2 DEF NewFields
  <2>1. p_sem'[target[u]] = p_sem[target[u]]
    BY Zenon, <1>3, <1>5
  <2> QED
    BY Zenon, <1>5, <2>1 DEF Life, NewFields
<1>7. NewNoChild'
  BY Zenon, <1>2, <1>5 DEF Life, NewNoChild, Live
<1>8. NewAlone'
  <2> SUFFICES ASSUME NEW v \in Threads, NEW u \in Threads, v # u, pc'[v] \in NewPcs,
                      target[u] = target[v]
               PROVE  u # Menu /\ pc'[u] = "w_lock"
    BY Zenon, <1>2 DEF NewAlone
  <2>1. u # Menu /\ pc[u] = "w_lock"
    BY Zenon, <1>5 DEF Life, NewAlone
  <2> QED
    BY Zenon, <1>0, <1>1, <2>1 DEF TargetPcs
<1>9. ProgNoChild'
  <2>1. \A u \in Threads : pc'[u] \in {"prog", "r_rem"} =>
          pc[u] \in {"prog", "r_rem"} /\ self'[u] = self[u]
    BY Zenon, <1>0, <1>1
  <2> QED
    BY ZenonT(60), <1>2, <2>1 DEF Life, ProgNoChild, Live
<1>10. KilledMarked'
  <2>1. \A u \in Threads : pc'[u] = "k_rem" => pc[u] = "k_rem" /\ self'[u] = self[u]
    BY Zenon, <1>0, <1>1
  <2> QED
    BY Zenon, <1>2, <2>1 DEF Life, KilledMarked
<1>11. RunsOpen'
  <2> SUFFICES ASSUME NEW u \in Threads, pc'[u] \notin Ended
               PROVE  p_exited[self'[u]] = 0 /\ p_sem'[self'[u]] = 0
    BY Zenon, <1>2 DEF RunsOpen
  <2>1. u # t
    BY Zenon, <1>0, <1>1 DEF Ended
  <2>2. pc[u] \notin Ended /\ self'[u] = self[u] /\ self[u] # self[t] /\ self[u] \in Addrs
    BY Zenon, <1>1, <1>3, <2>1 DEF Ended
  <2>3. p_sem'[self[u]] = p_sem[self[u]]
    BY Zenon, <2>2
  <2> QED
    BY Zenon, <2>2, <2>3 DEF Life, RunsOpen
<1>12. \A u \in Threads : pc'[u] \in {"w_sem", "d_table"} => pc[u] = pc'[u] /\ self'[u] = self[u]
  BY Zenon, <1>0, <1>1
<1>13. WaitsForChild' /\ DestroysCollected'
  <2>1. WaitsForChild'
    BY Zenon, <1>2, <1>12 DEF Life, WaitsForChild
  <2>2. DestroysCollected'
    BY ZenonT(60), <1>2, <1>12 DEF Life, DestroysCollected
  <2> QED
    BY Zenon, <2>1, <2>2
<1>14. DestroysEnded'
  <2> SUFFICES ASSUME NEW u \in Threads, NEW v \in Threads, pc'[u] = "d_table",
                      self'[v] = target[u]
               PROVE  pc'[v] \in Ended
    BY Zenon, <1>2 DEF DestroysEnded
  <2>1. CASE v = t
    BY Zenon, <1>0, <1>1, <2>1 DEF Ended
  <2>2. CASE v # t
    BY Zenon, <1>1, <1>12, <2>2 DEF Life, DestroysEnded
  <2> QED
    BY Zenon, <2>1, <2>2
<1> QED
  BY Zenon, <1>4, <1>6, <1>7, <1>8, <1>9, <1>10, <1>11, <1>13, <1>14 DEF Life

\* proc_remthread.
LEMMA RemthreadLife ==
  ASSUME IInv, IInv', orderly, orderly', Life, NEW t \in Threads, proc_remthread(t)
  PROVE  Life'
<1>0. pc[t] \in {"e_rem", "k_rem", "r_rem"} /\ fault' = "none" /\ t \in Thrs
  BY Zenon DEF proc_remthread, IInv, Sound, Shape, MenuPcs, Threads
<1>1. PICK l \in {"e_link", "free"} :
        /\ l = IF pc[t] = "e_rem" THEN "e_link" ELSE "free"
        /\ pc' = [pc EXCEPT ![t] = l]
        /\ self' = IF l = "free" THEN [self EXCEPT ![t] = NULL] ELSE self
        /\ UNCHANGED <<target, s, tab_vars, mem, p_pid, p_status, p_exited, p_sem, parent_proc,
                       fault, orderly>>
  BY Zenon, <1>0 DEF proc_remthread, Crash, Goto, ThreadGone
<1>2. Leave(t, l)
  BY Zenon, <1>0, <1>1 DEF Leave, TargetPcs, tab_vars
<1> QED
  BY Zenon, <1>0, <1>1, <1>2, LeaveLife

\* proc_signal_end: proc_rm_parent_link has run.
LEMMA SignalEndLife ==
  ASSUME IInv, IInv', orderly, orderly', Life, NEW t \in Threads, proc_signal_end(t)
  PROVE  Life'
<1>0. pc[t] = "e_sem" /\ fault' = "none" /\ t \in Thrs
  BY Zenon DEF proc_signal_end, IInv, Sound, Shape, MenuPcs, Threads
<1>1. /\ pc' = [pc EXCEPT ![t] = "free"]
      /\ self' = [self EXCEPT ![t] = NULL]
      /\ p_sem' = [p_sem EXCEPT ![self[t]] = @ + 1]
      /\ UNCHANGED <<target, s, tab_vars, mem, p_pid, p_status, p_exited, parent_proc,
                     fault, orderly>>
  BY Zenon, <1>0 DEF proc_signal_end, Crash, Goto, ThreadGone
<1>2. Leave(t, "free")
  BY Zenon, <1>0, <1>1 DEF Leave, TargetPcs, tab_vars
<1>3. \A a \in Addrs : a # self[t] => p_sem'[a] = p_sem[a]
  BY Zenon, <1>1, RestSame DEF RestType
<1> QED
  BY Zenon, <1>0, <1>2, <1>3, LeaveLife

\* proc_rm_parent_link: every live child is in the table, so none keeps its link;
\* the children of others, whose pids differ, keep theirs.
LEMMA RmParentLinkLife ==
  ASSUME IInv, IInv', orderly, orderly', Life, NEW t \in Threads, proc_rm_parent_link(t)
  PROVE  Life'
<1>0. /\ TypeOK /\ Shape /\ Sound /\ pc[t] = "e_link" /\ fault' = "none"
      /\ self[t] \in Addrs /\ Live(self[t])
  BY Zenon DEF proc_rm_parent_link, IInv, Sound, SoundSelf, Shape, Threads, Addrs
<1>1. /\ parent_proc' = [a \in Addrs |-> IF a \in ChildrenOf(p_pid[self[t]]) THEN NULL
                                         ELSE parent_proc[a]]
      /\ pc' = [pc EXCEPT ![t] = "e_sem"]
      /\ UNCHANGED <<mem, p_pid, p_status, p_exited, p_sem, self, target, s>>
  BY Zenon, <1>0 DEF proc_rm_parent_link, Crash, Goto
<1>2. pc'[t] = "e_sem" /\ \A u \in Threads : u # t => pc'[u] = pc[u]
  BY Zenon, <1>0, <1>1 DEF TypeOK
<1>3. \A b \in Addrs : parent_proc'[b] = NULL \/ parent_proc'[b] = parent_proc[b]
  BY Zenon, <1>1
<1>4. \A b \in Addrs : Live(b) => parent_proc'[b] # self[t] \/ parent_proc[b] = NULL
  <2> SUFFICES ASSUME NEW b \in Addrs, Live(b), parent_proc[b] = self[t], parent_proc[b] # NULL
               PROVE  parent_proc'[b] = NULL
    BY Zenon, <1>0, <1>3, ProcessAssumption DEF Addrs
  <2>1. p_pid[b] \in Slots /\ table[p_pid[b]] = b /\ b # NULL
    BY Zenon, <1>0, ProcessAssumption DEF Sound, SoundTable, Addrs
  <2>2. mem[self[t]] # "free"
    BY <1>0 DEF Live
  <2>3. b \in ChildrenOf(p_pid[self[t]])
    BY Zenon, <2>1, <2>2 DEF ChildrenOf
  <2> QED
    BY Zenon, <1>1, <2>3
<1>5. ASSUME NEW u \in Threads, pc[u] # "free", u # t, NEW b \in Addrs, parent_proc[b] = self[u]
      PROVE  parent_proc'[b] = parent_proc[b]
  <2>1. self[u] \in Addrs /\ Live(self[u]) /\ self[u] # self[t]
    BY ZenonT(60), <1>0, <1>5 DEF Sound, SoundSelf, Shape, Threads, Addrs
  <2>2. p_pid[self[u]] # p_pid[self[t]]
    BY Zenon, <1>0, <2>1 DEF Sound, SoundTable
  <2>3. b \notin ChildrenOf(p_pid[self[t]])
    BY Zenon, <1>5, <2>2 DEF ChildrenOf
  <2> QED
    BY Zenon, <1>1, <2>3
<1>6. LifeParent'
  <2> SUFFICES ASSUME NEW b \in Addrs, mem[b] = "live", parent_proc'[b] # NULL
               PROVE  \/ \E u \in Threads : self[u] = parent_proc'[b] /\ pc'[u] \notin {"e_sem", "free"}
                      \/ mem[parent_proc'[b]] = "live" /\ p_status[parent_proc'[b]] = "signal"
    BY Zenon, <1>1 DEF LifeParent, Live
  <2>1. parent_proc'[b] = parent_proc[b] /\ parent_proc[b] # self[t]
    BY Zenon, <1>3, <1>4 DEF Live
  <2>2. CASE \E u \in Threads : self[u] = parent_proc[b] /\ pc[u] \notin {"e_sem", "free"}
    BY Zenon, <1>2, <2>1, <2>2
  <2> QED
    BY Zenon, <2>1, <2>2 DEF Life, LifeParent, Live
<1>7. \A u \in Threads : pc[u] \in TargetPcs => target[u] \in Addrs /\ target[u] # NULL
  BY Zenon, <1>0, ProcessAssumption DEF Shape, Addrs
<1>8. \A u \in Threads : pc'[u] \in NewPcs =>
        pc[u] \in NewPcs /\ target[u] \in Addrs /\ target[u] # NULL
  BY Zenon, <1>2, <1>7 DEF NewPcs, TargetPcs
<1>9. NewFields'
  <2> SUFFICES ASSUME NEW u \in Threads, pc'[u] \in NewPcs
               PROVE  /\ parent_proc'[target[u]] = NULL /\ p_status[target[u]] = "none"
                      /\ p_exited[target[u]] = 0 /\ p_sem[target[u]] = 0
    BY Zenon, <1>1 DEF NewFields
  <2>1. parent_proc'[target[u]] = NULL \/ parent_proc'[target[u]] = parent_proc[target[u]]
    BY Zenon, <1>3, <1>8
  <2> QED
    BY Zenon, <1>8, <2>1 DEF Life, NewFields
<1>10. NewNoChild'
  BY Zenon, <1>1, <1>3, <1>8 DEF Life, NewNoChild, Live
<1>11. NewAlone'
  <2> SUFFICES ASSUME NEW v \in Threads, NEW u \in Threads, v # u, pc'[v] \in NewPcs,
                      target[u] = target[v]
               PROVE  u # Menu /\ pc'[u] = "w_lock"
    BY Zenon, <1>1 DEF NewAlone
  <2>1. u # Menu /\ pc[u] = "w_lock"
    BY Zenon, <1>8 DEF Life, NewAlone
  <2> QED
    BY Zenon, <1>0, <1>2, <2>1
<1>12. ProgNoChild'
  <2>1. \A u \in Threads : pc'[u] \in {"prog", "r_rem"} => pc[u] \in {"prog", "r_rem"} /\ self[u] # NULL
    BY Zenon, <1>0, <1>2, ProcessAssumption DEF Shape, Threads
  <2>2. parent_proc'[KProc] = NULL
    BY Zenon, <1>3 DEF Life, ProgNoChild, Addrs
  <2> QED
    BY Zenon, <1>1, <1>3, <2>1, <2>2 DEF Life, ProgNoChild, Live
<1>13. KilledMarked'
  <2>1. \A u \in Threads : pc'[u] = "k_rem" => pc[u] = "k_rem"
    BY Zenon, <1>2
  <2> QED
    BY Zenon, <1>1, <2>1 DEF Life, KilledMarked
<1>14. RunsOpen'
  <2>1. \A u \in Threads : pc'[u] \notin Ended => pc[u] \notin Ended
    BY Zenon, <1>2 DEF Ended
  <2> QED
    BY Zenon, <1>1, <2>1 DEF Life, RunsOpen
<1>15. \A u \in Threads : pc'[u] \in {"w_sem", "d_table"} =>
         pc[u] = pc'[u] /\ u # t /\ target[u] \in Addrs
  BY Zenon, <1>2, <1>7 DEF TargetPcs
<1>16. WaitsForChild'
  <2> SUFFICES ASSUME NEW u \in Threads, pc'[u] = "w_sem", u # Menu
               PROVE  parent_proc'[target[u]] = self[u]
    BY Zenon, <1>1 DEF WaitsForChild
  <2>1. parent_proc[target[u]] = self[u]
    BY Zenon, <1>15 DEF Life, WaitsForChild
  <2> QED
    BY Zenon, <1>5, <1>15, <2>1
<1>17. DestroysEnded'
  <2>1. \A u \in Threads : pc[u] \in Ended => pc'[u] \in Ended
    BY Zenon, <1>2 DEF Ended
  <2> QED
    BY Zenon, <1>1, <1>15, <2>1 DEF Life, DestroysEnded
<1>18. DestroysCollected'
  <2> SUFFICES ASSUME NEW u \in Threads, pc'[u] = "d_table", p_status[target[u]] = "exit"
               PROVE  s[u] = "exit" /\ (u = Menu \/ parent_proc'[target[u]] = self[u])
    BY Zenon, <1>1 DEF DestroysCollected
  <2>1. s[u] = "exit" /\ (u = Menu \/ parent_proc[target[u]] = self[u])
    BY Zenon, <1>15 DEF Life, DestroysCollected
  <2> QED
    BY Zenon, <1>5, <1>15, <2>1
<1> QED
  BY Zenon, <1>6, <1>9, <1>10, <1>11, <1>12, <1>13, <1>14, <1>16, <1>17, <1>18 DEF Life

-----------------------------------------------------------------------------
\* A state that is not orderly is never followed by one that is.
LEMMA OrderlyBefore ==
  ASSUME IInv, NEW t \in Threads, Step(t), orderly'
  PROVE  orderly
<1>1. CASE sys_fork(t)
  BY Zenon, <1>1 DEF sys_fork, proc_create, CheckFull, CopyImage, thread_fork, ForkNoThread,
     ForkReturn
<1>2. CASE sys_waitpid(t)
  BY Zenon, <1>2 DEF sys_waitpid, SearchPid, MenuSearchPid, Found, WaitCheck, proc_wait
<1>3. CASE proc_destroy(t)
  BY Zenon, <1>3 DEF proc_destroy, EndWaitpid, FreeProc
<1>4. CASE sys__exit(t) \/ ExitSteps(t)
  BY Zenon, <1>4 DEF sys__exit, ExitSteps, proc_remthread, proc_rm_parent_link, proc_signal_end
<1>5. CASE kill_curthread(t) \/ cmd_progthread(t)
  BY Zenon, <1>5 DEF kill_curthread, cmd_progthread
<1> QED
  BY Zenon, <1>1, <1>2, <1>3, <1>4, <1>5 DEF Step

\* proc_bootstrap establishes the second invariant.
LEMMA InitLInv == Init => LInv
<1> SUFFICES ASSUME Init PROVE Life
  BY Zenon DEF LInv
<1>1. /\ \A b \in Addrs : parent_proc[b] = NULL /\ p_exited[b] = 0 /\ p_sem[b] = 0
      /\ KProc \in Addrs /\ Menu \in Threads
      /\ \A t \in Threads : pc[t] \in {"menu", "free"}
      /\ \A t \in Threads : pc[t] = "menu" => self[t] = KProc
  BY Zenon DEF Init, proc_bootstrap, Addrs, Threads
<1>2. LifeParent /\ NewFields /\ NewNoChild /\ NewAlone
  BY Zenon, <1>1 DEF LifeParent, NewFields, NewNoChild, NewAlone, NewPcs
<1>3. ProgNoChild /\ KilledMarked /\ RunsOpen
  BY Zenon, <1>1 DEF ProgNoChild, KilledMarked, RunsOpen, Ended
<1>4. WaitsForChild /\ DestroysEnded /\ DestroysCollected
  BY Zenon, <1>1 DEF WaitsForChild, DestroysEnded, DestroysCollected
<1> QED
  BY Zenon, <1>2, <1>3, <1>4 DEF Life

\* Every step keeps the second invariant.
LEMMA NextLInv == IInv /\ IInv' /\ LInv /\ [Next]_vars => LInv'
<1>1. ASSUME IInv, IInv', LInv, NEW t \in Threads, Step(t), orderly' PROVE Life'
  <2>1. orderly /\ Life
    BY Zenon, <1>1, OrderlyBefore DEF LInv
  <2>2. CASE sys_fork(t)
    BY Zenon, <1>1, <2>1, <2>2, CreateLife, CheckFullLife, CopyImageLife, ThreadForkLife,
       ForkNoThreadLife, ForkReturnLife DEF sys_fork
  <2>3. CASE sys_waitpid(t)
    BY Zenon, <1>1, <2>1, <2>3, SearchLife, MenuSearchLife, WaitCheckLife, ProcWaitLife
    DEF sys_waitpid
  <2>4. CASE proc_destroy(t)
    BY Zenon, <1>1, <2>1, <2>4, EndWaitpidLife, FreeProcLife DEF proc_destroy
  <2>5. CASE sys__exit(t) \/ ExitSteps(t)
    BY Zenon, <1>1, <2>1, <2>5, ExitLife, RemthreadLife, RmParentLinkLife, SignalEndLife
    DEF ExitSteps
  <2>6. CASE kill_curthread(t) \/ cmd_progthread(t)
    BY Zenon, <1>1, <2>1, <2>6, KillLife, ProgLife
  <2> QED
    BY Zenon, <1>1, <2>2, <2>3, <2>4, <2>5, <2>6 DEF Step
<1>2. ASSUME LInv, UNCHANGED vars, orderly' PROVE Life'
  <2>1. UNCHANGED <<mem, p_status, p_exited, p_sem, parent_proc, pc, self, target, s, orderly>>
    BY Zenon, <1>2 DEF vars, proc_vars, thr_vars
  <2>2. Life
    BY Zenon, <1>2, <2>1 DEF LInv
  <2>3. LifeParent'
    BY Zenon, <2>1, <2>2 DEF Life, LifeParent, Live
  <2>4. NewFields' /\ NewNoChild'
    BY Zenon, <2>1, <2>2 DEF Life, NewFields, NewNoChild, Live
  <2>5. NewAlone' /\ ProgNoChild'
    BY Zenon, <2>1, <2>2 DEF Life, NewAlone, ProgNoChild, Live
  <2>6. KilledMarked' /\ RunsOpen'
    BY Zenon, <2>1, <2>2 DEF Life, KilledMarked, RunsOpen
  <2>7. WaitsForChild' /\ DestroysEnded' /\ DestroysCollected'
    BY Zenon, <2>1, <2>2 DEF Life, WaitsForChild, DestroysEnded, DestroysCollected
  <2> QED
    BY Zenon, <2>3, <2>4, <2>5, <2>6, <2>7 DEF Life
<1> QED
  BY Zenon, <1>1, <1>2 DEF Next, LInv

\* The second invariant holds in every reachable state.
LEMMA SpecLInv == Spec => []LInv
<1>1. Init /\ []IInv /\ [][Next]_vars => []LInv
  BY InitLInv, NextLInv, PTL
<1> QED
  BY <1>1, SpecIInv, PTL DEF Spec

\* For any number of processes, threads and slots: while proc_destroy is called
\* with the only reference and the table has not filled, the parent that a live
\* process is linked to still runs or was killed; _exit leaves no link to itself.
THEOREM ProcessParent == Spec => []ParentStillRunning
<1>1. LInv => ParentStillRunning
  BY Zenon DEF LInv, Life, LifeParent, ParentStillRunning
<1> QED
  BY <1>1, SpecLInv, PTL

\* What StatusCollected asks of a step.
Collected ==
  orderly' => \A i \in Slots : table[i] # NULL /\ table'[i] # table[i] =>
    /\ table'[i] = NULL
    /\ p_status[table[i]] = "exit" =>
         \E t \in Threads :
           /\ target[t] = table[i] /\ s[t] = "exit"
           /\ t = Menu \/ parent_proc[table[i]] = self[t]

\* Only proc_create and proc_destroy write the table.
LEMMA TableWriters ==
  ASSUME NEW t \in Threads, Step(t)
  PROVE  table' = table \/ proc_create(t) \/ EndWaitpid(t)
<1>1. CASE sys_fork(t)
  BY Zenon, <1>1 DEF sys_fork, CheckFull, CopyImage, thread_fork, ForkNoThread, ForkReturn, tab_vars
<1>2. CASE sys_waitpid(t)
  BY Zenon, <1>2
  DEF sys_waitpid, SearchPid, MenuSearchPid, Found, WaitCheck, proc_wait, Crash, tab_vars
<1>3. CASE proc_destroy(t)
  BY Zenon, <1>3 DEF proc_destroy, FreeProc, tab_vars
<1>4. CASE sys__exit(t) \/ ExitSteps(t)
  BY Zenon, <1>4
  DEF sys__exit, ExitSteps, proc_remthread, proc_rm_parent_link, proc_signal_end, Crash, tab_vars
<1>5. CASE kill_curthread(t) \/ cmd_progthread(t)
  BY Zenon, <1>5 DEF kill_curthread, cmd_progthread, tab_vars
<1> QED
  BY Zenon, <1>1, <1>2, <1>3, <1>4, <1>5 DEF Step

\* A slot that proc_create fills was free.
LEMMA CreateKeepsSlots ==
  ASSUME IInv, NEW t \in Threads, proc_create(t), NEW i \in Slots, table[i] # NULL
  PROVE  table'[i] = table[i]
<1>1. CASE table' = table
  BY Zenon, <1>1
<1>2. CASE table' # table
  <2>1. PICK a \in Procs, j \in Slots : NextSlot(j) /\ table' = [table EXCEPT ![j] = a]
    BY Zenon, <1>2 DEF proc_create
  <2>2. table[j] = NULL /\ table \in [Slots -> Addrs \cup {NULL}]
    BY Zenon, <2>1, SearchSlot DEF IInv, TypeOK
  <2> QED
    BY Zenon, <2>1, <2>2
<1> QED
  BY Zenon, <1>1, <1>2

\* proc_destroy clears the slot of the structure in hand, whose status is in the
\* hands of the caller.
LEMMA DestroyCollected ==
  ASSUME IInv, LInv, NEW t \in Threads, EndWaitpid(t), orderly',
         NEW i \in Slots, table[i] # NULL, table'[i] # table[i]
  PROVE  /\ table'[i] = NULL /\ table[i] = target[t]
         /\ p_status[table[i]] = "exit" =>
              s[t] = "exit" /\ (t = Menu \/ parent_proc[table[i]] = self[t])
<1>1. orderly /\ Life /\ Sound /\ TypeOK /\ pc[t] = "d_table"
  BY Zenon, OrderlyBefore DEF IInv, LInv, EndWaitpid
<1>2. target[t] \in Addrs /\ Live(target[t])
  BY Zenon, <1>1 DEF Sound, SoundTarget, IInv, Shape, TargetPcs, Addrs
<1>3. p_pid[target[t]] \in Slots /\ table[p_pid[target[t]]] = target[t]
  BY Zenon, <1>1, <1>2 DEF Sound, SoundTable
<1>4. table' = [table EXCEPT ![p_pid[target[t]]] = NULL]
  BY Zenon DEF EndWaitpid, Crash, tab_vars
<1>5. i = p_pid[target[t]] /\ table'[i] = NULL
  BY Zenon, <1>1, <1>3, <1>4 DEF TypeOK
<1> QED
  BY Zenon, <1>1, <1>3, <1>5 DEF Life, DestroysCollected

\* For any number of processes, threads and slots: proc_destroy alone gives a pid
\* up, and that of a process that called _exit only when waitpid has its status.
THEOREM ProcessCollects == Spec => StatusCollected
<1>1. IInv /\ LInv /\ [Next]_vars => [Collected]_vars
  <2>1. ASSUME IInv, LInv, NEW t \in Threads, Step(t), orderly', NEW i \in Slots,
               table[i] # NULL, table'[i] # table[i]
        PROVE  /\ table'[i] = NULL
               /\ p_status[table[i]] = "exit" =>
                    \E u \in Threads :
                      /\ target[u] = table[i] /\ s[u] = "exit"
                      /\ u = Menu \/ parent_proc[table[i]] = self[u]
    <3>1. EndWaitpid(t)
      BY Zenon, <2>1, TableWriters, CreateKeepsSlots
    <3> QED
      BY Zenon, <2>1, <3>1, DestroyCollected
  <2> QED
    BY Zenon, <2>1 DEF Next, Collected
<1>2. Spec => [][Collected]_vars
  BY <1>1, SpecIInv, SpecLInv, PTL DEF Spec
<1> QED
  BY <1>2, PTL DEF StatusCollected, Collected
=============================================================================
