--------------------------- MODULE OpenFileProofs ---------------------------
(***************************************************************************)
(* Theorems about OpenFile, for any number of processes, descriptors,      *)
(* slots and vnodes.                                                       *)
(***************************************************************************)
EXTENDS OpenFileCounts, FiniteSetTheorems, TLAPS

\* The default prover of a leaf that names none.
USE Zenon

\* Giving of_lock back before vfs_close keeps the counts.
LEMMA CloseReleaseB ==
  ASSUME AInv, BInv, NEW a \in Users, CloseRelease(a)
  PROVE  BInv'
<1>0. TypeOK /\ a \in Actors /\ pc[a] = "c_rel" /\ of[a] \in Files
  BY DEF AInv, Actors, CloseRelease, Locals, FileInHand
<1>1. of_lock[of[a]] = a /\ v[a] \in Vnodes /\ vn[of[a]] = NULL
  BY <1>0 DEF BInv, Closing, ClosePcs
<1>2. /\ of_lock' = [of_lock EXCEPT ![of[a]] = "free"] /\ pc' = [pc EXCEPT ![a] = "c_vfs"]
      /\ UNCHANGED <<fileTable, vn, offset, countRef, vn_refcount, ft_copy_lock, state, parent, fault, raced,
                     of, fd, v, old, other, cnt>>
  BY <1>1, Constants DEF CloseRelease, Goto
<1>3. Alone(a) /\ pc'[a] = "c_vfs"
  BY <1>0, <1>2 DEF Alone, TypeOK
<1>4. \A r \in Tokens : SlotOf'[r] = SlotOf[r] /\ VnodeOf'[r] = VnodeOf[r]
  BY <1>0, <1>2, <1>3, AloneMaps
<1>5. of_lock'[of[a]] = "free" /\ \A j \in Files \ {of[a]} : of_lock'[j] = of_lock[j]
  BY <1>0, <1>2 DEF TypeOK
<1>6. \A b \in Users \ {a} : pc[b] \in ClosePcs => of_lock'[of[b]] = of_lock[of[b]]
  <2> SUFFICES ASSUME NEW b \in Users, b # a, pc[b] \in ClosePcs PROVE of_lock'[of[b]] = of_lock[of[b]]
    OBVIOUS
  <2>1. of[b] # of[a] /\ of[b] \in Files
    BY <1>0 DEF BInv, ClosingOnce, ClosePcs, AInv, Locals, FileInHand
  <2> QED
    BY <1>5, <2>1
<1>7. Stays(a)
  BY <1>0, <1>3, StaysAlone
<1>8. \A j \in Files : vn[j] # NULL /\ of_lock[j] # "none" => of_lock'[j] # "none"
  BY <1>1, <1>5
<1> QED
  BY <1>0, <1>2, <1>3, <1>4, <1>5, <1>6, <1>7, <1>8, QuietB DEF ClosePcs

\* A lock of an open file is taken or released: the closers do not see it.
LEMMA LockB ==
  ASSUME AInv, BInv, NEW a \in Users, Alone(a), UNCHANGED other, NEW i \in Files, vn[i] # NULL,
         of_lock'[i] # "none", \A j \in Files \ {i} : of_lock'[j] = of_lock[j],
         UNCHANGED <<fileTable, vn, countRef, vn_refcount, fault>>,
         pc[a] \in {"user", "rw"}, pc'[a] \in {"user", "rw"}
  PROVE  BInv'
<1>0. a \in Actors
  BY DEF Actors
<1>1. \A r \in Tokens : SlotOf'[r] = SlotOf[r] /\ VnodeOf'[r] = VnodeOf[r]
  BY <1>0, AloneMaps DEF TokPcs
<1>2. \A b \in Users : pc[b] \in ClosePcs => of_lock'[of[b]] = of_lock[of[b]]
  <2> SUFFICES ASSUME NEW b \in Users, pc[b] \in ClosePcs PROVE of_lock'[of[b]] = of_lock[of[b]]
    OBVIOUS
  <2>1. of[b] # i
    BY DEF BInv, Closing
  <2>2. of[b] \in Files
    BY DEF AInv, Locals, FileInHand, ClosePcs
  <2> QED
    BY <2>1, <2>2
<1>3. pc'[a] # "o_fd" /\ pc'[a] \notin ClosePcs
  BY DEF ClosePcs
<1>4. Stays(a)
  BY <1>0, StaysAlone
<1>5. \A j \in Files : vn[j] # NULL /\ of_lock[j] # "none" => of_lock'[j] # "none"
  OBVIOUS
<1> QED
  BY <1>0, <1>1, <1>2, <1>3, <1>4, <1>5, QuietB

\* sys_read and sys_write up to the transfer keep the counts.
LEMMA BeginIOB ==
  ASSUME AInv, BInv, NEW a \in Users, BeginIO(a)
  PROVE  BInv'
<1>0. TypeOK /\ a \in Actors /\ pc[a] = "user"
  BY DEF AInv, Actors, BeginIO
<1>1. PICK f \in Fds :
        LET i == fileTable[a][f] IN
        /\ i # NULL
        /\ WithLock(i, WithVnode(vn[i],
             /\ of' = [of EXCEPT ![a] = i]
             /\ cnt' = [cnt EXCEPT ![a] = offset[i]]
             /\ of_lock' = [of_lock EXCEPT ![i] = a]
             /\ Goto(a, "rw")
             /\ UNCHANGED <<fileTable, vn, offset, countRef, vn_refcount, ft_copy_lock, state,
                            parent, fd, v, old, other, fault, raced>>))
  BY DEF BeginIO
<1> DEFINE i == fileTable[a][f]
<1>2. i \in Files /\ vn[i] \in Vnodes /\ of_lock[i] # "none" /\ vn_refcount[vn[i]] # 0
  BY <1>1, FdThere
<1>3. /\ of' = [of EXCEPT ![a] = i] /\ cnt' = [cnt EXCEPT ![a] = offset[i]]
      /\ of_lock' = [of_lock EXCEPT ![i] = a] /\ pc' = [pc EXCEPT ![a] = "rw"]
      /\ UNCHANGED <<fileTable, vn, offset, countRef, vn_refcount, ft_copy_lock, state,
                     parent, fd, v, old, other, fault, raced>>
  BY <1>1, <1>2, Constants DEF WithLock, WithVnode, Goto
<1> HIDE DEF i
<1>4. Alone(a) /\ pc'[a] = "rw"
  BY <1>0, <1>3 DEF Alone, TypeOK
<1>5. of_lock'[i] = a /\ \A j \in Files \ {i} : of_lock'[j] = of_lock[j]
  BY <1>0, <1>2, <1>3 DEF TypeOK
<1> QED
  BY <1>0, <1>2, <1>3, <1>4, <1>5, LockB, Constants

\* The end of a transfer keeps the counts.
LEMMA EndIOB ==
  ASSUME AInv, BInv, NEW a \in Users, EndIO(a)
  PROVE  BInv'
<1>0. TypeOK /\ Owners /\ a \in Actors /\ pc[a] = "rw" /\ of[a] \in Files /\ vn[of[a]] # NULL
  BY DEF AInv, Actors, EndIO, Locals, FileInHand, Locks, Transfer
<1>1. /\ of_lock' = [of_lock EXCEPT ![of[a]] = "free"] /\ Return(a)
      /\ UNCHANGED <<fileTable, vn, countRef, vn_refcount, ft_copy_lock, state, parent, fault, raced>>
  BY DEF EndIO
<1>2. Alone(a) /\ pc'[a] = "user" /\ other' = other
  BY <1>0, <1>1, ReturnFacts DEF OwnPcs
<1>3. of_lock'[of[a]] = "free" /\ \A j \in Files \ {of[a]} : of_lock'[j] = of_lock[j]
  BY <1>0, <1>1 DEF TypeOK
<1>4. of_lock'[of[a]] # "none"
  BY <1>3
<1> QED
  BY <1>0, <1>1, <1>2, <1>3, <1>4, LockB

\* sys_lseek keeps the counts.
LEMMA SysLseekB ==
  ASSUME AInv, BInv, NEW a \in Users, sys_lseek(a)
  PROVE  BInv'
<1>0. TypeOK /\ a \in Actors /\ pc[a] = "user"
  BY DEF AInv, Actors, sys_lseek
<1>1. PICK f \in Fds, pos \in (-OffMod)..(OffMod - 1), size \in 0..(OffMod - 1) :
        LET i == fileTable[a][f] IN
        /\ i # NULL
        /\ \E base \in {0, offset[i], size} : WithLock(i, WithVnode(vn[i],
            /\ SeekFrom(base, pos) # "EINVAL"
            /\ offset' = IF SeekFrom(base, pos) = "ok"
                         THEN [offset EXCEPT ![i] = Add(base, pos)] ELSE offset
            /\ of_lock' = IF SeekFrom(base, pos) = "EOVERFLOW"
                          THEN [of_lock EXCEPT ![i] = a] ELSE of_lock
            /\ UNCHANGED <<fileTable, vn, countRef, vn_refcount, ft_copy_lock, state, parent,
                           local_vars, fault, raced>>))
  BY DEF sys_lseek
<1> DEFINE i == fileTable[a][f]
<1>2. i \in Files /\ vn[i] \in Vnodes /\ of_lock[i] # "none" /\ vn_refcount[vn[i]] # 0
  BY <1>1, FdThere
<1>3. /\ of_lock' = of_lock \/ of_lock' = [of_lock EXCEPT ![i] = a]
      /\ UNCHANGED <<fileTable, vn, countRef, vn_refcount, ft_copy_lock, state, parent,
                     pc, of, fd, v, old, other, cnt, fault, raced>>
  BY <1>1, <1>2, Constants DEF WithLock, WithVnode, local_vars
<1> HIDE DEF i
<1>4. Alone(a) /\ pc'[a] = "user"
  BY <1>0, <1>3 DEF Alone
<1>5. of_lock'[i] # "none" /\ \A j \in Files \ {i} : of_lock'[j] = of_lock[j]
  BY <1>0, <1>2, <1>3, Constants DEF TypeOK
<1>6. vn[i] # NULL
  BY <1>2, Constants
<1> QED
  BY <1>0, <1>2, <1>3, <1>4, <1>5, <1>6, LockB

\* sys_fork up to proc_file_table_copy keeps the counts.
LEMMA SysForkB ==
  ASSUME AInv, BInv, NEW a \in Users, sys_fork(a)
  PROVE  BInv'
<1>0. TypeOK /\ a \in Actors /\ pc[a] = "user"
  BY DEF AInv, Actors, sys_fork
<1>1. PICK c \in Users : other' = [other EXCEPT ![a] = c]
  BY DEF sys_fork
<1>2. /\ pc' = [pc EXCEPT ![a] = "f_read"]
      /\ UNCHANGED <<fileTable, file_vars, vn_refcount, state, parent, of, fd, v, old, cnt, fault, raced>>
  BY DEF sys_fork, Goto
<1>3. Alone(a) /\ pc'[a] = "f_read" /\ \A b \in Actors \ {a} : other'[b] = other[b]
  BY <1>0, <1>1, <1>2 DEF Alone, TypeOK
<1> QED
  BY <1>0, <1>2, <1>3, IdleB DEF file_vars, TokPcs

\* sys__exit keeps the counts.
LEMMA SysExitB ==
  ASSUME AInv, BInv, NEW a \in Users, sys__exit(a)
  PROVE  BInv'
BY DieB DEF sys__exit

\* waitpid, up to the destruction of the table, keeps the counts.
LEMMA ReapB ==
  ASSUME AInv, BInv, NEW a \in Actors, Reap(a)
  PROVE  BInv'
<1>0. TypeOK /\ pc[a] \in {"user", "none"}
  BY DEF AInv, Reap
<1>1. PICK p \in Users : other' = [other EXCEPT ![a] = p]
  BY DEF Reap
<1>2. /\ pc' = [pc EXCEPT ![a] = "d_fd"]
      /\ UNCHANGED <<fileTable, file_vars, vn_refcount, ft_copy_lock, state, parent, of, fd, v, old, cnt,
                     fault, raced>>
  BY DEF Reap, Goto
<1>3. Alone(a) /\ pc'[a] = "d_fd" /\ \A b \in Actors \ {a} : other'[b] = other[b]
  BY <1>0, <1>1, <1>2 DEF Alone, TypeOK
<1> QED
  BY <1>0, <1>2, <1>3, IdleB DEF file_vars, TokPcs

\* A process starts to run.
LEMMA StartB ==
  ASSUME AInv, BInv, NEW a \in Actors, NEW c \in Users, pc[c] = "none", pc'[c] \in {"std", "user"},
         pc[a] \in {"menu", "f_end"}, pc'[a] \in {"none", "user"},
         \A b \in Actors \ {a, c} : pc'[b] = pc[b],
         \A b \in Actors \ {a} : other'[b] = other[b],
         UNCHANGED <<fileTable, file_vars, vn_refcount, of, fd, v, fault>>
  PROVE  BInv'
<1>1. \A b \in Users :
        \/ pc'[b] = pc[b] /\ of'[b] = of[b] /\ fd'[b] = fd[b] /\ v'[b] = v[b] /\ other'[b] = other[b]
        \/ pc[b] \notin TokPcs /\ pc'[b] \notin TokPcs
        \/ pc[b] = "c_rel" /\ pc'[b] = "c_vfs" /\ v'[b] = v[b]
  BY DEF Actors, TokPcs
<1>2. \A r \in Tokens : SlotOf'[r] = SlotOf[r] /\ VnodeOf'[r] = VnodeOf[r]
  BY <1>1, SameMaps DEF file_vars
<1>3. Stays(a)
  BY DEF Stays, Actors, ClosePcs
<1>4. pc'[a] # "o_fd" /\ pc'[a] \notin ClosePcs
  BY DEF ClosePcs
<1> QED
  BY <1>2, <1>3, <1>4, QuietB DEF file_vars

\* The menu, which makes the first process, keeps the counts.
LEMMA CommonProgB ==
  ASSUME AInv, BInv, common_prog
  PROVE  BInv'
<1>0. TypeOK /\ Menu \in Actors /\ pc[Menu] = "menu"
  BY DEF AInv, Actors, common_prog
<1>1. PICK p \in Users : pc[p] = "none" /\ pc' = [pc EXCEPT ![p] = "std", ![Menu] = "none"]
  BY DEF common_prog
<1>2. UNCHANGED <<fileTable, file_vars, vn_refcount, ft_copy_lock, of, fd, v, old, other, cnt, fault, raced>>
  BY DEF common_prog
<1>3. /\ pc'[p] = "std" /\ pc'[Menu] = "none"
      /\ \A b \in Actors \ {Menu, p} : pc'[b] = pc[b]
  BY <1>0, <1>1, Constants DEF TypeOK, Actors
<1> QED
  BY <1>0, <1>1, <1>2, <1>3, StartB

\* The end of sys_fork keeps the counts: every descriptor of the child is
\* counted.
LEMMA ForkEndB ==
  ASSUME AInv, BInv, NEW a \in Users, ForkEnd(a)
  PROVE  BInv'
<1>0. TypeOK /\ a \in Actors /\ pc[a] = "f_end"
  BY DEF AInv, Actors, ForkEnd
<1>1. UNCHANGED <<fileTable, file_vars, vn_refcount, ft_copy_lock, of, fd, v, old, cnt, fault, raced>>
  BY DEF ForkEnd
<1>2. CASE Goto(a, "d_fd") /\ UNCHANGED <<state, parent, other>>
  <2>1. Alone(a) /\ pc'[a] = "d_fd"
    BY <1>0, <1>1, <1>2 DEF Alone, Goto, TypeOK
  <2> QED
    BY <1>0, <1>1, <1>2, <2>1, IdleB DEF file_vars, TokPcs
<1>3. CASE ~(Goto(a, "d_fd") /\ UNCHANGED <<state, parent, other>>)
  <2> DEFINE c == other[a]
  <2>1. c \in Users /\ c # a /\ pc[c] = "none" /\ c \in Actors
    BY <1>0, LoopOwner DEF OwnPcs, Actors
  <2>2. pc' = [pc EXCEPT ![a] = "user", ![c] = "user"] /\ other' = [other EXCEPT ![a] = NULL]
    BY <1>3 DEF ForkEnd
  <2> HIDE DEF c
  <2>3. /\ pc'[a] = "user" /\ pc'[c] = "user"
        /\ \A b \in Actors \ {a, c} : pc'[b] = pc[b]
        /\ \A b \in Actors \ {a} : other'[b] = other[b]
    BY <1>0, <2>1, <2>2 DEF TypeOK
  <2> QED
    BY <1>0, <1>1, <2>1, <2>3, StartB
<1> QED
  BY <1>2, <1>3

\* They are what the two maps say.
LEMMA FdMapsHold ==
  ASSUME NEW p \in Users, NEW f \in Fds
  PROVE  FdMaps(p, f) /\ FdMaps(p, f)'
<1>1. FdMaps(p, f)
  BY MapParts DEF FdMaps
<1>2. FdMaps(p, f)'
  BY MapPartsNext DEF FdMaps
<1> QED
  BY <1>1, <1>2

\* The descriptor g of a process c is worked on by the thread a that has it.
LEMMA LoopMaps ==
  ASSUME AInv, NEW a \in Actors, pc[a] \in OwnPcs, pc'[a] \in OwnPcs \cup {"menu", "user"}, Alone(a),
         NEW c \in Users, c = other[a], NEW g \in Fds, UNCHANGED vn,
         \A p \in Users \ {c} : fileTable'[p] = fileTable[p],
         \A f \in Fds \ {g} : fileTable'[c][f] = fileTable[c][f],
         \A p \in Users, f \in Fds : p # c \/ f # g => (Copying(p, f)' <=> Copying(p, f))
  PROVE  /\ \A r \in Tokens \ {<<c, g>>} : SlotOf'[r] = SlotOf[r] /\ VnodeOf'[r] = VnodeOf[r]
         /\ <<c, g>> \in Tokens /\ ~Dupping(c, g) /\ ~Dupping(c, g)'
<1>0. pc[c] = "none" /\ c # a
  BY LoopOwner
<1>1. ASSUME NEW p \in Users
      PROVE  \/ pc'[p] = pc[p] /\ of'[p] = of[p] /\ fd'[p] = fd[p] /\ v'[p] = v[p]
             \/ pc[p] \in OwnPcs /\ pc'[p] \in OwnPcs \cup {"menu", "user"}
  <2>1. p \in Actors
    BY DEF Actors
  <2> QED
    BY <2>1 DEF Alone
<1>2. ASSUME NEW p \in Users, NEW f \in Fds PROVE Dupping(p, f)' <=> Dupping(p, f)
  BY <1>1 DEF Dupping, OwnPcs
<1>3. ASSUME NEW p \in Users
      PROVE  SlotOf'[<<p, -1>>] = SlotOf[<<p, -1>>] /\ VnodeOf'[<<p, -1>>] = VnodeOf[<<p, -1>>]
  <2>1. /\ SlotOf[<<p, -1>>] = (IF pc[p] \in {"o_fd", "c_lock"} THEN of[p] ELSE NULL)
        /\ VnodeOf[<<p, -1>>] = (IF pc[p] = "c_lock" THEN vn[of[p]]
                                 ELSE IF pc[p] \in {"o_slot", "o_fd", "c_rel", "c_vfs"} THEN v[p] ELSE NULL)
    BY MapParts
  <2>2. /\ SlotOf'[<<p, -1>>] = (IF pc'[p] \in {"o_fd", "c_lock"} THEN of'[p] ELSE NULL)
        /\ VnodeOf'[<<p, -1>>] = (IF pc'[p] = "c_lock" THEN vn'[of'[p]]
                                  ELSE IF pc'[p] \in {"o_slot", "o_fd", "c_rel", "c_vfs"} THEN v'[p] ELSE NULL)
    BY MapPartsNext
  <2>3. CASE pc'[p] = pc[p] /\ of'[p] = of[p] /\ fd'[p] = fd[p] /\ v'[p] = v[p]
    BY SMT, <2>1, <2>2, <2>3
  <2>4. CASE pc[p] \in OwnPcs /\ pc'[p] \in OwnPcs \cup {"menu", "user"}
    BY <2>1, <2>2, <2>4 DEF OwnPcs
  <2> QED
    BY <1>1, <2>3, <2>4
<1>4. ASSUME NEW p \in Users, NEW f \in Fds, p # c \/ f # g
      PROVE  SlotOf'[<<p, f>>] = SlotOf[<<p, f>>] /\ VnodeOf'[<<p, f>>] = VnodeOf[<<p, f>>]
  <2>1. FdMaps(p, f) /\ FdMaps(p, f)'
    BY FdMapsHold
  <2>3. fileTable'[p][f] = fileTable[p][f]
    BY <1>4
  <2>4. (Dupping(p, f)' <=> Dupping(p, f)) /\ (Copying(p, f)' <=> Copying(p, f))
    BY <1>2, <1>4
  <2>5. SlotOf'[<<p, f>>] = SlotOf[<<p, f>>]
    BY <2>1, <2>3, <2>4 DEF FdMaps
  <2>6. VnodeOf'[<<p, f>>] = VnodeOf[<<p, f>>]
    BY SMT, <2>1, <2>3, <2>4 DEF FdMaps
  <2> QED
    BY <2>5, <2>6
<1>5. ASSUME NEW r \in Tokens, r # <<c, g>>
      PROVE  SlotOf'[r] = SlotOf[r] /\ VnodeOf'[r] = VnodeOf[r]
  <2>1. PICK p \in Users, f \in Fds \cup {-1} : r = <<p, f>>
    BY TokenParts
  <2>2. CASE f = -1
    BY <1>3, <2>1, <2>2
  <2>3. CASE f \in Fds
    <3>1. p # c \/ f # g
      BY <1>5, <2>1
    <3> QED
      BY <1>4, <2>1, <2>3, <3>1
  <2> QED
    BY <2>2, <2>3
<1>6. <<c, g>> \in Tokens /\ ~Dupping(c, g) /\ ~Dupping(c, g)'
  <2>1. ~Dupping(c, g)
    BY <1>0 DEF Dupping
  <2> QED
    BY <1>2, <2>1, TokenParts
<1> QED
  BY <1>5, <1>6

\* proc_file_table_copy skips an empty descriptor, or stores it in the child with
\* a vnode reference and without a count.
LEMMA CopyReadB ==
  ASSUME AInv, BInv, NEW a \in Users, CopyRead(a)
  PROVE  BInv'
<1>0. TypeOK /\ Tables /\ a \in Actors /\ pc[a] = "f_read" /\ pc[a] \in OwnPcs
  BY DEF AInv, Actors, CopyRead, OwnPcs
<1>1. /\ other[a] \in Users /\ other[a] # a /\ fd[a] \in Fds /\ pc[other[a]] = "none"
      /\ \A b \in Actors \ {a} : other[b] # other[a]
  BY <1>0, LoopOwner DEF TypeOK
<1>2. PICK c \in Users, g \in Fds : c = other[a] /\ g = fd[a]
  BY <1>1
<1>3. CASE fileTable[a][g] = NULL
  <2>1. /\ NextFd(a)
        /\ UNCHANGED <<fileTable, file_vars, vn_refcount, state, parent, of, v, old, other, cnt, fault, raced>>
    BY <1>2, <1>3 DEF CopyRead
  <2>2. Alone(a) /\ pc'[a] \in {"f_read", "f_end"}
    BY <1>0, <2>1, NextFdFacts
  <2>3. pc[a] \notin TokPcs /\ pc'[a] \notin TokPcs /\ pc'[a] # "c_destroy"
    BY <1>0, <2>2 DEF TokPcs
  <2> QED
    BY <1>0, <2>1, <2>2, <2>3, IdleB DEF file_vars
<1>4. CASE fileTable[a][g] # NULL
  <2>1. PICK i \in Files : i = fileTable[a][g] /\ vn[i] \in Vnodes /\ vn_refcount[vn[i]] # 0
    BY <1>4, FdThere
  <2>2. /\ vn_refcount[vn[i]] < MaxRefs
        /\ fileTable' = [fileTable EXCEPT ![c][g] = i] /\ vnode_incref(vn[i])
        /\ cnt' = [cnt EXCEPT ![a] = countRef[i]] /\ pc' = [pc EXCEPT ![a] = "f_write"]
        /\ UNCHANGED <<file_vars, ft_copy_lock, state, parent, of, fd, v, old, other, fault, raced>>
    BY <1>2, <1>4, <2>1, Constants DEF CopyRead, WithVnode, Goto
  <2>3. FdSet(c, g, i)
    BY <2>2, SetFd
  <2>4. Alone(a) /\ pc'[a] = "f_write" /\ fd'[a] = g /\ other'[a] = c
    BY <1>0, <1>2, <2>2 DEF Alone, TypeOK
  <2>5. Stays(a) /\ pc'[a] \notin ClosePcs /\ pc'[a] # "o_fd"
    BY <1>0, <2>4, StaysAlone DEF ClosePcs
  <2>6. \A b \in Users \ {a} : pc'[b] = pc[b] /\ fd'[b] = fd[b] /\ other'[b] = other[b]
    BY <2>2, <2>4 DEF Alone, Actors
  <2>7. \A p \in Users, f \in Fds : p # c \/ f # g => (Copying(p, f)' <=> Copying(p, f))
    <3> SUFFICES ASSUME NEW p \in Users, NEW f \in Fds, p # c \/ f # g
                 PROVE  Copying(p, f)' <=> Copying(p, f)
      OBVIOUS
    <3>1. ~(other'[a] = p /\ f = fd'[a])
      BY <2>4
    <3> QED
      BY <1>0, <2>6, <3>1 DEF Copying
  <2>8. Copying(c, g)'
    BY <2>4 DEF Copying
  <2>9. /\ \A r \in Tokens \ {<<c, g>>} : SlotOf'[r] = SlotOf[r] /\ VnodeOf'[r] = VnodeOf[r]
        /\ <<c, g>> \in Tokens /\ ~Dupping(c, g) /\ ~Dupping(c, g)'
    <3>1. pc'[a] \in OwnPcs \cup {"menu", "user"} /\ UNCHANGED vn
      BY <2>2, <2>4 DEF OwnPcs, file_vars
    <3>2. /\ \A p \in Users \ {c} : fileTable'[p] = fileTable[p]
          /\ \A f \in Fds \ {g} : fileTable'[c][f] = fileTable[c][f]
      BY <2>3 DEF FdSet
    <3> QED
      BY <1>0, <1>2, <2>4, <2>7, <3>1, <3>2, LoopMaps
  <2>10. fileTable[c][g] = NULL /\ fileTable'[c][g] = i /\ i # NULL
    <3>1. g >= g
      BY SMT, Constants
    <3>2. fileTable[c][g] = NULL
      BY <1>0, <1>2, <3>1 DEF Tables, Copies
    <3> QED
      BY <2>3, <3>2, Constants DEF FdSet
  <2> DEFINE t == <<c, g>>
  <2>11. FdMaps(c, g) /\ FdMaps(c, g)'
    BY FdMapsHold
  <2>12. SlotOf[t] = NULL /\ VnodeOf[t] = NULL
    BY <2>10, <2>11 DEF FdMaps
  <2>13. SlotOf'[t] = NULL
    BY <2>8, <2>11 DEF FdMaps
  <2>14. VnodeOf'[t] = vn[i]
    <3>1. VnodeOf'[t] = vn'[fileTable'[c][g]]
      BY <2>9, <2>10, <2>11 DEF FdMaps
    <3>2. vn' = vn
      BY <2>2 DEF file_vars
    <3> QED
      BY SMT, <2>10, <3>1, <3>2
  <2>15. VnodeCounted'
    BY <2>1, <2>2, <2>9, <2>12, <2>14, VnodesUp
  <2>16. \A r \in Tokens : SlotOf'[r] = SlotOf[r]
    BY <2>9, <2>12, <2>13
  <2>17. Counted'
    BY <2>2, <2>16, CountedSame DEF file_vars
  <2>18. Opening' /\ Closing' /\ ClosingOnce'
    BY <1>0, <2>2, <2>5, <2>16, OpeningIdle, ClosingIdle DEF file_vars
  <2> QED
    BY <2>2, <2>15, <2>17, <2>18 DEF BInv
<1> QED
  BY <1>3, <1>4

\* The store of countRef++ counts the descriptor of the child, unless it
\* overwrites another count.
LEMMA CopyWriteB ==
  ASSUME AInv, BInv, NEW a \in Users, CopyWrite(a), ~raced'
  PROVE  BInv'
<1>0. TypeOK /\ Tables /\ a \in Actors /\ pc[a] = "f_write" /\ pc[a] \in OwnPcs
  BY DEF AInv, Actors, CopyWrite, OwnPcs
<1>1. /\ other[a] \in Users /\ other[a] # a /\ fd[a] \in Fds /\ pc[other[a]] = "none"
      /\ \A b \in Actors \ {a} : other[b] # other[a]
  BY <1>0, LoopOwner DEF TypeOK
<1>2. PICK c \in Users, g \in Fds : c = other[a] /\ g = fd[a]
  BY <1>1
<1>3. fileTable[a][g] # NULL /\ fileTable[c][g] = fileTable[a][g]
  BY <1>0, <1>2 DEF Tables, Copied
<1>4. PICK i \in Files : i = fileTable[a][g] /\ vn[i] \in Vnodes /\ of_lock[i] # "none"
  BY <1>3, FdThere
<1>5. /\ countRef' = [countRef EXCEPT ![i] = (countRef[i] + 1) % CountMod] /\ NextFd(a)
      /\ cnt' = [cnt EXCEPT ![a] = 0]
      /\ UNCHANGED <<fileTable, vn, offset, of_lock, vn_refcount, state, parent, of, v, old, other, fault>>
  BY <1>2, <1>4 DEF CopyWrite
<1>6. Alone(a) /\ pc'[a] \in {"f_read", "f_end"}
  BY <1>0, <1>5, NextFdFacts
<1>7. Stays(a) /\ pc'[a] \notin ClosePcs /\ pc'[a] # "o_fd" /\ pc'[a] # "f_write"
  BY <1>0, <1>6, StaysAlone DEF ClosePcs
<1>8. \A b \in Users \ {a} : pc'[b] = pc[b] /\ fd'[b] = fd[b] /\ other'[b] = other[b] /\ other[b] # c
  BY <1>1, <1>2, <1>5, <1>6 DEF Alone, Actors
<1>9. \A p \in Users, f \in Fds : p # c \/ f # g => (Copying(p, f)' <=> Copying(p, f))
  <2> SUFFICES ASSUME NEW p \in Users, NEW f \in Fds, p # c \/ f # g
               PROVE  Copying(p, f)' <=> Copying(p, f)
    OBVIOUS
  <2>1. ~(other[a] = p /\ f = fd[a])
    BY <1>2
  <2> QED
    BY <1>7, <1>8, <2>1 DEF Copying
<1>10. Copying(c, g) /\ ~Copying(c, g)'
  <2>1. Copying(c, g)
    BY <1>0, <1>2 DEF Copying
  <2>2. ~Copying(c, g)'
    BY <1>7, <1>8 DEF Copying
  <2> QED
    BY <2>1, <2>2
<1>11. /\ \A r \in Tokens \ {<<c, g>>} : SlotOf'[r] = SlotOf[r] /\ VnodeOf'[r] = VnodeOf[r]
       /\ <<c, g>> \in Tokens /\ ~Dupping(c, g) /\ ~Dupping(c, g)'
  <2>1. pc'[a] \in OwnPcs \cup {"menu", "user"}
    BY <1>6 DEF OwnPcs
  <2> QED
    BY <1>0, <1>2, <1>5, <1>6, <1>9, <2>1, LoopMaps
<1> DEFINE t == <<c, g>>
           q == <<a, g>>
<1>12. FdMaps(c, g) /\ FdMaps(c, g)' /\ FdMaps(a, g)
  BY FdMapsHold
<1>13. SlotOf[t] = NULL /\ VnodeOf[t] = vn[i] /\ i # NULL
  <2>1. i # NULL
    BY Constants
  <2>2. SlotOf[t] = NULL
    BY <1>10, <1>12 DEF FdMaps
  <2>3. VnodeOf[t] = vn[fileTable[c][g]]
    BY <1>3, <1>11, <1>12 DEF FdMaps
  <2> QED
    BY <1>3, <1>4, <2>1, <2>2, <2>3
<1>14. SlotOf'[t] = i
  BY <1>3, <1>4, <1>5, <1>10, <1>11, <1>12 DEF FdMaps
<1>15. VnodeOf'[t] = VnodeOf[t]
  BY <1>5, <1>11, <1>12 DEF FdMaps
<1>16. SlotOf[q] = i /\ q \in Tokens
  <2>1. ~Dupping(a, g)
    BY <1>0 DEF Dupping
  <2>2. ~Copying(a, g)
    BY <1>0, RunsCopying
  <2> QED
    BY <1>4, <1>12, <2>1, <2>2, TokenParts DEF FdMaps
<1>17. VnodeCounted'
  <2>1. \A x : Count(VnodeOf', x) = Count(VnodeOf, x)
    BY <1>11, <1>15 DEF Count
  <2> QED
    BY <1>5, <2>1 DEF BInv, VnodeCounted
<1>18. Counted'
  <2>1. (\A j \in Files \ {i} : Count(SlotOf', j) = Count(SlotOf, j)) /\ CountChange(SlotOf, SlotOf', t, i)
    BY <1>11, <1>13, <1>14, OneSlot
  <2>2. Count(SlotOf', i) = Count(SlotOf, i) + 1
    BY <1>13, <1>14, <2>1 DEF CountChange
  <2>3. countRef[i] = Count(SlotOf, i)
    BY <1>16, CountNat DEF BInv, Counted
  <2>4. (Count(SlotOf, i) + 1) % CountMod = Count(SlotOf, i) + 1
    BY <1>4, <1>11, <1>13, Room
  <2>5. countRef'[i] = (countRef[i] + 1) % CountMod /\ \A j \in Files \ {i} : countRef'[j] = countRef[j]
    BY <1>0, <1>5 DEF TypeOK
  <2>6. countRef'[i] = Count(SlotOf', i)
    BY <2>2, <2>3, <2>4, <2>5
  <2>7. vn'[i] # NULL /\ of_lock'[i] # "none"
    BY <1>4, <1>5, Constants
  <2> QED
    BY <1>5, <2>1, <2>5, <2>6, <2>7, CountedStep
<1>19. Opening'
  <2>1. \A b \in Users : q # <<b, -1>>
    BY SMT, Constants
  <2>2. \A r \in Tokens : \/ SlotOf'[r] \in {SlotOf[r], NULL}
                          \/ vn[SlotOf'[r]] = NULL
                          \/ \E z \in Tokens : SlotOf[z] = SlotOf'[r] /\ \A b \in Users \ {a} : z # <<b, -1>>
    BY <1>11, <1>14, <1>16, <2>1
  <2> QED
    BY <1>0, <1>5, <1>7, <2>2, OpeningStep
<1>20. Closing' /\ ClosingOnce'
  BY <1>0, <1>5, <1>7, ClosingIdle
<1> QED
  BY <1>5, <1>17, <1>18, <1>19, <1>20 DEF BInv

\* proc_destroy closes one descriptor after the other, each close taking one
\* reference.
LEMMA DestroyFdB ==
  ASSUME AInv, BInv, NEW a \in Actors, DestroyFd(a)
  PROVE  BInv'
<1>0. TypeOK /\ pc[a] = "d_fd" /\ pc[a] \in OwnPcs
  BY DEF AInv, DestroyFd, OwnPcs
<1>1. other[a] \in Users /\ fd[a] \in Fds /\ \A b \in Actors \ {a} : other[b] # other[a]
  BY <1>0, LoopOwner DEF TypeOK
<1>2. PICK c \in Users, g \in Fds : c = other[a] /\ g = fd[a]
  BY <1>1
<1>3. CASE fileTable[c][g] = NULL
  <2>1. /\ DestroyNext(a)
        /\ UNCHANGED <<fileTable, countRef, of_lock, vn_refcount, vn, offset, ft_copy_lock, of, v, old, cnt, fault>>
    BY <1>2, <1>3 DEF DestroyFd
  <2>2. Alone(a) /\ pc'[a] \in {"d_fd", "menu", "user"} /\ \A b \in Actors \ {a} : other'[b] = other[b]
    BY <1>0, <2>1, DestroyNextFacts
  <2>3. pc[a] \notin TokPcs /\ pc'[a] \notin TokPcs /\ pc'[a] # "c_destroy"
    BY <1>0, <2>2 DEF TokPcs
  <2> QED
    BY <2>1, <2>2, <2>3, IdleB
<1>4. CASE fileTable[c][g] # NULL
  <2>1. PICK i \in Files : /\ i = fileTable[c][g] /\ vn[i] \in Vnodes /\ of_lock[i] # "none"
                           /\ vn_refcount[vn[i]] # 0
    BY <1>4, FdThere
  <2>2. /\ fileTable' = [fileTable EXCEPT ![c][g] = NULL] /\ DestroyNext(a)
        /\ UNCHANGED <<vn, offset, ft_copy_lock, of, v, old, cnt, fault>>
        /\ IF Minus1(countRef[i]) = 0
           THEN /\ countRef' = [countRef EXCEPT ![i] = 0] /\ vnode_decref(vn[i])
                /\ of_lock' = [of_lock EXCEPT ![i] = "none"]
           ELSE countRef' = [countRef EXCEPT ![i] = Minus1(@)] /\ UNCHANGED <<of_lock, vn_refcount>>
    <3>1. vn[i] # NULL
      BY <2>1, Constants
    <3>2. CASE Minus1(countRef[i]) = 0
      BY <1>2, <1>4, <2>1, <3>1, <3>2 DEF DestroyFd, WithLock, WithVnode
    <3>3. CASE Minus1(countRef[i]) # 0
      BY <1>2, <1>4, <2>1, <3>1, <3>3 DEF DestroyFd, WithLock, WithVnode
    <3> QED
      BY <3>2, <3>3
  <2>3. Alone(a) /\ pc'[a] \in {"d_fd", "menu", "user"} /\ \A b \in Actors \ {a} : other'[b] = other[b]
    BY <1>0, <2>2, DestroyNextFacts
  <2>4. Stays(a) /\ pc'[a] \notin ClosePcs /\ pc'[a] # "o_fd" /\ pc'[a] # "f_write" /\ pc[a] # "f_write"
    BY <1>0, <2>3, StaysAlone DEF ClosePcs
  <2>5. FdSet(c, g, NULL)
    BY <2>2, SetFd
  <2>6. \A p \in Users, f \in Fds : p # c \/ f # g => (Copying(p, f)' <=> Copying(p, f))
    BY <2>3, <2>4, CopyingSame
  <2>7. ~Copying(c, g)
    BY <1>1, <1>2, <2>4 DEF Copying, Actors
  <2>8. /\ \A r \in Tokens \ {<<c, g>>} : SlotOf'[r] = SlotOf[r] /\ VnodeOf'[r] = VnodeOf[r]
        /\ <<c, g>> \in Tokens /\ ~Dupping(c, g) /\ ~Dupping(c, g)'
    <3>1. pc'[a] \in OwnPcs \cup {"menu", "user"} /\ UNCHANGED vn /\ Alone(a)
      BY <2>2, <2>3 DEF OwnPcs
    <3>2. /\ \A p \in Users \ {c} : fileTable'[p] = fileTable[p]
          /\ \A f \in Fds \ {g} : fileTable'[c][f] = fileTable[c][f]
      BY <2>5 DEF FdSet
    <3> QED
      BY <1>0, <1>2, <2>6, <3>1, <3>2, LoopMaps
  <2> DEFINE t == <<c, g>>
  <2>9. FdMaps(c, g) /\ FdMaps(c, g)'
    BY FdMapsHold
  <2>10. SlotOf[t] = i
    BY <2>1, <2>7, <2>8, <2>9 DEF FdMaps
  <2>11. VnodeOf[t] = vn[i]
    BY <1>4, <2>1, <2>8, <2>9 DEF FdMaps
  <2>12. SlotOf'[t] = NULL /\ VnodeOf'[t] = NULL
    <3>1. fileTable'[c][g] = NULL
      BY <2>5 DEF FdSet
    <3> QED
      BY <2>9, <3>1 DEF FdMaps
  <2>13. countRef[i] = Count(SlotOf, i) /\ Count(SlotOf, i) # 0
    BY <2>8, <2>10, CountNat DEF BInv, Counted
  <2>14. Minus1(countRef[i]) = Count(SlotOf, i) - 1 /\ Count(SlotOf, i) \in Nat
    <3>1. countRef[i] \in 0..(CountMod - 1) /\ Count(SlotOf, i) \in Nat
      BY <1>0, CountNat DEF TypeOK
    <3> QED
      BY SMT, <2>13, <3>1, Constants, MinusOne
  <2>15. /\ \A j \in Files \ {i} : Count(SlotOf', j) = Count(SlotOf, j)
         /\ CountChange(SlotOf, SlotOf', t, i)
    BY <2>8, <2>10, <2>12, OneSlot
  <2>16. Count(SlotOf', i) = Count(SlotOf, i) - 1
    BY <2>10, <2>12, <2>15, Constants DEF CountChange
  <2>17. Opening'
    BY <2>2, <2>4, <2>8, <2>12, OpeningIdle
  <2>18. CASE Minus1(countRef[i]) = 0
    <3>1. /\ countRef' = [countRef EXCEPT ![i] = 0] /\ vnode_decref(vn[i])
          /\ of_lock' = [of_lock EXCEPT ![i] = "none"]
      BY <2>2, <2>18
    <3>2. VnodeCounted'
      BY <2>1, <2>8, <2>11, <2>12, <3>1, VnodesDown
    <3>3. \A j \in Files \ {i} : countRef'[j] = countRef[j] /\ of_lock'[j] = of_lock[j]
      BY <1>0, <3>1 DEF TypeOK
    <3>4. Counted'
      <4>1. Count(SlotOf', i) = 0
        BY <2>14, <2>16, <2>18
      <4> QED
        BY <2>2, <2>15, <3>3, <4>1, CountedStep
    <3>5. Closing' /\ ClosingOnce'
      <4>1. \A b \in Users : pc[b] \in ClosePcs => of[b] # i /\ of[b] \in Files /\ vn[of[b]] = NULL
        BY <2>1, Constants DEF BInv, Closing, AInv, Locals, FileInHand, ClosePcs
      <4>2. \A b \in Users \ {a} : pc[b] \in ClosePcs => vn'[of[b]] = NULL /\ of_lock'[of[b]] = of_lock[of[b]]
        BY <2>2, <3>3, <4>1
      <4> QED
        BY <2>4, <4>2, ClosingStep
    <3> QED
      BY <2>2, <2>17, <3>2, <3>4, <3>5 DEF BInv
  <2>19. CASE Minus1(countRef[i]) # 0
    <3>1. countRef' = [countRef EXCEPT ![i] = Minus1(countRef[i])] /\ UNCHANGED <<of_lock, vn_refcount>>
      BY <2>2, <2>19
    <3>2. VnodeCounted'
      BY <2>8, <2>12, <3>1, VnodesDrop
    <3>3. countRef'[i] = Count(SlotOf', i) /\ \A j \in Files \ {i} : countRef'[j] = countRef[j]
      <4>1. countRef \in [Files -> 0..(CountMod - 1)]
        BY <1>0 DEF TypeOK
      <4> QED
        BY <2>14, <2>16, <3>1, <4>1
    <3>4. Counted'
      <4>1. vn'[i] # NULL /\ of_lock'[i] # "none"
        BY <2>1, <2>2, <3>1, Constants
      <4> QED
        BY <2>2, <2>15, <3>1, <3>3, <4>1, CountedStep
    <3>5. Closing' /\ ClosingOnce'
      BY <2>2, <2>4, <3>1, ClosingIdle
    <3> QED
      BY <2>2, <2>17, <3>2, <3>4, <3>5 DEF BInv
  <2> QED
    BY <2>18, <2>19
<1> QED
  BY <1>3, <1>4

\* Initially nothing is open.
LEMMA InitBInv == sft_init => BInv
<1> SUFFICES ASSUME sft_init PROVE BInv
  BY SMT
<1>1. \A p \in Users : pc[p] = "none" /\ \A f \in Fds : fileTable[p][f] = NULL
  BY Constants DEF sft_init, Actors
<1>2. \A r \in Tokens : SlotOf[r] = NULL /\ VnodeOf[r] = NULL
  <2> SUFFICES ASSUME NEW r \in Tokens PROVE SlotOf[r] = NULL /\ VnodeOf[r] = NULL
    OBVIOUS
  <2>1. PICK p \in Users, f \in Fds \cup {-1} : r = <<p, f>>
    BY TokenParts
  <2>2. SlotOf[<<p, -1>>] = NULL /\ VnodeOf[<<p, -1>>] = NULL
    BY <1>1, MapParts
  <2>3. CASE f \in Fds
    <3>1. FdMaps(p, f) /\ fileTable[p][f] = NULL
      BY <1>1, <2>3, FdMapsHold
    <3> QED
      BY <2>1, <3>1 DEF FdMaps
  <2> QED
    BY <2>1, <2>2, <2>3
<1>3. Counted
  <2> SUFFICES ASSUME NEW i \in Files, Count(SlotOf, i) # 0 PROVE FALSE
    BY DEF Counted
  <2> QED
    BY <1>2, CountNat, Constants
<1>4. VnodeCounted
  <2> SUFFICES ASSUME NEW x \in Vnodes PROVE Count(VnodeOf, x) <= vn_refcount[x] /\ vn_refcount[x] <= MaxRefs
    BY DEF VnodeCounted
  <2>1. Count(VnodeOf, x) = 0
    <3>1. \A r \in Tokens : VnodeOf[r] # x
      BY <1>2, Constants
    <3> QED
      BY <3>1, CountNat
  <2>2. vn_refcount[x] = 0
    BY DEF sft_init
  <2> QED
    BY SMT, <2>1, <2>2, Constants
<1>5. Opening /\ Closing /\ ClosingOnce /\ fault = "none"
  BY <1>1 DEF Opening, Closing, ClosingOnce, ClosePcs, sft_init
<1> QED
  BY <1>3, <1>4, <1>5 DEF BInv

\* A race is not forgotten.
LEMMA RacedStays ==
  ASSUME AInv, [Next]_vars, raced
  PROVE  raced'
<1>1. CASE UNCHANGED vars
  BY <1>1 DEF vars
<1>2. CASE common_prog \/ Reap(Menu)
  BY <1>2 DEF common_prog, Reap
<1>3. ASSUME NEW a \in Actors, DestroyFd(a) PROVE raced'
  BY <1>3 DEF DestroyFd, WithLock, WithVnode, Crash
<1>4. ASSUME NEW a \in Users, Step(a) PROVE raced'
  <2>1. CASE sys_open(a) \/ OpenSlot(a) \/ OpenFd(a)
    BY <2>1 DEF sys_open, OpenSlot, OpenFd, FillSlot, WithVnode, Crash
  <2>2. CASE sys_close(a) \/ CloseLock(a) \/ CloseRelease(a) \/ CloseVfs(a) \/ CloseDestroy(a)
    BY <2>2 DEF sys_close, CloseLock, CloseRelease, CloseVfs, CloseDestroy, WithLock, WithVnode, Crash
  <2>3. CASE sys_dup2(a) \/ DupIncr(a) \/ BeginIO(a) \/ EndIO(a) \/ sys_lseek(a)
    BY <2>3 DEF sys_dup2, DupIncr, BeginIO, EndIO, sys_lseek, WithLock, WithVnode, Crash
  <2>4. CASE sys_fork(a) \/ CopyRead(a) \/ CopyWrite(a) \/ ForkEnd(a)
    BY <2>4 DEF sys_fork, CopyRead, CopyWrite, ForkEnd, WithVnode, Crash
  <2>5. CASE sys__exit(a) \/ DestroyFd(a)
    BY <1>3, <2>5 DEF sys__exit, Actors
  <2> QED
    BY <1>4, <2>1, <2>2, <2>3, <2>4, <2>5 DEF Step
<1>5. ASSUME NEW a \in Users, Reap(a) \/ std_open(a) PROVE raced'
  BY <1>5 DEF Reap, std_open, FillSlot
<1> QED
  BY <1>1, <1>2, <1>3, <1>4, <1>5 DEF Next, Actors

\* A step that is not a race keeps BInv.
LEMMA NextBInv ==
  ASSUME AInv, BInv, [Next]_vars, ~raced'
  PROVE  BInv'
<1>1. CASE UNCHANGED vars
  <2>1. UNCHANGED <<fileTable, vn, countRef, of_lock, vn_refcount, pc, of, fd, v, old, other, cnt, fault>>
    BY <1>1 DEF vars, file_vars, local_vars
  <2>2. Menu \in Actors /\ Alone(Menu) /\ pc[Menu] \notin TokPcs /\ pc[Menu] # "c_destroy"
    BY <2>1 DEF Actors, Alone, TokPcs, AInv, Locals, MenuPcs
  <2> QED
    BY <2>1, <2>2, IdleB
<1>2. CASE common_prog \/ Reap(Menu) \/ DestroyFd(Menu)
  BY <1>2, CommonProgB, ReapB, DestroyFdB DEF Actors
<1>3. ASSUME NEW a \in Users, Step(a) PROVE BInv'
  <2>1. CASE sys_open(a) \/ OpenSlot(a) \/ OpenFd(a)
    BY <2>1, CallsB
  <2>2. CASE sys_close(a) \/ CloseLock(a) \/ CloseVfs(a) \/ CloseDestroy(a)
    BY <2>2, CallsB
  <2>3. CASE sys_dup2(a) \/ DupIncr(a)
    BY <2>3, CallsB
  <2>4. CASE CloseRelease(a) \/ BeginIO(a) \/ EndIO(a) \/ sys_lseek(a)
    BY <2>4, CloseReleaseB, BeginIOB, EndIOB, SysLseekB
  <2>5. CASE sys_fork(a) \/ CopyRead(a) \/ CopyWrite(a) \/ ForkEnd(a)
    BY <2>5, SysForkB, CopyReadB, CopyWriteB, ForkEndB
  <2>6. CASE sys__exit(a) \/ DestroyFd(a)
    BY <2>6, SysExitB, DestroyFdB DEF Actors
  <2> QED
    BY <1>3, <2>1, <2>2, <2>3, <2>4, <2>5, <2>6 DEF Step
<1>4. ASSUME NEW a \in Users, Reap(a) \/ std_open(a) PROVE BInv'
  BY <1>4, ReapB, CallsB DEF Actors
<1> QED
  BY <1>1, <1>2, <1>3, <1>4 DEF Next

\* Both invariants, in every reachable state.
FInv == AInv /\ (raced \/ BInv)
\* Every call keeps both, however the calls of the processes interleave.
LEMMA SpecFInv == Spec => []FInv
<1>1. sft_init => FInv
  BY InitAInv, InitBInv DEF FInv
<1>2. FInv /\ [Next]_vars => FInv'
  <2> SUFFICES ASSUME FInv, [Next]_vars PROVE FInv'
    BY SMT
  <2>1. AInv'
    BY NextAInv DEF FInv
  <2>2. raced' \/ BInv'
    BY RacedStays, NextBInv DEF FInv
  <2> QED
    BY <2>1, <2>2 DEF FInv
<1> QED
  BY <1>1, <1>2, PTL DEF Spec

\* The variables keep their types: no count of a vnode goes below zero or over its
\* bound, no slot or descriptor leaves its table.
THEOREM OpenFileTyped == Spec => []TypeOK
<1>1. FInv => TypeOK
  BY DEF FInv, AInv
<1> QED
  BY <1>1, SpecFInv, PTL

\* file_read and file_write find the offset as they left it: no other process that
\* shares the open file has moved it during the transfer.
THEOREM OpenFileOffset == Spec => []OffsetStable
<1>1. FInv => OffsetStable
  BY DEF FInv, AInv, Locks, Transfer, OffsetStable
<1> QED
  BY <1>1, SpecFInv, PTL

\* No call returns with an of_lock; sys_lseek never takes its EOVERFLOW exits.
THEOREM OpenFileLocks == Spec => []LockReturned
<1>1. FInv => LockReturned
  BY DEF FInv, AInv, Locks
<1> QED
  BY <1>1, SpecFInv, PTL

\* Without a race no dead lock and no reclaimed vnode is used.
THEOREM OpenFileNoFault == Spec => []NoFault
<1>1. FInv => NoFault
  BY DEF FInv, BInv, NoFault
<1> QED
  BY <1>1, SpecFInv, PTL

\* Without a race every descriptor leads to an open file with a lock and a vnode
\* that was not reclaimed.
THEOREM OpenFileUsable == Spec => []OpenIsUsable
<1>1. FInv => OpenIsUsable
  <2> SUFFICES ASSUME AInv, BInv, NEW p \in Users, NEW f \in Fds, fileTable[p][f] # NULL
               PROVE  /\ vn[fileTable[p][f]] # NULL /\ of_lock[fileTable[p][f]] # "none"
                      /\ vn_refcount[vn[fileTable[p][f]]] > 0
    BY DEF FInv, OpenIsUsable
  <2>1. /\ vn[fileTable[p][f]] \in Vnodes /\ of_lock[fileTable[p][f]] # "none"
        /\ vn_refcount[vn[fileTable[p][f]]] # 0
    BY FdThere
  <2>2. vn_refcount[vn[fileTable[p][f]]] \in 0..(MaxRefs + 1)
    BY <2>1 DEF AInv, TypeOK
  <2>3. vn[fileTable[p][f]] # NULL
    BY <2>1, Constants
  <2>4. vn_refcount[vn[fileTable[p][f]]] > 0
    BY SMT, <2>1, <2>2
  <2> QED
    BY <2>1, <2>3, <2>4
<1> QED
  BY <1>1, SpecFInv, PTL

\* Two sets with a bijection.
LEMMA SameSize ==
  ASSUME NEW S, IsFiniteSet(S), NEW T, NEW m \in [S -> T],
         \A x, y \in S : m[x] = m[y] => x = y, \A z \in T : \E x \in S : m[x] = z
  PROVE  IsFiniteSet(T) /\ Cardinality(T) = Cardinality(S)
<1>1. m \in Injection(S, T)
  BY DEF Injection, IsInjective
<1>2. m \in Surjection(S, T)
  BY DEF Surjection
<1>3. ExistsBijection(S, T)
  BY <1>1, <1>2 DEF ExistsBijection, Bijection
<1> QED
  BY <1>3, FS_Bijection

\* The descriptors that are stored and not yet counted, one for each thread that
\* is about to count its own.
Fresh(i) == {d \in Users \X Fds : fileTable[d[1]][d[2]] = i /\ (Dupping(d[1], d[2]) \/ Copying(d[1], d[2]))}

\* There are as many as there are threads about to count one.
LEMMA FreshCount ==
  ASSUME AInv, NEW i \in Files
  PROVE  Cardinality(Fresh(i)) = Cardinality(Uncounted(i))
<1> DEFINE U == Uncounted(i)
           m == [u \in U |-> IF pc[u] = "u_incr" THEN <<u, fd[u]>> ELSE <<other[u], fd[u]>>]
<1>0. TypeOK /\ Owners /\ Dups /\ Copied
  BY DEF AInv, Tables
<1>1. IsFiniteSet(U)
  <2>1. U \in SUBSET Users
    BY DEF Uncounted
  <2> QED
    BY <2>1, OpenFileAssumption, FS_Subset
<1>2. ASSUME NEW u \in U, pc[u] = "u_incr"
      PROVE  /\ u \in Users /\ fd[u] \in Fds /\ fileTable[u][fd[u]] = i /\ Dupping(u, fd[u])
             /\ state[u] = "running"
  <2>1. u \in Users /\ old[u] = i /\ u \in Actors /\ i # NULL
    BY <1>2, Constants DEF Uncounted, Actors
  <2> QED
    BY <1>0, <1>2, <2>1 DEF Dups, DupAt, Dupping, TypeOK, Owners, Runs
<1>3. ASSUME NEW u \in U, pc[u] # "u_incr"
      PROVE  /\ u \in Users /\ pc[u] = "f_write" /\ other[u] \in Users /\ fd[u] \in Fds
             /\ fileTable[other[u]][fd[u]] = i /\ Copying(other[u], fd[u]) /\ state[other[u]] # "running"
  <2>1. u \in Users /\ pc[u] = "f_write" /\ fileTable[u][fd[u]] = i /\ u \in Actors /\ pc[u] \in OwnPcs
    BY <1>3 DEF Uncounted, Actors, OwnPcs
  <2>2. other[u] \in Users /\ fd[u] \in Fds /\ pc[other[u]] = "none"
    BY <1>0, <2>1, LoopOwner DEF TypeOK
  <2>3. fileTable[other[u]][fd[u]] = i /\ Copying(other[u], fd[u])
    BY <1>0, <2>1 DEF Copied, Copying
  <2>4. state[other[u]] # "running"
    BY <1>0, <2>2 DEF Owners, Runs
  <2> QED
    BY <2>1, <2>2, <2>3, <2>4
<1>4. ASSUME NEW p \in Users, NEW f \in Fds, fileTable[p][f] = i, Dupping(p, f) \/ Copying(p, f)
      PROVE  <<p, f>> \in Fresh(i)
  BY SMT, <1>4 DEF Fresh
<1>5. m \in [U -> Fresh(i)]
  <2> SUFFICES ASSUME NEW u \in U
               PROVE  (IF pc[u] = "u_incr" THEN <<u, fd[u]>> ELSE <<other[u], fd[u]>>) \in Fresh(i)
    OBVIOUS
  <2>1. CASE pc[u] = "u_incr"
    BY <1>2, <1>4, <2>1
  <2>2. CASE pc[u] # "u_incr"
    BY <1>3, <1>4, <2>2
  <2> QED
    BY <2>1, <2>2
<1>6. \A u \in U : m[u] = IF pc[u] = "u_incr" THEN <<u, fd[u]>> ELSE <<other[u], fd[u]>>
  OBVIOUS
<1> HIDE DEF m
<1>7. ASSUME NEW x \in U, NEW y \in U, m[x] = m[y] PROVE x = y
  <2>1. CASE pc[x] = "u_incr" /\ pc[y] = "u_incr"
    <3>1. <<x, fd[x]>> = <<y, fd[y]>>
      BY <1>6, <1>7, <2>1
    <3> QED
      BY SMT, <3>1
  <2>2. CASE pc[x] # "u_incr" /\ pc[y] # "u_incr"
    <3>0. <<other[x], fd[x]>> = <<other[y], fd[y]>>
      BY <1>6, <1>7, <2>2
    <3>1. other[x] = other[y]
      BY SMT, <3>0
    <3>2. x \in Actors /\ y \in Actors /\ other[x] # NULL
      BY <1>3, <2>2, Constants DEF Actors
    <3> QED
      BY <1>0, <3>1, <3>2 DEF Owners, HeldOnce
  <2>3. CASE pc[x] = "u_incr" /\ pc[y] # "u_incr"
    <3>0. <<x, fd[x]>> = <<other[y], fd[y]>>
      BY <1>6, <1>7, <2>3
    <3>1. x = other[y]
      BY SMT, <3>0
    <3> QED
      BY <1>2, <1>3, <2>3, <3>1
  <2>4. CASE pc[x] # "u_incr" /\ pc[y] = "u_incr"
    <3>0. <<other[x], fd[x]>> = <<y, fd[y]>>
      BY <1>6, <1>7, <2>4
    <3>1. y = other[x]
      BY SMT, <3>0
    <3> QED
      BY <1>2, <1>3, <2>4, <3>1
  <2> QED
    BY <2>1, <2>2, <2>3, <2>4
<1>8. ASSUME NEW d \in Fresh(i) PROVE \E u \in U : m[u] = d
  <2>1. PICK p \in Users, f \in Fds : d = <<p, f>> /\ fileTable[p][f] = i /\ (Dupping(p, f) \/ Copying(p, f))
    BY SMT DEF Fresh
  <2>2. CASE Dupping(p, f)
    <3>1. pc[p] = "u_incr" /\ f = fd[p] /\ old[p] = i
      BY <1>0, <2>1, <2>2 DEF Dupping, Dups, DupAt
    <3>2. p \in U
      BY <3>1 DEF Uncounted
    <3> QED
      BY <1>6, <2>1, <3>1, <3>2
  <2>3. CASE Copying(p, f)
    <3>1. PICK b \in Users : pc[b] = "f_write" /\ other[b] = p /\ f = fd[b]
      BY <2>3 DEF Copying
    <3>2. fileTable[b][fd[b]] = i
      BY <1>0, <2>1, <3>1 DEF Copied
    <3>3. b \in U
      BY <3>1, <3>2 DEF Uncounted
    <3> QED
      BY <1>6, <2>1, <3>1, <3>3
  <2> QED
    BY <2>1, <2>2, <2>3
<1> HIDE DEF U
<1>9. Cardinality(Fresh(i)) = Cardinality(U)
  BY <1>1, <1>5, <1>7, <1>8, SameSize
<1> QED
  BY <1>9 DEF U

\* The references in hand.
LEMMA HandCount ==
  ASSUME NEW i
  PROVE  LET H == {<<a, -1>> : a \in InHand(i)} IN IsFiniteSet(H) /\ Cardinality(H) = Cardinality(InHand(i))
<1> DEFINE S == InHand(i)
           H == {<<a, -1>> : a \in S}
           m == [a \in S |-> <<a, -1>>]
<1>1. IsFiniteSet(S)
  <2>1. S \in SUBSET Users
    BY DEF InHand
  <2> QED
    BY <2>1, OpenFileAssumption, FS_Subset
<1>2. m \in [S -> H] /\ (\A x, y \in S : m[x] = m[y] => x = y) /\ \A z \in H : \E x \in S : m[x] = z
  <2> HIDE DEF S
  <2>1. m \in [S -> H]
    OBVIOUS
  <2>2. \A x, y \in S : m[x] = m[y] => x = y
    BY SMT
  <2>3. \A z \in H : \E x \in S : m[x] = z
    BY SMT
  <2> QED
    BY <2>1, <2>2, <2>3
<1> HIDE DEF S, m
<1>3. IsFiniteSet(H) /\ Cardinality(H) = Cardinality(S)
  <2> HIDE DEF H
  <2> QED
    BY <1>1, <1>2, SameSize
<1> QED
  BY <1>3 DEF S

\* The references to a slot are its descriptors that are counted, and those in hand.
LEMMA SlotCount ==
  ASSUME AInv, NEW i \in Files
  PROVE  Count(SlotOf, i) + Cardinality(Uncounted(i)) = Cardinality(Descriptors(i)) + Cardinality(InHand(i))
<1> DEFINE A == {r \in Tokens : SlotOf[r] = i}
           D == Descriptors(i)
           F == Fresh(i)
           H == {<<a, -1>> : a \in InHand(i)}
<1>1. A = (D \ F) \cup H
  <2>1. ASSUME NEW p \in Users, NEW f \in Fds
        PROVE  <<p, f>> \in A <=> <<p, f>> \in D /\ <<p, f>> \notin F
    <3>1. FdMaps(p, f) /\ i # NULL /\ <<p, f>> \in Tokens
      BY FdMapsHold, Constants, TokenParts
    <3>2. <<p, f>> \in D <=> fileTable[p][f] = i
      BY SMT DEF Descriptors
    <3>3. <<p, f>> \in F <=> fileTable[p][f] = i /\ (Dupping(p, f) \/ Copying(p, f))
      BY SMT DEF Fresh
    <3>4. <<p, f>> \in A <=> SlotOf[<<p, f>>] = i
      BY <3>1
    <3> HIDE DEF A, D, F
    <3> QED
      BY <3>1, <3>2, <3>3, <3>4 DEF FdMaps
  <2>2. ASSUME NEW p \in Users PROVE <<p, -1>> \in A <=> <<p, -1>> \in H
    <3>1. SlotOf[<<p, -1>>] = (IF pc[p] \in {"o_fd", "c_lock"} THEN of[p] ELSE NULL)
      BY MapParts
    <3>2. <<p, -1>> \in A <=> SlotOf[<<p, -1>>] = i
      BY TokenParts
    <3>3. <<p, -1>> \in H <=> p \in InHand(i)
      BY SMT
    <3>4. p \in InHand(i) <=> pc[p] \in {"o_fd", "c_lock"} /\ of[p] = i
      BY DEF InHand
    <3> HIDE DEF A, H
    <3> QED
      BY <3>1, <3>2, <3>3, <3>4, Constants
  <2>3. \A r \in A : \E p \in Users, f \in Fds \cup {-1} : r = <<p, f>>
    BY TokenParts
  <2>4. \A r \in D : \E p \in Users, f \in Fds : r = <<p, f>>
    BY SMT DEF Descriptors
  <2>5. \A r \in H : \E p \in Users : r = <<p, -1>>
    BY DEF InHand
  <2>6. \A p \in Users, f \in Fds : <<p, f>> \notin H
    BY SMT, Constants
  <2>7. \A p \in Users : <<p, -1>> \notin D
    BY SMT, Constants DEF Descriptors
  <2> HIDE DEF A, D, F, H
  <2>8. ASSUME NEW r \in A PROVE r \in (D \ F) \cup H
    <3>1. PICK p \in Users, f \in Fds \cup {-1} : r = <<p, f>>
      BY <2>3
    <3>2. CASE f \in Fds
      BY <2>1, <3>1, <3>2
    <3>3. CASE f = -1
      BY <2>2, <3>1, <3>3
    <3> QED
      BY <3>2, <3>3
  <2>9. ASSUME NEW r \in (D \ F) \cup H PROVE r \in A
    <3>1. CASE r \in D \ F
      <4>1. PICK p \in Users, f \in Fds : r = <<p, f>>
        BY <2>4, <3>1
      <4> QED
        BY <2>1, <3>1, <4>1
    <3>2. CASE r \in H
      <4>1. PICK p \in Users : r = <<p, -1>>
        BY <2>5, <3>2
      <4> QED
        BY <2>2, <3>2, <4>1
    <3> QED
      BY <3>1, <3>2
  <2> QED
    BY <2>8, <2>9
<1>2. IsFiniteSet(D) /\ F \subseteq D
  <2>1. IsFiniteSet(Users \X Fds)
    <3>1. IsFiniteSet(Fds)
      BY SMT, FS_Interval, Constants DEF Fds
    <3>2. IsFiniteSet(Users)
      BY OpenFileAssumption
    <3> QED
      BY <3>1, <3>2, FS_Product
  <2>2. D \in SUBSET (Users \X Fds) /\ F \subseteq D
    BY DEF Descriptors, Fresh
  <2> QED
    BY <2>1, <2>2, FS_Subset
<1>3. IsFiniteSet(H) /\ Cardinality(H) = Cardinality(InHand(i))
  BY HandCount
<1>4. (D \ F) \cap H = {}
  <2>1. \A r \in D : \E p \in Users, f \in Fds : r = <<p, f>>
    BY SMT DEF Descriptors
  <2>2. \A p \in Users, f \in Fds : <<p, f>> \notin H
    BY SMT, Constants
  <2> HIDE DEF D, F, H
  <2> QED
    BY <2>1, <2>2
<1>5. Count(SlotOf, i) = Cardinality(A)
  BY DEF Count
<1>6. Cardinality(F) = Cardinality(Uncounted(i))
  BY FreshCount
<1> HIDE DEF A, D, F, H
<1>7. IsFiniteSet(D \ F) /\ Cardinality(D \ F) = Cardinality(D) - Cardinality(F)
  <2>1. D \cap F = F
    BY <1>2
  <2> QED
    BY <1>2, <2>1, FS_Difference
<1>8. Cardinality(A) = Cardinality(D \ F) + Cardinality(H) - Cardinality((D \ F) \cap H)
  BY <1>1, <1>3, <1>7, FS_Union
<1>9. Cardinality((D \ F) \cap H) = 0
  BY <1>4, FS_EmptySet
<1>10. Cardinality(D) \in Nat /\ Cardinality(F) \in Nat /\ Cardinality(H) \in Nat
  <2>1. IsFiniteSet(F)
    BY <1>2, FS_Subset
  <2> QED
    BY <1>2, <1>3, <2>1, FS_CardinalityType
<1>11. Cardinality(A) + Cardinality(F) = Cardinality(D) + Cardinality(H)
  BY SMT, <1>7, <1>8, <1>9, <1>10
<1> QED
  BY <1>3, <1>5, <1>6, <1>11 DEF D

\* As long as no increment was lost and no slot reused too early, countRef of an open
\* file is the number of its descriptors in all processes, but for those that dup2 or
\* fork have stored and not yet counted, and with those that a call has in hand.
THEOREM OpenFileCount == Spec => []CountIsExact
<1>1. FInv => CountIsExact
  <2> SUFFICES ASSUME AInv, BInv, NEW i \in Files, Descriptors(i) # {}
               PROVE  countRef[i] + Cardinality(Uncounted(i)) = Cardinality(Descriptors(i)) + Cardinality(InHand(i))
    BY DEF FInv, CountIsExact
  <2>1. PICK p \in Users, f \in Fds : fileTable[p][f] = i
    BY SMT DEF Descriptors
  <2>2. PICK q \in Users, g \in Fds : SlotOf[<<q, g>>] = i
    <3>1. fileTable[p][f] # NULL
      BY <2>1, Constants
    <3>2. \E q \in Users, g \in Fds : SlotOf[<<q, g>>] = fileTable[p][f]
      BY <3>1, Used
    <3> QED
      BY <2>1, <3>2
  <2>3. countRef[i] = Count(SlotOf, i)
    BY <2>2, TokenParts, CountNat DEF BInv, Counted
  <2> QED
    BY <2>3, SlotCount
<1> QED
  BY <1>1, SpecFInv, PTL
=============================================================================
