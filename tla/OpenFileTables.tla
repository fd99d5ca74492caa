--------------------------- MODULE OpenFileTables ---------------------------
(***************************************************************************)
(* The types, what a thread has in hand and the descriptor tables of       *)
(* OpenFile: AInv, the part of the inductive invariant of OpenFileProofs   *)
(* that does not count references, for any number of processes,            *)
(* descriptors, slots and vnodes.  What only the proof of NextAInv needs   *)
(* is a step of it.                                                        *)
(***************************************************************************)
EXTENDS OpenFile, WellFoundedInduction, TLAPS

\* The default prover of a leaf that names none.
USE Zenon

\* What a thread in the middle of a call has in hand.
FileInHand ==
  \A a \in Users : pc[a] \in {"o_fd", "c_lock", "c_rel", "c_vfs", "c_destroy", "rw"} =>
    of[a] \in Files
VnodeInHand == \A a \in Users : pc[a] \in {"o_slot", "o_fd", "c_vfs"} => v[a] \in Vnodes
MenuPcs == pc[Menu] \in {"menu", "none", "d_fd"}

\* A process that fork is making, or that waitpid is destroying, does not run and
\* is in one thread's hands.
OwnPcs == {"f_read", "f_write", "f_end", "d_fd"}
Runs == \A p \in Users : state[p] = "running" <=> pc[p] # "none"
Holds == \A a \in Actors : other[a] # NULL <=> pc[a] \in OwnPcs
HeldOnce == \A a, b \in Actors : other[a] # NULL /\ other[a] = other[b] => a = b
HeldEnded ==
  \A a \in Actors : other[a] # NULL =>
    state[other[a]] # "running" /\ (state[other[a]] = "zombie" => parent[other[a]] = a)

\* A transfer has the lock of an open file.
Transfer ==
  \A a \in Users : pc[a] = "rw" =>
    of_lock[of[a]] = a /\ vn[of[a]] # NULL /\ offset[of[a]] = cnt[a]

\* Between calls, and at the end of a loop over the descriptors, fd is zero.
FdZero == \A a \in Actors : pc[a] \in {"none", "menu", "user", "f_end"} => fd[a] = 0

\* The part of dup2 after newfd was given up: oldfd still has the file.
DupPcs == {"c_lock", "c_rel", "c_vfs", "c_destroy", "u_incr"}
DupAt(a) ==
  /\ old[a] # NULL => pc[a] \in DupPcs
  /\ pc[a] = "u_incr" => old[a] # NULL
  /\ old[a] # NULL => \E f \in Fds : f # fd[a] /\ fileTable[a][f] = old[a]
  /\ old[a] # NULL => fileTable[a][fd[a]] = IF pc[a] = "u_incr" THEN old[a] ELSE NULL
Dups == \A a \in Users : DupAt(a)

\* Descriptors that are not open: those of no process, the ones above fd while
\* runprogram or fork fill a table, the ones below while proc_destroy empties it.
NoFiles ==
  \A p \in Users, f \in Fds :
    state[p] = "none" /\ (\A a \in Actors : other[a] # p) => fileTable[p][f] = NULL
StdOpens == \A p \in Users, f \in Fds : pc[p] = "std" /\ f >= fd[p] => fileTable[p][f] = NULL
Copies ==
  \A a \in Users, f \in Fds :
    /\ pc[a] = "f_read" /\ f >= fd[a] => fileTable[other[a]][f] = NULL
    /\ pc[a] = "f_write" /\ f > fd[a] => fileTable[other[a]][f] = NULL
Copied ==
  \A a \in Users : pc[a] = "f_write" =>
    fileTable[a][fd[a]] # NULL /\ fileTable[other[a]][fd[a]] = fileTable[a][fd[a]]
Destroys ==
  \A a \in Actors, f \in Fds : pc[a] = "d_fd" /\ f < fd[a] => fileTable[other[a]][f] = NULL

Locals == FileInHand /\ VnodeInHand /\ MenuPcs
Owners == Runs /\ Holds /\ HeldOnce /\ HeldEnded
Locks == LockReturned /\ Transfer
Tables ==
  /\ FdZero /\ Dups /\ NoFiles /\ StdOpens /\ Copies /\ Copied /\ Destroys

\* The types, in parts.
FileTypes ==
  /\ vn \in [Files -> Vnodes \cup {NULL}]
  /\ offset \in [Files -> 0..(OffMod - 1)]
  /\ countRef \in [Files -> 0..(CountMod - 1)]
  /\ of_lock \in [Files -> {"none", "free"} \cup Users]
LocalTypes ==
  /\ pc \in [Actors -> Pcs]
  /\ of \in [Actors -> Files \cup {NULL}]
  /\ fd \in [Actors -> Fds]
  /\ v \in [Actors -> Vnodes \cup {NULL}]
  /\ old \in [Actors -> Files \cup {NULL}]
  /\ cnt \in [Actors -> 0..Max({OffMod, CountMod})]
OtherTypes ==
  /\ state \in [Users -> {"none", "running", "zombie"}]
  /\ parent \in [Users -> Actors \cup {NULL}]
  /\ other \in [Actors -> Users \cup {NULL}]
TableType == fileTable \in [Users -> [Fds -> Files \cup {NULL}]]
CountType == vn_refcount \in [Vnodes -> 0..(MaxRefs + 1)]
FlagTypes == ft_copy_lock \in Users \cup {NULL} /\ fault \in {"none", "lock", "vnode"} /\ raced \in BOOLEAN

\* The invariant that holds also after a race.
AInv == TypeOK /\ Locals /\ Owners /\ Locks /\ Tables
-----------------------------------------------------------------------------
\* The constants, as far as the steps need them.
LEMMA Constants ==
  /\ Menu \notin Users /\ NULL \notin Users /\ NULL # Menu /\ NULL \notin Vnodes
  /\ NULL \notin Files /\ "none" \notin Users /\ "free" \notin Users
  /\ OPEN_MAX \in Nat /\ FirstFd \in Nat /\ SYSTEM_OPEN_MAX \in Nat
  /\ OffMod \in Nat /\ CountMod \in Nat /\ MaxRefs \in Nat
  /\ 0 < FirstFd /\ FirstFd < OPEN_MAX /\ 0 < SYSTEM_OPEN_MAX
  /\ 0 < OffMod /\ 0 < MaxRefs /\ MaxRefs < CountMod /\ 0 \in Fds /\ -1 \notin Fds
  /\ \A f \in Fds : f \in Int /\ 0 <= f /\ f < OPEN_MAX
BY SMT, OpenFileAssumption DEF Files, Fds

\* Max of two.
LEMMA MaxTyped ==
  LET m == Max({OffMod, CountMod}) IN m \in Nat /\ OffMod <= m /\ CountMod <= m
<1>1. \E x \in {OffMod, CountMod} : \A y \in {OffMod, CountMod} : x >= y
  BY SMT, Constants
<1> QED
  BY SMT, Constants, <1>1 DEF Max

\* Min of a set of slots or descriptors is in it.
LEMMA MinTyped ==
  ASSUME NEW S \in SUBSET Nat, S # {}
  PROVE  Min(S) \in S
<1> DEFINE R == OpToRel(<, Nat)
<1>1. IsWellFoundedOn(R, Nat)
  BY NatLessThanWellFounded
<1>2. ASSUME NEW a \in Nat, NEW b \in Nat, a < b PROVE <<a, b>> \in R
  BY <1>2 DEF OpToRel
<1> HIDE DEF R
<1>3. PICK x \in S : \A y \in S : ~ (<<y, x>> \in R)
  BY <1>1, WFMin
<1>4. \A y \in S : x <= y
  <2> TAKE y \in S
  <2>1. ~(y < x)
    BY <1>2, <1>3
  <2> QED
    BY SMT, <2>1
<1>5. \E y \in S : \A w \in S : y <= w
  BY <1>4
<1> QED
  BY <1>5 DEF Min

\* TypeOK and its parts.
LEMMA TypeParts ==
  TypeOK <=> FileTypes /\ LocalTypes /\ OtherTypes /\ TableType /\ CountType /\ FlagTypes
BY DEF TypeOK, FileTypes, LocalTypes, OtherTypes, TableType, CountType, FlagTypes

\* Only a's locals change.
Alone(a) ==
  \A b \in Actors \ {a} :
    /\ pc'[b] = pc[b] /\ of'[b] = of[b] /\ fd'[b] = fd[b]
    /\ v'[b] = v[b] /\ old'[b] = old[b] /\ cnt'[b] = cnt[b]

\* A process that runs is nobody's.
LEMMA RunsAlone ==
  ASSUME TypeOK, Owners, NEW a \in Users, pc[a] # "none"
  PROVE  state[a] = "running" /\ \A b \in Actors : other[b] # a
BY Constants DEF Owners, Runs, HeldEnded

\* Moving on inside a call.
LEMMA GotoFacts ==
  ASSUME TypeOK, NEW a \in Actors, NEW l \in Pcs, Goto(a, l)
  PROVE  /\ pc' \in [Actors -> Pcs] /\ pc'[a] = l
         /\ \A b \in Actors \ {a} : pc'[b] = pc[b]
BY DEF Goto, TypeOK

\* The end of a call.
LEMMA ReturnFacts ==
  ASSUME TypeOK, Owners, NEW a \in Users, Return(a), pc[a] \notin OwnPcs
  PROVE  /\ LocalTypes' /\ Alone(a) /\ pc'[a] = "user" /\ fd'[a] = 0 /\ old'[a] = NULL
         /\ other' = other /\ DupAt(a)'
<1>1. a \in Actors /\ a # Menu
  BY Constants DEF Actors
<1>2. pc' \in [Actors -> Pcs] /\ pc'[a] = "user" /\ \A b \in Actors \ {a} : pc'[b] = pc[b]
  <2>1. "user" \in Pcs /\ Goto(a, "user")
    BY <1>1 DEF Return, Pcs
  <2> QED
    BY <1>1, <2>1, GotoFacts
<1>3. of' \in [Actors -> Files \cup {NULL}] /\ v' \in [Actors -> Vnodes \cup {NULL}]
  BY DEF Return, TypeOK
<1>4. old' \in [Actors -> Files \cup {NULL}] /\ fd' \in [Actors -> Fds] /\ fd'[a] = 0 /\ old'[a] = NULL
  BY <1>1, Constants DEF Return, TypeOK
<1>5. cnt' \in [Actors -> 0..Max({OffMod, CountMod})]
  <2>1. 0 \in 0..Max({OffMod, CountMod})
    BY SMT, MaxTyped
  <2> QED
    BY <2>1 DEF Return, TypeOK
<1>6. other' = other
  <2>1. other[a] = NULL /\ other \in [Actors -> Users \cup {NULL}]
    BY <1>1 DEF Owners, Holds, TypeOK
  <2> QED
    BY <1>1, <2>1 DEF Return
<1>7. Alone(a)
  BY <1>2 DEF Return, Alone, TypeOK
<1>8. DupAt(a)'
  BY <1>2, <1>4 DEF DupAt
<1> QED
  BY <1>2, <1>3, <1>4, <1>5, <1>6, <1>7, <1>8 DEF LocalTypes

\* Steps that change nothing of a kind.
LEMMA TypesSame ==
  ASSUME AInv
  PROVE  /\ UNCHANGED file_vars => FileTypes'
         /\ UNCHANGED fileTable => TableType'
         /\ UNCHANGED vn_refcount => CountType'
         /\ UNCHANGED <<ft_copy_lock, fault, raced>> => FlagTypes'
BY DEF AInv, TypeOK, file_vars, FileTypes, TableType, CountType, FlagTypes

\* A slot that is filled in, whose vn is NULL.
LEMMA FillFacts ==
  ASSUME AInv, NEW i \in Files, NEW x \in Vnodes, FillSlot(i, x)
  PROVE  /\ FileTypes' /\ raced' \in BOOLEAN
         /\ \A j \in Files \ {i} : /\ of_lock'[j] = of_lock[j] /\ vn'[j] = vn[j]
                                   /\ offset'[j] = offset[j] /\ countRef'[j] = countRef[j]
         /\ of_lock'[i] = "free" /\ vn'[i] = x /\ countRef'[i] = 1
<1>1. FileTypes
  BY TypeParts DEF AInv
<1>2. 0 \in 0..(OffMod - 1)
  BY SMT, Constants
<1>3. CASE 1 \in 0..(CountMod - 1)
  BY <1>1, <1>2, <1>3 DEF FillSlot, FileTypes
<1> QED
  BY SMT, <1>3, Constants

\* OpenSlot finds a slot.
LEMMA FreeFilesTyped == FreeFiles # {} => Min(FreeFiles) \in Files /\ vn[Min(FreeFiles)] = NULL
<1>1. FreeFiles \in SUBSET Nat
  BY SMT, Constants DEF FreeFiles, Files
<1>2. FreeFiles # {} => Min(FreeFiles) \in FreeFiles
  BY <1>1, MinTyped
<1> QED
  BY <1>2 DEF FreeFiles

\* The lowest free descriptor is one, and is empty.
LEMMA FreeFdsTyped ==
  ASSUME NEW p, FreeFds(p) # {}
  PROVE  Min(FreeFds(p)) \in Fds /\ fileTable[p][Min(FreeFds(p))] = NULL
<1>1. FreeFds(p) \in SUBSET Nat /\ FreeFds(p) \subseteq Fds
  BY SMT, Constants DEF FreeFds, Fds
<1>2. Min(FreeFds(p)) \in FreeFds(p)
  BY <1>1, MinTyped
<1> QED
  BY <1>1, <1>2 DEF FreeFds

\* One descriptor changes.
FdSet(a, f, i) ==
  /\ TableType' /\ fileTable'[a][f] = i
  /\ \A p \in Users \ {a} : fileTable'[p] = fileTable[p]
  /\ \A g \in Fds \ {f} : fileTable'[a][g] = fileTable[a][g]

\* Storing into one descriptor changes that one only.
LEMMA SetFd ==
  ASSUME AInv, NEW a \in Users, NEW f \in Fds, NEW i \in Files \cup {NULL},
         fileTable' = [fileTable EXCEPT ![a][f] = i]
  PROVE  FdSet(a, f, i)
<1>1. fileTable \in [Users -> [Fds -> Files \cup {NULL}]]
  BY DEF AInv, TypeOK
<1> QED
  BY SMT, <1>1 DEF TableType, FdSet

\* What a descriptor holds.
LEMMA FdTyped ==
  ASSUME AInv, NEW p \in Users, NEW f \in Fds
  PROVE  fileTable[p][f] \in Files \cup {NULL}
<1>1. fileTable \in [Users -> [Fds -> Files \cup {NULL}]]
  BY DEF AInv, TypeOK
<1> QED
  BY <1>1

\* The end of close, and dup2's way on.
LEMMA DropDoneFacts ==
  ASSUME AInv, NEW a \in Users, pc[a] \in {"c_lock", "c_destroy"}, DropDone(a)
  PROVE  /\ LocalTypes' /\ Alone(a) /\ pc'[a] \in {"user", "u_incr"} /\ other' = other
         /\ TableType' /\ \A p \in Users \ {a} : fileTable'[p] = fileTable[p]
         /\ DupAt(a)' /\ (pc'[a] = "user" => fd'[a] = 0)
<1>0. TypeOK /\ LocalTypes /\ Owners /\ DupAt(a) /\ a \in Actors
  BY TypeParts DEF AInv, Actors, Tables, Dups
<1>1. CASE old[a] = NULL
  <2>1. Return(a) /\ UNCHANGED fileTable
    BY <1>1 DEF DropDone
  <2>2. pc[a] \notin OwnPcs
    BY DEF OwnPcs
  <2> QED
    BY <1>0, <2>1, <2>2, ReturnFacts, TypesSame
<1>2. CASE old[a] # NULL
  <2>1. /\ fileTable' = [fileTable EXCEPT ![a][fd[a]] = old[a]] /\ pc' = [pc EXCEPT ![a] = "u_incr"]
        /\ UNCHANGED <<of, fd, v, old, other, cnt>>
    BY <1>2 DEF DropDone, Goto
  <2>2. old[a] \in Files /\ fd[a] \in Fds
    BY <1>0, <1>2 DEF TypeOK
  <2>3. LocalTypes' /\ Alone(a) /\ pc'[a] = "u_incr"
    BY <1>0, <2>1 DEF LocalTypes, Alone, Pcs
  <2>4. /\ TableType' /\ \A p \in Users \ {a} : fileTable'[p] = fileTable[p]
        /\ fileTable'[a][fd[a]] = old[a] /\ \A g \in Fds \ {fd[a]} : fileTable'[a][g] = fileTable[a][g]
    <3>1. FdSet(a, fd[a], old[a])
      BY <2>1, <2>2, SetFd
    <3> QED
      BY <3>1 DEF FdSet
  <2>5. DupAt(a)'
    <3>1. PICK f \in Fds : f # fd[a] /\ fileTable[a][f] = old[a]
      BY <1>0, <1>2 DEF DupAt
    <3>2. fileTable'[a][f] = old[a]
      BY <2>4, <3>1
    <3> QED
      BY <1>2, <2>1, <2>3, <2>4, <3>1, <3>2 DEF DupAt, DupPcs
  <2> QED
    BY <2>1, <2>3, <2>4, <2>5
<1> QED
  BY <1>1, <1>2

\* The thread whose loop it is.
LEMMA LoopOwner ==
  ASSUME AInv, NEW a \in Actors, pc[a] \in OwnPcs
  PROVE  /\ other[a] \in Users /\ other[a] # a /\ pc[other[a]] = "none"
         /\ \A b \in Actors \ {a} : other[b] # other[a]
<1>1. TypeOK /\ Owners
  BY DEF AInv
<1>2. other[a] \in Users
  BY <1>1 DEF Owners, Holds, TypeOK
<1>3. pc[other[a]] = "none"
  BY <1>1, <1>2, Constants DEF Owners, Runs, HeldEnded
<1>4. "none" \notin OwnPcs
  BY DEF OwnPcs
<1> QED
  BY <1>1, <1>2, <1>3, <1>4, Constants DEF Owners, HeldOnce

\* The loop goes on to the next descriptor.
LEMMA NextFdFacts ==
  ASSUME AInv, NEW a \in Users, NextFd(a), UNCHANGED <<of, v, old>>, pc[a] \in {"f_read", "f_write"},
         cnt' = cnt \/ cnt' = [cnt EXCEPT ![a] = 0]
  PROVE  /\ LocalTypes' /\ Alone(a) /\ pc'[a] \in {"f_read", "f_end"} /\ (pc'[a] = "f_end" => fd'[a] = 0)
         /\ (pc'[a] = "f_read" => fd'[a] = fd[a] + 1) /\ ft_copy_lock' \in Users \cup {NULL}
<1>0. TypeOK /\ LocalTypes /\ a \in Actors
  BY TypeParts DEF AInv, Actors
<1>1. cnt' \in [Actors -> 0..Max({OffMod, CountMod})] /\ \A b \in Actors \ {a} : cnt'[b] = cnt[b]
  <2>1. 0 \in 0..Max({OffMod, CountMod})
    BY SMT, MaxTyped
  <2> QED
    BY <1>0, <2>1 DEF TypeOK
<1>2. CASE fd[a] + 1 < OPEN_MAX
  <2>1. fd' = [fd EXCEPT ![a] = fd[a] + 1] /\ pc' = [pc EXCEPT ![a] = "f_read"] /\ UNCHANGED ft_copy_lock
    BY <1>2 DEF NextFd, Goto
  <2>2. fd[a] + 1 \in Fds
    <3>1. fd[a] \in Fds
      BY <1>0 DEF TypeOK
    <3> QED
      BY SMT, <1>2, <3>1, Constants DEF Fds
  <2>3. LocalTypes' /\ Alone(a) /\ pc'[a] = "f_read" /\ fd'[a] = fd[a] + 1
    BY <1>0, <1>1, <2>1, <2>2 DEF LocalTypes, Alone, Pcs
  <2> QED
    BY <1>0, <2>1, <2>3 DEF TypeOK
<1>3. CASE ~(fd[a] + 1 < OPEN_MAX)
  <2>1. fd' = [fd EXCEPT ![a] = 0] /\ pc' = [pc EXCEPT ![a] = "f_end"] /\ ft_copy_lock' = NULL
    BY <1>3 DEF NextFd, Goto
  <2>2. LocalTypes' /\ Alone(a) /\ pc'[a] = "f_end" /\ fd'[a] = 0
    BY <1>0, <1>1, <2>1, Constants DEF LocalTypes, Alone, Pcs
  <2> QED
    BY <2>1, <2>2
<1> QED
  BY <1>2, <1>3

\* proc_destroy goes on to the next descriptor, or is done.
LEMMA DestroyNextFacts ==
  ASSUME AInv, NEW a \in Actors, pc[a] = "d_fd", DestroyNext(a), UNCHANGED <<of, v, old, cnt>>
  PROVE  /\ LocalTypes' /\ OtherTypes' /\ Alone(a) /\ pc'[a] \in {"d_fd", "menu", "user"}
         /\ \A b \in Actors \ {a} : other'[b] = other[b]
         /\ \A p \in Users \ {other[a]} : state'[p] = state[p] /\ parent'[p] = parent[p]
         /\ \/ /\ UNCHANGED <<pc, other, state, parent>> /\ fd'[a] = fd[a] + 1
            \/ /\ fd[a] + 1 = OPEN_MAX /\ fd'[a] = 0 /\ pc'[a] = IF a = Menu THEN "menu" ELSE "user"
               /\ other'[a] = NULL /\ state'[other[a]] = "none"
<1>0. TypeOK /\ LocalTypes /\ fd[a] \in Fds
  BY TypeParts DEF AInv, TypeOK
<1>00. other[a] \in Users
  BY LoopOwner DEF OwnPcs
<1>1. CASE fd[a] + 1 < OPEN_MAX
  <2>1. fd' = [fd EXCEPT ![a] = fd[a] + 1] /\ UNCHANGED <<pc, other, state, parent>>
    BY <1>1 DEF DestroyNext
  <2>2. fd[a] + 1 \in Fds
    BY SMT, <1>0, <1>1, Constants DEF Fds
  <2>3. LocalTypes' /\ Alone(a) /\ fd'[a] = fd[a] + 1
    BY <1>0, <2>1, <2>2 DEF LocalTypes, Alone
  <2>4. OtherTypes'
    BY <1>0, <2>1 DEF OtherTypes, TypeOK
  <2> QED
    BY <2>1, <2>3, <2>4
<1>2. CASE ~(fd[a] + 1 < OPEN_MAX)
  <2> DEFINE l == IF a = Menu THEN "menu" ELSE "user"
  <2>1. /\ fd' = [fd EXCEPT ![a] = 0] /\ pc' = [pc EXCEPT ![a] = l] /\ other' = [other EXCEPT ![a] = NULL]
        /\ state' = [state EXCEPT ![other[a]] = "none"] /\ parent' = [parent EXCEPT ![other[a]] = NULL]
    BY <1>2 DEF DestroyNext, Goto
  <2>2. l \in {"menu", "user"} /\ l \in Pcs
    BY DEF Pcs
  <2> HIDE DEF l
  <2>3. LocalTypes' /\ Alone(a) /\ fd'[a] = 0 /\ pc'[a] = l
    BY <1>0, <2>1, <2>2, Constants DEF LocalTypes, Alone
  <2>4. OtherTypes'
    BY <1>0, <1>00, <2>1 DEF OtherTypes, TypeOK
  <2>5. /\ other'[a] = NULL /\ \A b \in Actors \ {a} : other'[b] = other[b]
        /\ state'[other[a]] = "none"
        /\ \A p \in Users \ {other[a]} : state'[p] = state[p] /\ parent'[p] = parent[p]
    BY <1>0, <1>00, <2>1 DEF TypeOK
  <2>6. fd[a] + 1 = OPEN_MAX
    BY SMT, <1>0, <1>2, Constants DEF Fds
  <2> QED
    BY <2>2, <2>3, <2>4, <2>5, <2>6 DEF l
<1> QED
  BY <1>1, <1>2

\* AInv holds initially.
LEMMA InitAInv == sft_init => AInv
<1> SUFFICES ASSUME sft_init PROVE AInv
  BY SMT
<1>1. TypeOK
  <2>1. 0 \in 0..(OffMod - 1) /\ 0 \in 0..(CountMod - 1) /\ 0 \in 0..(MaxRefs + 1)
        /\ 0 \in 0..Max({OffMod, CountMod}) /\ 0 \in Fds
    BY SMT, Constants, MaxTyped
  <2>2. FileTypes
    BY <2>1 DEF sft_init, FileTypes
  <2>3. LocalTypes
    BY <2>1 DEF sft_init, LocalTypes, Pcs
  <2>4. OtherTypes
    BY DEF sft_init, OtherTypes
  <2>5. TableType /\ CountType /\ FlagTypes
    BY <2>1 DEF sft_init, TableType, CountType, FlagTypes
  <2> QED
    BY <2>2, <2>3, <2>4, <2>5, TypeParts
<1>2. /\ \A a \in Actors : pc[a] \in {"none", "menu"} /\ fd[a] = 0 /\ other[a] = NULL /\ old[a] = NULL
      /\ \A p \in Users : pc[p] = "none" /\ state[p] = "none" /\ p \in Actors
      /\ pc[Menu] = "menu" /\ \A i \in Files : of_lock[i] = "none"
      /\ \A p \in Users, f \in Fds : fileTable[p][f] = NULL
  BY Constants DEF sft_init, Actors
<1>3. Locals
  BY <1>2 DEF Locals, FileInHand, VnodeInHand, MenuPcs
<1>4. Owners
  BY <1>2 DEF Owners, Runs, Holds, HeldOnce, HeldEnded, OwnPcs
<1>5. Locks
  BY <1>2, Constants DEF Locks, LockReturned, Transfer
<1>6. FdZero /\ Dups /\ NoFiles /\ StdOpens
  BY <1>2 DEF FdZero, Dups, DupAt, NoFiles, StdOpens
<1>7. Copies /\ Copied /\ Destroys
  BY <1>2 DEF Copies, Copied, Destroys
<1> QED
  BY <1>1, <1>3, <1>4, <1>5, <1>6, <1>7 DEF AInv, Tables

\* And every step keeps it.
LEMMA NextAInv == AInv /\ [Next]_vars => AInv'
\* The same after a step.
<1>TypePartsNext. FileTypes' /\ LocalTypes' /\ OtherTypes' /\ TableType' /\ CountType' /\ FlagTypes' => TypeOK'
  BY DEF TypeOK, FileTypes, LocalTypes, OtherTypes, TableType, CountType, FlagTypes
\* A step of one thread leaves what every other thread has in hand alone.
<1>LocalsStep. ASSUME Locals, NEW a \in Users, Alone(a),
           pc'[a] \in {"o_fd", "c_lock", "c_rel", "c_vfs", "c_destroy", "rw"} => of'[a] \in Files,
           pc'[a] \in {"o_slot", "o_fd", "c_vfs"} => v'[a] \in Vnodes
    PROVE  Locals'
  <2> USE <1>LocalsStep
  <2>1. FileInHand'
    BY DEF Locals, FileInHand, Alone, Actors
  <2>2. VnodeInHand'
    BY DEF Locals, VnodeInHand, Alone, Actors
  <2>3. MenuPcs'
    BY Constants DEF Locals, MenuPcs, Alone, Actors
  <2> QED
    BY <2>1, <2>2, <2>3 DEF Locals
\* A step that neither makes nor destroys a process keeps who holds which.
<1>OwnersStep. ASSUME Owners, NEW a \in Actors, Alone(a), UNCHANGED <<other, state, parent>>,
           pc[a] \in OwnPcs <=> pc'[a] \in OwnPcs,
           a \in Users => pc[a] # "none" /\ pc'[a] # "none"
    PROVE  Owners'
  <2> USE <1>OwnersStep
  <2>1. Runs'
    BY DEF Owners, Runs, Alone, Actors
  <2>2. Holds'
    BY DEF Owners, Holds, Alone
  <2>3. HeldOnce' /\ HeldEnded'
    BY DEF Owners, HeldOnce, HeldEnded
  <2> QED
    BY <2>1, <2>2, <2>3 DEF Owners
\* A running process works on its own descriptors, outside the loops.
<1>TablesStep. ASSUME TypeOK, Owners, Tables, NEW a \in Users, Alone(a), UNCHANGED other,
           \A p \in Users \ {a} : state'[p] = state[p], state'[a] # "none",
           pc[a] # "none", \A p \in Users \ {a} : fileTable'[p] = fileTable[p],
           pc'[a] \notin {"f_read", "f_write", "d_fd"},
           \A f \in Fds : pc'[a] = "std" /\ f >= fd'[a] => fileTable'[a][f] = NULL,
           pc'[a] \in {"none", "menu", "user", "f_end"} => fd'[a] = 0,
           DupAt(a)'
    PROVE  Tables'
  <2> USE <1>TablesStep
  <2>1. state[a] = "running" /\ \A b \in Actors : other[b] # a
    BY RunsAlone
  <2>2. FdZero'
    BY DEF Tables, FdZero, Alone
  <2>3. Dups'
    <3> SUFFICES ASSUME NEW b \in Users, b # a PROVE DupAt(b)'
      BY DEF Dups
    <3>1. DupAt(b) /\ pc'[b] = pc[b] /\ fd'[b] = fd[b] /\ old'[b] = old[b]
      BY DEF Tables, Dups, Alone, Actors
    <3> QED
      BY <3>1 DEF DupAt
  <2>4. NoFiles'
    BY <2>1 DEF Tables, NoFiles
  <2>5. StdOpens'
    <3> SUFFICES ASSUME NEW p \in Users, NEW f \in Fds, pc'[p] = "std", f >= fd'[p], p # a
                 PROVE  fileTable'[p][f] = NULL
      BY DEF StdOpens
    <3>1. pc[p] = "std" /\ fd'[p] = fd[p] /\ fileTable'[p] = fileTable[p]
      BY DEF Alone, Actors
    <3> QED
      BY <3>1 DEF Tables, StdOpens
  <2>6. \A b \in Actors \ {a} : other[b] \in Users => fileTable'[other[b]] = fileTable[other[b]]
    BY <2>1
  <2>7. \A b \in Actors : pc[b] \in OwnPcs => other[b] \in Users
    BY DEF Owners, Holds, TypeOK
  <2>8. \A b \in Users : pc'[b] \in {"f_read", "f_write"} =>
          /\ fileTable'[other[b]] = fileTable[other[b]] /\ fileTable'[b] = fileTable[b]
          /\ pc'[b] = pc[b] /\ fd'[b] = fd[b]
    BY <2>6, <2>7 DEF Alone, Actors, OwnPcs
  <2>9. Copies' /\ Copied'
    <3>1. Copies'
      BY SMT, <2>8 DEF Tables, Copies
    <3>2. Copied'
      BY SMT, <2>8 DEF Tables, Copied
    <3> QED
      BY <3>1, <3>2
  <2>10. Destroys'
    <3> SUFFICES ASSUME NEW b \in Actors, NEW f \in Fds, pc'[b] = "d_fd", f < fd'[b]
                 PROVE  fileTable'[other[b]][f] = NULL
      BY DEF Destroys
    <3>1. b # a /\ pc[b] = "d_fd" /\ fd'[b] = fd[b]
      BY DEF Alone
    <3>2. fileTable'[other[b]] = fileTable[other[b]]
      BY <2>6, <2>7, <3>1 DEF OwnPcs
    <3> QED
      BY <3>1, <3>2 DEF Tables, Destroys
  <2> QED
    BY <2>2, <2>3, <2>4, <2>5, <2>9, <2>10 DEF Tables
\* A step that leaves the slots' locks, vnodes and offsets alone.
<1>LocksSame. ASSUME Locks, NEW a \in Actors, Alone(a), UNCHANGED <<of_lock, vn, offset>>,
           pc[a] \notin {"rw", "c_rel"}, pc'[a] # "rw"
    PROVE  Locks'
  <2> USE <1>LocksSame
  <2>0. \A b \in Users \ {a} : pc'[b] = pc[b] /\ of'[b] = of[b] /\ cnt'[b] = cnt[b]
    BY DEF Alone, Actors
  <2>1. LockReturned'
    BY <2>0 DEF Locks, LockReturned
  <2>2. Transfer'
    <3> SUFFICES ASSUME NEW b \in Users, pc'[b] = "rw"
                 PROVE  of_lock[of'[b]] = b /\ vn[of'[b]] # NULL /\ offset[of'[b]] = cnt'[b]
      BY DEF Transfer
    <3>1. b # a /\ pc[b] = "rw" /\ of'[b] = of[b] /\ cnt'[b] = cnt[b]
      BY <2>0
    <3> QED
      BY <3>1 DEF Locks, Transfer
  <2> QED
    BY <2>1, <2>2 DEF Locks
\* A step that works on one slot, which no other process has locked for a transfer.
<1>LocksStep. ASSUME TypeOK, Locals, Locks, NEW a \in Actors, Alone(a), NEW i \in Files,
           \A j \in Files \ {i} : of_lock'[j] = of_lock[j] /\ vn'[j] = vn[j] /\ offset'[j] = offset[j],
           of_lock[i] \in {"none", "free", a} \/ vn[i] = NULL,
           pc[a] \in {"rw", "c_rel"} => of[a] = i,
           of_lock'[i] \in Users => of_lock'[i] = a /\ pc'[a] \in {"rw", "c_rel"} /\ of'[a] = i,
           pc'[a] = "rw" => of'[a] = i /\ of_lock'[i] = a /\ vn'[i] # NULL /\ offset'[i] = cnt'[a]
    PROVE  Locks'
  <2> USE <1>LocksStep
  <2>1. LockReturned'
    <3> SUFFICES ASSUME NEW j \in Files \ {i}, of_lock[j] \in Users
                 PROVE  pc'[of_lock[j]] \in {"rw", "c_rel"} /\ of'[of_lock[j]] = j
      BY DEF LockReturned
    <3>1. pc[of_lock[j]] \in {"rw", "c_rel"} /\ of[of_lock[j]] = j
      BY DEF Locks, LockReturned
    <3> QED
      BY <3>1 DEF Alone, Actors
  <2>2. Transfer'
    <3>1. ASSUME NEW b \in Users, b # a, pc[b] = "rw" PROVE of[b] \in Files \ {i}
      <4>1. of[b] \in Files /\ of_lock[of[b]] = b /\ vn[of[b]] # NULL
        BY <3>1 DEF Locals, FileInHand, Locks, Transfer
      <4> QED
        BY <3>1, <4>1, Constants
    <3> SUFFICES ASSUME NEW b \in Users, b # a, pc'[b] = "rw"
                 PROVE  of_lock'[of'[b]] = b /\ vn'[of'[b]] # NULL /\ offset'[of'[b]] = cnt'[b]
      BY DEF Transfer
    <3>2. pc[b] = "rw" /\ of'[b] = of[b] /\ cnt'[b] = cnt[b]
      BY DEF Alone, Actors
    <3>3. of_lock[of[b]] = b /\ vn[of[b]] # NULL /\ offset[of[b]] = cnt[b]
      BY <3>2 DEF Locks, Transfer
    <3> QED
      BY <3>1, <3>2, <3>3
  <2> QED
    BY <2>1, <2>2 DEF Locks
\* The kernel stops: nothing else changes.
<1>CrashA. ASSUME AInv, NEW why \in {"lock", "vnode"}, Crash(why)
    PROVE  AInv'
  <2> USE <1>CrashA
  <2>1. UNCHANGED <<fileTable, vn, offset, countRef, of_lock, vn_refcount, ft_copy_lock, state, parent,
                    pc, of, fd, v, old, other, cnt, raced>> /\ fault' \in {"none", "lock", "vnode"}
    BY DEF Crash, file_vars, local_vars
  <2>2. TypeOK'
    BY <2>1 DEF AInv, TypeOK
  <2>3. Locals'
    BY <2>1 DEF AInv, Locals, FileInHand, VnodeInHand, MenuPcs
  <2>4. Owners'
    BY <2>1 DEF AInv, Owners, Runs, Holds, HeldOnce, HeldEnded
  <2>5. Locks'
    BY <2>1 DEF AInv, Locks, LockReturned, Transfer
  <2>6. FdZero' /\ Dups' /\ NoFiles' /\ StdOpens'
    BY <2>1 DEF AInv, Tables, FdZero, Dups, DupAt, NoFiles, StdOpens
  <2>7. Copies' /\ Copied' /\ Destroys'
    BY <2>1 DEF AInv, Tables, Copies, Copied, Destroys
  <2> QED
    BY <2>2, <2>3, <2>4, <2>5, <2>6, <2>7 DEF AInv, Tables
\* A step of a call that a running process makes for itself.
<1>CallA. ASSUME AInv, NEW a \in Users, Alone(a), UNCHANGED <<other, state, parent>>,
           pc[a] # "none", pc[a] \notin OwnPcs, pc'[a] \notin OwnPcs, pc'[a] \notin {"none", "std"},
           \A p \in Users \ {a} : fileTable'[p] = fileTable[p],
           pc'[a] = "user" => fd'[a] = 0, DupAt(a)', LocalTypes',
           pc'[a] \in {"o_fd", "c_lock", "c_rel", "c_vfs", "c_destroy", "rw"} => of'[a] \in Files,
           pc'[a] \in {"o_slot", "o_fd", "c_vfs"} => v'[a] \in Vnodes,
           pc'[a] # "menu",
           FileTypes', TableType', CountType', FlagTypes', Locks'
    PROVE  AInv'
  <2> USE <1>CallA
  <2>0. TypeOK /\ Locals /\ Owners /\ Locks /\ Tables /\ a \in Actors
    BY DEF AInv, Actors
  <2>1. TypeOK'
    <3>1. OtherTypes'
      BY <2>0, TypeParts DEF OtherTypes
    <3> QED
      BY <3>1, <1>TypePartsNext
  <2>2. Locals'
    BY <2>0, <1>LocalsStep
  <2>3. Owners'
    BY <2>0, <1>OwnersStep
  <2>4. Tables'
    <3>1. \A p \in Users \ {a} : state'[p] = state[p]
      OBVIOUS
    <3>2. state'[a] # "none"
      BY <2>0, RunsAlone
    <3> QED
      BY <2>0, <3>1, <3>2, <1>TablesStep DEF OwnPcs
  <2> QED
    BY <2>1, <2>2, <2>3, <2>4 DEF AInv
\* vnode_incref and vnode_decref keep to the bounds.
<1>CountTyped. ASSUME AInv, NEW x \in Vnodes
    PROVE  /\ vnode_incref(x) /\ vn_refcount[x] < MaxRefs => CountType'
           /\ vnode_decref(x) /\ vn_refcount[x] # 0 => CountType'
  <2> USE <1>CountTyped
  <2>1. vn_refcount \in [Vnodes -> 0..(MaxRefs + 1)]
    BY DEF AInv, TypeOK
  <2>2. ASSUME vnode_incref(x), vn_refcount[x] < MaxRefs PROVE CountType'
    <3>1. vn_refcount[x] + 1 \in 0..(MaxRefs + 1)
      BY SMT, <2>1, <2>2, Constants
    <3> QED
      BY <2>1, <2>2, <3>1 DEF vnode_incref, CountType
  <2>3. ASSUME vnode_decref(x), vn_refcount[x] # 0 PROVE CountType'
    <3>1. vn_refcount[x] - 1 \in 0..(MaxRefs + 1)
      BY SMT, <2>1, <2>3, Constants
    <3> QED
      BY <2>1, <2>3, <3>1 DEF vnode_decref, CountType
  <2> QED
    BY <2>2, <2>3
\* sys_open.
<1>SysOpenA. ASSUME AInv, NEW a \in Users, sys_open(a)
    PROVE  AInv'
  <2> USE <1>SysOpenA
  <2>1. PICK x \in Vnodes :
          vn_refcount[x] < MaxRefs /\ vnode_incref(x) /\ v' = [v EXCEPT ![a] = x]
    BY DEF sys_open
  <2>2. /\ pc[a] = "user" /\ pc' = [pc EXCEPT ![a] = "o_slot"]
        /\ UNCHANGED <<fileTable, file_vars, ft_copy_lock, state, parent, of, fd, old, other, cnt, fault, raced>>
    BY DEF sys_open, Goto
  <2>3. TypeOK /\ LocalTypes /\ Owners /\ Locks /\ Tables /\ a \in Actors
    BY TypeParts DEF AInv, Actors
  <2>4. LocalTypes' /\ Alone(a) /\ pc'[a] = "o_slot" /\ v'[a] = x
    BY <2>1, <2>2, <2>3 DEF LocalTypes, Alone, Pcs
  <2>5. DupAt(a)'
    <3>1. old[a] = NULL
      BY <2>2, <2>3 DEF Tables, Dups, DupAt, DupPcs
    <3> QED
      BY <3>1, <2>2, <2>4 DEF DupAt
  <2>6. Locks'
    BY <2>2, <2>3, <2>4, <1>LocksSame DEF file_vars
  <2>7. FileTypes' /\ TableType' /\ CountType' /\ FlagTypes'
    BY <2>1, <2>2, TypesSame, <1>CountTyped
  <2> QED
    BY <2>1, <2>2, <2>4, <2>5, <2>6, <2>7, <1>CallA DEF OwnPcs
\* sys_open fills an empty slot: no transfer and no closer is at it.
<1>LocksFill. ASSUME AInv, NEW a \in Actors, Alone(a), NEW i \in Files, vn[i] = NULL, NEW x \in Vnodes,
           FillSlot(i, x), pc[a] \notin {"rw", "c_rel"}, pc'[a] # "rw"
    PROVE  Locks'
  <2> USE <1>LocksFill
  <2>1. /\ \A j \in Files \ {i} : of_lock'[j] = of_lock[j] /\ vn'[j] = vn[j] /\ offset'[j] = offset[j]
        /\ of_lock'[i] \notin Users
    BY FillFacts, Constants
  <2>2. TypeOK /\ Locals /\ Locks
    BY DEF AInv
  <2> QED
    BY <2>1, <2>2, <1>LocksStep
\* WithVnode and WithLock: either the kernel stops or what follows happens.
<1>WithVnodeCases. ASSUME AInv, NEW x \in Vnodes \cup {NULL}, NEW A, WithVnode(x, A)
    PROVE  Crash("vnode") \/ (x \in Vnodes /\ vn_refcount[x] # 0 /\ A)
  BY <1>WithVnodeCases DEF WithVnode
\* The search of sys_open for a slot of the system table keeps the invariant,
\* whether one is free or the call ends with ENFILE.
<1>OpenSlotA. ASSUME AInv, NEW a \in Users, OpenSlot(a)
    PROVE  AInv'
  <2> USE <1>OpenSlotA
  <2>0. TypeOK /\ LocalTypes /\ Locals /\ Owners /\ Locks /\ Tables /\ a \in Actors /\ pc[a] = "o_slot"
    BY TypeParts DEF AInv, Actors, OpenSlot
  <2>1. v[a] \in Vnodes
    BY <2>0 DEF Locals, VnodeInHand
  <2>2. old[a] = NULL
    BY <2>0 DEF Tables, Dups, DupAt, DupPcs
  <2>3. CASE FreeFiles # {}
    <3> DEFINE i == Min(FreeFiles)
    <3>1. i \in Files /\ vn[i] = NULL
      BY <2>3, FreeFilesTyped
    <3>2. /\ FillSlot(i, v[a]) /\ of' = [of EXCEPT ![a] = i] /\ pc' = [pc EXCEPT ![a] = "o_fd"]
          /\ UNCHANGED <<fileTable, vn_refcount, ft_copy_lock, state, parent, fd, v, old, other, cnt, fault>>
      BY <2>3 DEF OpenSlot, Goto
    <3> HIDE DEF i
    <3>3. LocalTypes' /\ Alone(a) /\ pc'[a] = "o_fd" /\ of'[a] = i /\ v'[a] = v[a]
      BY <2>0, <3>1, <3>2 DEF LocalTypes, Alone, Pcs
    <3>4. DupAt(a)'
      BY <2>2, <3>2, <3>3 DEF DupAt
    <3>5. FileTypes' /\ TableType' /\ CountType' /\ FlagTypes'
      <4>1. FlagTypes'
        BY <2>0, <2>1, <3>1, <3>2, FillFacts DEF FlagTypes, TypeOK
      <4> QED
        BY <2>1, <3>1, <3>2, <4>1, TypesSame, FillFacts
    <3>6. Locks'
      BY <2>0, <2>1, <3>1, <3>2, <3>3, <1>LocksFill
    <3> QED
      BY <2>0, <2>1, <3>1, <3>2, <3>3, <3>4, <3>5, <3>6, <1>CallA DEF OwnPcs
  <2>4. CASE FreeFiles = {} /\ ~Crash("vnode")
    <3>1. /\ vn_refcount[v[a]] # 0 /\ vnode_decref(v[a]) /\ Return(a)
          /\ UNCHANGED <<fileTable, file_vars, ft_copy_lock, state, parent, fault, raced>>
      BY <2>1, <2>4, <1>WithVnodeCases, Constants DEF OpenSlot, WithVnode
    <3>2. LocalTypes' /\ Alone(a) /\ pc'[a] = "user" /\ fd'[a] = 0 /\ other' = other /\ DupAt(a)'
      BY <2>0, <3>1, ReturnFacts DEF OwnPcs
    <3>3. FileTypes' /\ TableType' /\ CountType' /\ FlagTypes'
      BY <2>1, <3>1, TypesSame, <1>CountTyped
    <3>4. Locks'
      BY <2>0, <3>1, <3>2, <1>LocksSame DEF file_vars
    <3> QED
      BY <2>0, <3>1, <3>2, <3>3, <3>4, <1>CallA DEF OwnPcs
  <2> QED
    BY <2>3, <2>4, <1>CrashA
\* The search of sys_open for a descriptor, and its EMFILE path, keep the
\* invariant.
<1>OpenFdA. ASSUME AInv, NEW a \in Users, OpenFd(a)
    PROVE  AInv'
  <2> USE <1>OpenFdA
  <2>0. TypeOK /\ Locals /\ Owners /\ Locks /\ Tables /\ a \in Actors /\ pc[a] = "o_fd"
    BY DEF AInv, Actors, OpenFd
  <2>1. v[a] \in Vnodes /\ of[a] \in Files
    BY <2>0 DEF Locals, VnodeInHand, FileInHand
  <2>2. CASE ~Crash("vnode")
    <3>1. /\ vn_refcount[v[a]] # 0 /\ Return(a)
          /\ UNCHANGED <<file_vars, ft_copy_lock, state, parent, fault, raced>>
          /\ \/ /\ FreeFds(a) # {} /\ fileTable' = [fileTable EXCEPT ![a][Min(FreeFds(a))] = of[a]]
                /\ UNCHANGED vn_refcount
             \/ vnode_decref(v[a]) /\ UNCHANGED fileTable
      BY <2>1, <2>2, <1>WithVnodeCases, Constants DEF OpenFd, WithVnode
    <3>2. LocalTypes' /\ Alone(a) /\ pc'[a] = "user" /\ fd'[a] = 0 /\ other' = other /\ DupAt(a)'
      BY <2>0, <3>1, ReturnFacts DEF OwnPcs
    <3>3. TableType' /\ CountType' /\ \A p \in Users \ {a} : fileTable'[p] = fileTable[p]
      <4>1. ASSUME FreeFds(a) # {}, fileTable' = [fileTable EXCEPT ![a][Min(FreeFds(a))] = of[a]]
            PROVE  TableType' /\ \A p \in Users \ {a} : fileTable'[p] = fileTable[p]
        BY <2>1, <4>1, FreeFdsTyped, SetFd DEF FdSet
      <4> QED
        BY <2>1, <3>1, <4>1, TypesSame, <1>CountTyped
    <3>4. Locks'
      BY <2>0, <3>1, <3>2, <1>LocksSame DEF file_vars
    <3> QED
      BY <2>0, <3>1, <3>2, <3>3, <3>4, <1>CallA, TypesSame DEF OwnPcs
  <2> QED
    BY <2>2, <1>CrashA
\* sys_close takes the descriptor out of the table and keeps the invariant.
<1>SysCloseA. ASSUME AInv, NEW a \in Users, sys_close(a)
    PROVE  AInv'
  <2> USE <1>SysCloseA
  <2>0. TypeOK /\ LocalTypes /\ Locals /\ Owners /\ Locks /\ Tables /\ a \in Actors /\ pc[a] = "user"
    BY TypeParts DEF AInv, Actors, sys_close
  <2>1. PICK f \in Fds : /\ fileTable[a][f] # NULL /\ of' = [of EXCEPT ![a] = fileTable[a][f]]
                         /\ fileTable' = [fileTable EXCEPT ![a][f] = NULL]
    BY DEF sys_close
  <2>2. /\ pc' = [pc EXCEPT ![a] = "c_lock"]
        /\ UNCHANGED <<file_vars, vn_refcount, ft_copy_lock, state, parent, fd, v, old, other, cnt, fault, raced>>
    BY DEF sys_close, Goto
  <2>3. fileTable[a][f] \in Files
    BY <2>1, FdTyped
  <2>4. LocalTypes' /\ Alone(a) /\ pc'[a] = "c_lock" /\ of'[a] \in Files
    BY <2>0, <2>1, <2>2, <2>3 DEF LocalTypes, Alone, Pcs
  <2>5. DupAt(a)'
    <3>1. old[a] = NULL
      BY <2>0 DEF Tables, Dups, DupAt, DupPcs
    <3> QED
      BY <3>1, <2>2, <2>4 DEF DupAt
  <2>6. Locks'
    BY <2>0, <2>2, <2>4, <1>LocksSame DEF file_vars
  <2>7. TableType' /\ \A p \in Users \ {a} : fileTable'[p] = fileTable[p]
    <3>1. NULL \in Files \cup {NULL}
      OBVIOUS
    <3> QED
      BY <2>1, <3>1, SetFd DEF FdSet
  <2> QED
    BY <2>0, <2>2, <2>4, <2>5, <2>6, <2>7, <1>CallA, TypesSame DEF OwnPcs
\* countRef goes down, and stays in its range.
<1>Minus1Typed. ASSUME NEW c \in 0..(CountMod - 1)
    PROVE  Minus1(c) \in 0..(CountMod - 1)
  BY <1>Minus1Typed, SMT, Constants DEF Minus1
\* The decrement under of_lock, with its early return while references are left,
\* keeps the invariant.
<1>CloseLockA. ASSUME AInv, NEW a \in Users, CloseLock(a)
    PROVE  AInv'
  <2> USE <1>CloseLockA
  <2>0. TypeOK /\ LocalTypes /\ Locals /\ Owners /\ Locks /\ Tables /\ a \in Actors /\ pc[a] = "c_lock"
    BY TypeParts DEF AInv, Actors, CloseLock
  <2>1. of[a] \in Files
    BY <2>0 DEF Locals, FileInHand
  <2>2. CASE ~Crash("lock")
    <3>1. /\ of_lock[of[a]] = "free" /\ DropRef(a)
          /\ UNCHANGED <<offset, vn_refcount, ft_copy_lock, state, parent, fault, raced>>
      BY <2>2 DEF CloseLock, WithLock
    <3>2. countRef' \in [Files -> 0..(CountMod - 1)]
      <4>1. countRef \in [Files -> 0..(CountMod - 1)] /\ Minus1(countRef[of[a]]) \in 0..(CountMod - 1)
        BY <2>0, <2>1, <1>Minus1Typed DEF TypeOK
      <4>2. countRef' = [countRef EXCEPT ![of[a]] = Minus1(countRef[of[a]])]
        BY <3>1 DEF DropRef
      <4> QED
        BY <4>1, <4>2
    <3>3. CASE DropDone(a) /\ UNCHANGED <<vn, of_lock>>
      <4>1. FileTypes'
        BY <2>0, <3>1, <3>2, <3>3 DEF FileTypes, TypeOK
      <4>2. Alone(a) /\ pc'[a] \in {"user", "u_incr"}
        BY <2>0, <3>3, DropDoneFacts
      <4>3. Locks'
        BY <2>0, <3>1, <3>3, <4>2, <1>LocksSame
      <4> QED
        BY <2>0, <3>1, <3>3, <4>1, <4>2, <4>3, DropDoneFacts, <1>CallA, TypesSame DEF OwnPcs
    <3>4. CASE ~DropDone(a) \/ ~UNCHANGED <<vn, of_lock>>
      <4>1. /\ v' = [v EXCEPT ![a] = vn[of[a]]] /\ vn' = [vn EXCEPT ![of[a]] = NULL]
            /\ of_lock' = [of_lock EXCEPT ![of[a]] = a] /\ pc' = [pc EXCEPT ![a] = "c_rel"]
            /\ UNCHANGED <<fileTable, of, fd, old, other, cnt>>
        BY <3>1, <3>4 DEF DropRef, Goto
      <4>2. vn[of[a]] \in Vnodes \cup {NULL}
        BY <2>0, <2>1 DEF TypeOK
      <4>3. LocalTypes' /\ Alone(a) /\ pc'[a] = "c_rel" /\ of'[a] = of[a]
        BY <2>0, <4>1, <4>2 DEF LocalTypes, Alone, Pcs
      <4>4. FileTypes'
        BY <2>0, <2>1, <3>1, <3>2, <4>1 DEF FileTypes, TypeOK
      <4>5. DupAt(a)'
        <5>1. DupAt(a)
          BY <2>0 DEF Tables, Dups
        <5> QED
          BY <2>0, <4>1, <4>3, <5>1 DEF DupAt, DupPcs
      <4>6. Locks'
        <5>1. /\ \A j \in Files \ {of[a]} : of_lock'[j] = of_lock[j] /\ vn'[j] = vn[j] /\ offset'[j] = offset[j]
              /\ of_lock'[of[a]] = a
          BY <2>0, <2>1, <3>1, <4>1 DEF TypeOK
        <5> QED
          BY <2>0, <2>1, <3>1, <4>3, <5>1, <1>LocksStep
      <4> QED
        BY <2>0, <2>1, <3>1, <4>1, <4>3, <4>4, <4>5, <4>6, <1>CallA, TypesSame DEF OwnPcs
    <3> QED
      BY <3>3, <3>4
  <2> QED
    BY <2>2, <1>CrashA
\* Giving of_lock back before vfs_close keeps the invariant.
<1>CloseReleaseA. ASSUME AInv, NEW a \in Users, CloseRelease(a)
    PROVE  AInv'
  <2> USE <1>CloseReleaseA
  <2>0. TypeOK /\ LocalTypes /\ Locals /\ Owners /\ Locks /\ Tables /\ a \in Actors /\ pc[a] = "c_rel"
    BY TypeParts DEF AInv, Actors, CloseRelease
  <2>1. of[a] \in Files
    BY <2>0 DEF Locals, FileInHand
  <2>2. CASE ~Crash("lock")
    <3>1. /\ of_lock[of[a]] = a /\ of_lock' = [of_lock EXCEPT ![of[a]] = "free"]
          /\ UNCHANGED <<fileTable, vn, offset, countRef, vn_refcount, ft_copy_lock, state, parent, fault, raced>>
          /\ \/ v[a] = NULL /\ Return(a)
             \/ v[a] # NULL /\ pc' = [pc EXCEPT ![a] = "c_vfs"] /\ UNCHANGED <<of, fd, v, old, other, cnt>>
      BY <2>2 DEF CloseRelease, Goto
    <3>2. FileTypes'
      BY <2>0, <3>1 DEF FileTypes, TypeOK
    <3>3. /\ \A j \in Files \ {of[a]} : of_lock'[j] = of_lock[j] /\ vn'[j] = vn[j] /\ offset'[j] = offset[j]
          /\ of_lock'[of[a]] \notin Users
      BY <2>0, <2>1, <3>1, Constants DEF TypeOK
    <3>4. CASE Return(a)
      <4>1. LocalTypes' /\ Alone(a) /\ pc'[a] = "user" /\ fd'[a] = 0 /\ other' = other /\ DupAt(a)'
        BY <2>0, <3>4, ReturnFacts DEF OwnPcs
      <4>2. Locks'
        BY <2>0, <2>1, <3>1, <3>3, <4>1, <1>LocksStep
      <4> QED
        BY <2>0, <3>1, <3>2, <4>1, <4>2, <1>CallA, TypesSame DEF OwnPcs
    <3>5. CASE ~Return(a)
      <4>1. v[a] \in Vnodes
        BY <2>0, <3>1, <3>5 DEF TypeOK
      <4>2. pc' = [pc EXCEPT ![a] = "c_vfs"] /\ UNCHANGED <<of, fd, v, old, other, cnt>>
        BY <3>1, <3>5
      <4>3. LocalTypes' /\ Alone(a) /\ pc'[a] = "c_vfs"
        BY <2>0, <4>2 DEF LocalTypes, Alone, Pcs
      <4>4. DupAt(a)'
        <5>1. DupAt(a)
          BY <2>0 DEF Tables, Dups
        <5> QED
          BY <2>0, <3>1, <4>2, <4>3, <5>1 DEF DupAt, DupPcs
      <4>5. Locks'
        BY <2>0, <2>1, <3>1, <3>3, <4>3, <1>LocksStep
      <4> QED
        BY <2>0, <2>1, <3>1, <3>2, <4>1, <4>2, <4>3, <4>4, <4>5, <1>CallA, TypesSame DEF OwnPcs
    <3> QED
      BY <3>4, <3>5
  <2> QED
    BY <2>2, <1>CrashA
\* vfs_close, which drops the vnode, keeps the invariant.
<1>CloseVfsA. ASSUME AInv, NEW a \in Users, CloseVfs(a)
    PROVE  AInv'
  <2> USE <1>CloseVfsA
  <2>0. TypeOK /\ LocalTypes /\ Locals /\ Owners /\ Locks /\ Tables /\ a \in Actors /\ pc[a] = "c_vfs"
    BY TypeParts DEF AInv, Actors, CloseVfs
  <2>1. of[a] \in Files /\ v[a] \in Vnodes
    BY <2>0 DEF Locals, FileInHand, VnodeInHand
  <2>2. CASE ~Crash("vnode")
    <3>1. /\ vn_refcount[v[a]] # 0 /\ vnode_decref(v[a]) /\ pc' = [pc EXCEPT ![a] = "c_destroy"]
          /\ UNCHANGED <<fileTable, file_vars, ft_copy_lock, state, parent, of, fd, v, old, other, cnt,
                         fault, raced>>
      BY <2>1, <2>2, <1>WithVnodeCases, Constants DEF CloseVfs, WithVnode, Goto
    <3>2. LocalTypes' /\ Alone(a) /\ pc'[a] = "c_destroy" /\ of'[a] = of[a]
      BY <2>0, <3>1 DEF LocalTypes, Alone, Pcs
    <3>3. DupAt(a)'
      <4>1. DupAt(a)
        BY <2>0 DEF Tables, Dups
      <4> QED
        BY <2>0, <3>1, <3>2, <4>1 DEF DupAt, DupPcs
    <3>4. Locks'
      BY <2>0, <3>1, <3>2, <1>LocksSame DEF file_vars
    <3>5. FileTypes' /\ TableType' /\ CountType' /\ FlagTypes'
      BY <2>1, <3>1, TypesSame, <1>CountTyped
    <3> QED
      BY <2>0, <2>1, <3>1, <3>2, <3>3, <3>4, <3>5, <1>CallA DEF OwnPcs
  <2> QED
    BY <2>2, <1>CrashA
\* lock_destroy of the last close keeps the invariant.
<1>CloseDestroyA. ASSUME AInv, NEW a \in Users, CloseDestroy(a)
    PROVE  AInv'
  <2> USE <1>CloseDestroyA
  <2>0. TypeOK /\ Locals /\ Owners /\ Locks /\ Tables /\ a \in Actors /\ pc[a] = "c_destroy"
    BY DEF AInv, Actors, CloseDestroy
  <2>1. of[a] \in Files
    BY <2>0 DEF Locals, FileInHand
  <2>2. CASE ~Crash("lock")
    <3>1. /\ of_lock[of[a]] = "free" /\ of_lock' = [of_lock EXCEPT ![of[a]] = "none"] /\ DropDone(a)
          /\ UNCHANGED <<vn, offset, countRef, vn_refcount, ft_copy_lock, state, parent, fault, raced>>
      BY <2>2 DEF CloseDestroy
    <3>2. FileTypes'
      BY <2>0, <3>1 DEF FileTypes, TypeOK
    <3>3. Alone(a) /\ pc'[a] \in {"user", "u_incr"}
      BY <2>0, <3>1, DropDoneFacts
    <3>4. Locks'
      <4>1. /\ \A j \in Files \ {of[a]} : of_lock'[j] = of_lock[j] /\ vn'[j] = vn[j] /\ offset'[j] = offset[j]
            /\ of_lock'[of[a]] \notin Users
        BY <2>0, <2>1, <3>1, Constants DEF TypeOK
      <4> QED
        BY <2>0, <2>1, <3>1, <3>3, <4>1, <1>LocksStep
    <3> QED
      BY <2>0, <3>1, <3>2, <3>3, <3>4, DropDoneFacts, <1>CallA, TypesSame DEF OwnPcs
  <2> QED
    BY <2>2, <1>CrashA
\* sys_dup2 up to the release of ft_lock keeps the invariant.
<1>SysDup2A. ASSUME AInv, NEW a \in Users, sys_dup2(a)
    PROVE  AInv'
  <2> USE <1>SysDup2A
  <2>0. TypeOK /\ LocalTypes /\ Locals /\ Owners /\ Locks /\ Tables /\ a \in Actors /\ pc[a] = "user"
    BY TypeParts DEF AInv, Actors, sys_dup2
  <2>1. PICK oldfd \in Fds, newfd \in Fds :
          /\ oldfd # newfd /\ fileTable[a][oldfd] # NULL
          /\ old' = [old EXCEPT ![a] = fileTable[a][oldfd]] /\ fd' = [fd EXCEPT ![a] = newfd]
          /\ \/ /\ fileTable[a][newfd] = NULL
                /\ fileTable' = [fileTable EXCEPT ![a][newfd] = fileTable[a][oldfd]]
                /\ pc' = [pc EXCEPT ![a] = "u_incr"] /\ UNCHANGED of
             \/ /\ fileTable[a][newfd] # NULL /\ of' = [of EXCEPT ![a] = fileTable[a][newfd]]
                /\ fileTable' = [fileTable EXCEPT ![a][newfd] = NULL] /\ pc' = [pc EXCEPT ![a] = "c_lock"]
    BY DEF sys_dup2, Goto
  <2>2. UNCHANGED <<file_vars, vn_refcount, ft_copy_lock, state, parent, v, other, cnt, fault, raced>>
    BY DEF sys_dup2
  <2>3. fileTable[a][oldfd] \in Files /\ fileTable[a][newfd] \in Files \cup {NULL}
    BY <2>1, FdTyped
  <2>4. /\ fd' \in [Actors -> Fds] /\ old' \in [Actors -> Files \cup {NULL}]
        /\ fd'[a] = newfd /\ old'[a] = fileTable[a][oldfd]
        /\ \A b \in Actors \ {a} : fd'[b] = fd[b] /\ old'[b] = old[b]
    BY <2>0, <2>1, <2>3 DEF TypeOK
  <2>5. PICK i \in Files \cup {NULL} :
          /\ fileTable' = [fileTable EXCEPT ![a][newfd] = i]
          /\ \/ pc' = [pc EXCEPT ![a] = "u_incr"] /\ UNCHANGED of /\ i = fileTable[a][oldfd]
             \/ pc' = [pc EXCEPT ![a] = "c_lock"] /\ of' = [of EXCEPT ![a] = fileTable[a][newfd]]
                /\ i = NULL /\ fileTable[a][newfd] \in Files
    BY <2>1, <2>3
  <2>6. /\ TableType' /\ \A p \in Users \ {a} : fileTable'[p] = fileTable[p]
        /\ fileTable'[a][newfd] = i /\ fileTable'[a][oldfd] = fileTable[a][oldfd]
    <3>1. newfd \in Fds /\ i \in Files \cup {NULL} /\ fileTable' = [fileTable EXCEPT ![a][newfd] = i]
      BY <2>1, <2>5
    <3>2. FdSet(a, newfd, i)
      BY <3>1, SetFd
    <3> QED
      BY <2>1, <3>2 DEF FdSet
  <2>7. /\ pc' \in [Actors -> Pcs] /\ of' \in [Actors -> Files \cup {NULL}]
        /\ \A b \in Actors \ {a} : pc'[b] = pc[b] /\ of'[b] = of[b]
        /\ pc'[a] \in {"u_incr", "c_lock"} /\ (pc'[a] = "c_lock" => of'[a] \in Files)
        /\ i = IF pc'[a] = "u_incr" THEN old'[a] ELSE NULL
    BY <2>0, <2>3, <2>4, <2>5 DEF TypeOK, Pcs
  <2>8. LocalTypes' /\ Alone(a)
    BY <2>0, <2>2, <2>4, <2>7 DEF LocalTypes, Alone
  <2>9. DupAt(a)'
    BY <2>1, <2>3, <2>4, <2>6, <2>7, Constants DEF DupAt, DupPcs
  <2>10. Locks'
    BY <2>0, <2>2, <2>7, <2>8, <1>LocksSame DEF file_vars
  <2> QED
    BY <2>0, <2>2, <2>6, <2>7, <2>8, <2>9, <2>10, <1>CallA, TypesSame DEF OwnPcs
\* The end of sys_dup2, which counts the new descriptor under of_lock, keeps the
\* invariant.
<1>DupIncrA. ASSUME AInv, NEW a \in Users, DupIncr(a)
    PROVE  AInv'
  <2> USE <1>DupIncrA
  <2>0. TypeOK /\ Owners /\ Locks /\ Tables /\ a \in Actors /\ pc[a] = "u_incr"
    BY DEF AInv, Actors, DupIncr
  <2>1. old[a] \in Files
    BY <2>0 DEF Tables, Dups, DupAt, TypeOK
  <2>2. vn[old[a]] \in Vnodes \cup {NULL}
    BY <2>0, <2>1 DEF TypeOK
  <2>3. CASE ~Crash("lock") /\ ~Crash("vnode")
    <3>1. /\ vn[old[a]] # NULL /\ vn_refcount[vn[old[a]]] < MaxRefs
          /\ countRef' = [countRef EXCEPT ![old[a]] = (countRef[old[a]] + 1) % CountMod]
          /\ vnode_incref(vn[old[a]]) /\ Return(a)
          /\ UNCHANGED <<fileTable, vn, offset, of_lock, ft_copy_lock, state, parent, fault, raced>>
      BY <2>3 DEF DupIncr, WithLock, WithVnode
    <3>2. LocalTypes' /\ Alone(a) /\ pc'[a] = "user" /\ fd'[a] = 0 /\ other' = other /\ DupAt(a)'
      BY <2>0, <3>1, ReturnFacts DEF OwnPcs
    <3>3. FileTypes'
      <4>1. (countRef[old[a]] + 1) % CountMod \in 0..(CountMod - 1)
        <5>1. countRef[old[a]] \in 0..(CountMod - 1)
          BY <2>0, <2>1 DEF TypeOK
        <5> QED
          BY SMT, <5>1, Constants
      <4> QED
        BY <2>0, <3>1, <4>1 DEF FileTypes, TypeOK
    <3>4. Locks'
      BY <2>0, <3>1, <3>2, <1>LocksSame
    <3>5. CountType'
      BY <2>2, <3>1, <1>CountTyped
    <3> QED
      BY <2>0, <3>1, <3>2, <3>3, <3>4, <3>5, <1>CallA, TypesSame DEF OwnPcs
  <2> QED
    BY <2>3, <1>CrashA
\* sys_read and sys_write up to the transfer keep the invariant.
<1>BeginIOA. ASSUME AInv, NEW a \in Users, BeginIO(a)
    PROVE  AInv'
  <2> USE <1>BeginIOA
  <2>0. TypeOK /\ LocalTypes /\ Locals /\ Owners /\ Locks /\ Tables /\ a \in Actors /\ pc[a] = "user"
    BY TypeParts DEF AInv, Actors, BeginIO
  <2>1. CASE ~Crash("lock") /\ ~Crash("vnode")
    <3>1. PICK f \in Fds :
            LET i == fileTable[a][f] IN
            /\ i # NULL /\ of_lock[i] = "free" /\ vn[i] # NULL
            /\ of' = [of EXCEPT ![a] = i] /\ cnt' = [cnt EXCEPT ![a] = offset[i]]
            /\ of_lock' = [of_lock EXCEPT ![i] = a] /\ pc' = [pc EXCEPT ![a] = "rw"]
            /\ UNCHANGED <<fileTable, vn, offset, countRef, vn_refcount, ft_copy_lock, state,
                           parent, fd, v, old, other, fault, raced>>
      BY <2>1 DEF BeginIO, WithLock, WithVnode, Goto
    <3> DEFINE i == fileTable[a][f]
    <3>2. i \in Files
      BY <3>1, FdTyped
    <3> HIDE DEF i
    <3>3. /\ of_lock[i] = "free" /\ vn[i] # NULL
          /\ of' = [of EXCEPT ![a] = i] /\ cnt' = [cnt EXCEPT ![a] = offset[i]]
          /\ of_lock' = [of_lock EXCEPT ![i] = a] /\ pc' = [pc EXCEPT ![a] = "rw"]
          /\ UNCHANGED <<fileTable, vn, offset, countRef, vn_refcount, ft_copy_lock, state,
                         parent, fd, v, old, other, fault, raced>>
      BY <3>1 DEF i
    <3>4. offset[i] \in 0..Max({OffMod, CountMod})
      <4>1. offset[i] \in 0..(OffMod - 1)
        BY <2>0, <3>2 DEF TypeOK
      <4> QED
        BY SMT, <4>1, MaxTyped, Constants
    <3>5. LocalTypes' /\ Alone(a) /\ pc'[a] = "rw" /\ of'[a] = i /\ cnt'[a] = offset[i]
      BY <2>0, <3>2, <3>3, <3>4 DEF LocalTypes, Alone, Pcs
    <3>6. FileTypes'
      BY <2>0, <3>3 DEF FileTypes, TypeOK
    <3>7. DupAt(a)'
      <4>1. old[a] = NULL
        BY <2>0 DEF Tables, Dups, DupAt, DupPcs
      <4> QED
        BY <4>1, <3>3, <3>5 DEF DupAt
    <3>8. Locks'
      <4>1. /\ \A j \in Files \ {i} : of_lock'[j] = of_lock[j] /\ vn'[j] = vn[j] /\ offset'[j] = offset[j]
            /\ of_lock'[i] = a
        BY <2>0, <3>2, <3>3 DEF TypeOK
      <4> QED
        BY <2>0, <3>2, <3>3, <3>5, <4>1, <1>LocksStep
    <3> QED
      BY <2>0, <3>2, <3>3, <3>5, <3>6, <3>7, <3>8, <1>CallA, TypesSame DEF OwnPcs
  <2> QED
    BY <2>1, <1>CrashA
\* The end of a transfer stores the offset, gives of_lock back and keeps the
\* invariant.
<1>EndIOA. ASSUME AInv, NEW a \in Users, EndIO(a)
    PROVE  AInv'
  <2> USE <1>EndIOA
  <2>0. TypeOK /\ Locals /\ Owners /\ Locks /\ Tables /\ a \in Actors /\ pc[a] = "rw"
    BY DEF AInv, Actors, EndIO
  <2>1. of[a] \in Files /\ of_lock[of[a]] = a
    BY <2>0 DEF Locals, FileInHand, Locks, Transfer
  <2>2. PICK n \in 0..1 : cnt[a] + n < OffMod /\ offset' = [offset EXCEPT ![of[a]] = cnt[a] + n]
    BY DEF EndIO
  <2>3. /\ of_lock' = [of_lock EXCEPT ![of[a]] = "free"] /\ Return(a)
        /\ UNCHANGED <<fileTable, vn, countRef, vn_refcount, ft_copy_lock, state, parent, fault, raced>>
    BY DEF EndIO
  <2>4. LocalTypes' /\ Alone(a) /\ pc'[a] = "user" /\ fd'[a] = 0 /\ other' = other /\ DupAt(a)'
    BY <2>0, <2>3, ReturnFacts DEF OwnPcs
  <2>5. FileTypes'
    <3>1. cnt[a] + n \in 0..(OffMod - 1)
      <4>1. cnt[a] \in 0..Max({OffMod, CountMod})
        BY <2>0 DEF TypeOK
      <4> QED
        BY SMT, <2>2, <4>1, MaxTyped, Constants
    <3> QED
      BY <2>0, <2>2, <2>3, <3>1 DEF FileTypes, TypeOK
  <2>6. Locks'
    <3>1. /\ \A j \in Files \ {of[a]} : of_lock'[j] = of_lock[j] /\ vn'[j] = vn[j] /\ offset'[j] = offset[j]
          /\ of_lock'[of[a]] \notin Users
      BY <2>0, <2>1, <2>2, <2>3, Constants DEF TypeOK
    <3> QED
      BY <2>0, <2>1, <2>4, <3>1, <1>LocksStep
  <2> QED
    BY <2>0, <2>3, <2>4, <2>5, <2>6, <1>CallA, TypesSame DEF OwnPcs
\* The sum of a base and a position: when it wraps around it is negative, so that
\* EOVERFLOW is never reached.
<1>SeekTyped. ASSUME NEW base \in 0..(OffMod - 1), NEW pos \in (-OffMod)..(OffMod - 1)
    PROVE  SeekFrom(base, pos) # "EOVERFLOW" /\ (SeekFrom(base, pos) = "ok" => Add(base, pos) \in 0..(OffMod - 1))
  <2> USE <1>SeekTyped
  <2>1. base + pos + OffMod \in 0..(3 * OffMod - 2)
    BY SMT, Constants
  <2>2. CASE base + pos < OffMod
    <3>1. (base + pos + OffMod) % (2 * OffMod) = base + pos + OffMod
      BY SMT, <2>1, <2>2, Constants
    <3>2. Add(base, pos) = base + pos
      BY SMT, <3>1, Constants DEF Add
    <3> QED
      BY SMT, <2>2, <3>2, Constants DEF SeekFrom
  <2>3. CASE base + pos >= OffMod
    <3>1. (base + pos + OffMod) % (2 * OffMod) = base + pos + OffMod - 2 * OffMod
      BY SMT, <2>1, <2>3, Constants
    <3>2. Add(base, pos) = base + pos - 2 * OffMod
      BY SMT, <3>1, Constants DEF Add
    <3>3. Add(base, pos) < 0
      BY SMT, <3>2, <2>3, Constants
    <3> QED
      BY SMT, <3>3 DEF SeekFrom
  <2> QED
    BY SMT, <2>2, <2>3, Constants
\* sys_lseek, with the EOVERFLOW that keeps of_lock, keeps the invariant.
<1>SysLseekA. ASSUME AInv, NEW a \in Users, sys_lseek(a)
    PROVE  AInv'
  <2> USE <1>SysLseekA
  <2>0. TypeOK /\ LocalTypes /\ Locals /\ Owners /\ Locks /\ Tables /\ a \in Actors /\ pc[a] = "user"
    BY TypeParts DEF AInv, Actors, sys_lseek
  <2>1. CASE ~Crash("lock") /\ ~Crash("vnode")
    <3>1. PICK f \in Fds, pos \in (-OffMod)..(OffMod - 1), size \in 0..(OffMod - 1) :
            LET i == fileTable[a][f] IN
            /\ i # NULL
            /\ \E base \in {0, offset[i], size} : WithLock(i, WithVnode(vn[i],
                /\ SeekFrom(base, pos) # "EINVAL"
                /\ offset' = IF SeekFrom(base, pos) = "ok"
                             THEN [offset EXCEPT ![i] = Add(base, pos)] ELSE offset
                /\ of_lock' = IF SeekFrom(base, pos) = "EOVERFLOW"
                              THEN [of_lock EXCEPT ![i] = a] ELSE of_lock
                /\ UNCHANGED <<fileTable, vn, countRef, vn_refcount, ft_copy_lock, state, parent,
                               local_vars, fault, raced>>))
      BY DEF sys_lseek
    <3> DEFINE i == fileTable[a][f]
    <3>2. i \in Files
      BY <3>1, FdTyped
    <3>3. PICK base \in {0, offset[i], size} :
            /\ of_lock[i] = "free"
            /\ offset' = IF SeekFrom(base, pos) = "ok" THEN [offset EXCEPT ![i] = Add(base, pos)] ELSE offset
            /\ of_lock' = IF SeekFrom(base, pos) = "EOVERFLOW" THEN [of_lock EXCEPT ![i] = a] ELSE of_lock
            /\ UNCHANGED <<fileTable, vn, countRef, vn_refcount, ft_copy_lock, state, parent,
                           pc, of, fd, v, old, other, cnt, fault, raced>>
      BY <2>1, <3>1 DEF WithLock, WithVnode, local_vars
    <3> HIDE DEF i
    <3>4. base \in 0..(OffMod - 1)
      <4>1. offset[i] \in 0..(OffMod - 1)
        BY <2>0, <3>2 DEF TypeOK
      <4>2. 0 \in 0..(OffMod - 1)
        BY SMT, Constants
      <4> QED
        BY <4>1, <4>2
    <3>5. /\ of_lock' = of_lock /\ offset' \in [Files -> 0..(OffMod - 1)]
          /\ \A j \in Files \ {i} : offset'[j] = offset[j]
      BY <2>0, <3>3, <3>4, <1>SeekTyped DEF TypeOK
    <3>6. FileTypes'
      BY <2>0, <3>3, <3>5 DEF FileTypes, TypeOK
    <3>7. LocalTypes' /\ Alone(a)
      BY <2>0, <3>3 DEF LocalTypes, Alone
    <3>8. Locks'
      <4>1. of_lock'[i] \notin Users
        BY <3>3, <3>5, Constants
      <4> QED
        BY <2>0, <3>2, <3>3, <3>5, <3>7, <4>1, <1>LocksStep
    <3>9. DupAt(a)' /\ fd'[a] = 0
      <4>1. DupAt(a) /\ fd[a] = 0
        BY <2>0 DEF Tables, Dups, FdZero
      <4> QED
        BY <3>3, <4>1 DEF DupAt
    <3> QED
      BY <2>0, <3>3, <3>6, <3>7, <3>8, <3>9, <1>CallA, TypesSame DEF OwnPcs
  <2> QED
    BY <2>1, <1>CrashA
\* A thread works on the descriptors of the process c that it alone has in hand.
<1>TablesLoop. ASSUME TypeOK, Owners, Tables, NEW a \in Actors, NEW c \in Users, c # a, Alone(a), pc[c] = "none",
           \A b \in Actors \ {a} : other'[b] = other[b] /\ other[b] # c,
           \A p \in Users \ {c} : fileTable'[p] = fileTable[p],
           pc[a] \notin {"std", "u_incr"}, pc'[a] \notin {"std", "u_incr"},
           a \in Users => old'[a] = NULL,
           pc'[a] \in {"none", "menu", "user", "f_end"} => fd'[a] = 0,
           a \in Users => \A f \in Fds :
             /\ pc'[a] = "f_read" /\ f >= fd'[a] => fileTable'[other'[a]][f] = NULL
             /\ pc'[a] = "f_write" /\ f > fd'[a] => fileTable'[other'[a]][f] = NULL,
           a \in Users /\ pc'[a] = "f_write" =>
             fileTable'[a][fd'[a]] # NULL /\ fileTable'[other'[a]][fd'[a]] = fileTable'[a][fd'[a]],
           \A f \in Fds : pc'[a] = "d_fd" /\ f < fd'[a] => fileTable'[other'[a]][f] = NULL,
           NoFiles'
    PROVE  Tables'
  <2> USE <1>TablesLoop
  <2>1. FdZero'
    BY DEF Tables, FdZero, Alone
  <2>2. Dups'
    <3> SUFFICES ASSUME NEW b \in Users PROVE DupAt(b)'
      BY DEF Dups
    <3>1. CASE b = a
      BY <3>1 DEF DupAt
    <3>2. CASE b # a
      <4>1. DupAt(b) /\ pc'[b] = pc[b] /\ fd'[b] = fd[b] /\ old'[b] = old[b]
        BY <3>2 DEF Tables, Dups, Alone, Actors
      <4>2. CASE b = c
        BY <4>1, <4>2 DEF DupAt, DupPcs
      <4>3. CASE b # c
        BY <4>1, <4>3 DEF DupAt
      <4> QED
        BY <4>2, <4>3
    <3> QED
      BY <3>1, <3>2
  <2>3. StdOpens'
    <3> SUFFICES ASSUME NEW p \in Users, NEW f \in Fds, pc'[p] = "std", f >= fd'[p]
                 PROVE  fileTable'[p][f] = NULL
      BY DEF StdOpens
    <3>0. pc'[c] = "none" /\ c \in Actors /\ p \in Actors
      BY DEF Alone, Actors
    <3>1. p # a /\ p # c
      BY <3>0
    <3>2. pc[p] = "std" /\ fd'[p] = fd[p]
      BY <3>0, <3>1 DEF Alone
    <3> QED
      BY <3>1, <3>2 DEF Tables, StdOpens
  <2>4. \A b \in Actors \ {a} : pc[b] \in OwnPcs =>
          other'[b] = other[b] /\ fileTable'[other[b]] = fileTable[other[b]]
    <3> SUFFICES ASSUME NEW b \in Actors \ {a}, pc[b] \in OwnPcs
                 PROVE  other'[b] = other[b] /\ fileTable'[other[b]] = fileTable[other[b]]
      OBVIOUS
    <3>1. other'[b] = other[b] /\ other[b] # c
      OBVIOUS
    <3>2. other[b] # NULL
      BY DEF Owners, Holds
    <3>3. other[b] \in Users \ {c}
      BY <3>1, <3>2 DEF TypeOK
    <3> QED
      BY <3>1, <3>3
  <2>5. \A b \in Users \ {a} : pc[b] \in OwnPcs => fileTable'[b] = fileTable[b]
    BY DEF OwnPcs
  <2>6. Copies'
    <3> SUFFICES ASSUME NEW b \in Users, NEW f \in Fds
                 PROVE  /\ pc'[b] = "f_read" /\ f >= fd'[b] => fileTable'[other'[b]][f] = NULL
                        /\ pc'[b] = "f_write" /\ f > fd'[b] => fileTable'[other'[b]][f] = NULL
      BY DEF Copies
    <3>0. SUFFICES ASSUME b # a, pc'[b] \in {"f_read", "f_write"}
                   PROVE  /\ pc'[b] = "f_read" /\ f >= fd'[b] => fileTable'[other'[b]][f] = NULL
                          /\ pc'[b] = "f_write" /\ f > fd'[b] => fileTable'[other'[b]][f] = NULL
      OBVIOUS
    <3>1. pc[b] = pc'[b] /\ fd'[b] = fd[b] /\ other'[b] = other[b] /\ fileTable'[other[b]] = fileTable[other[b]]
      <4>1. b \in Actors \ {a}
        BY <3>0 DEF Actors
      <4>2. pc[b] = pc'[b] /\ fd'[b] = fd[b]
        BY <4>1 DEF Alone
      <4>3. pc[b] \in OwnPcs
        BY <3>0, <4>2 DEF OwnPcs
      <4> QED
        BY <2>4, <4>1, <4>2, <4>3
    <3>2. /\ pc[b] = "f_read" /\ f >= fd[b] => fileTable[other[b]][f] = NULL
          /\ pc[b] = "f_write" /\ f > fd[b] => fileTable[other[b]][f] = NULL
      BY DEF Tables, Copies
    <3> QED
      BY <3>1, <3>2
  <2>7. Copied'
    <3> SUFFICES ASSUME NEW b \in Users, b # a, pc'[b] = "f_write"
                 PROVE  fileTable'[b][fd'[b]] # NULL /\ fileTable'[other'[b]][fd'[b]] = fileTable'[b][fd'[b]]
      BY DEF Copied
    <3>1. pc[b] = "f_write" /\ fd'[b] = fd[b]
      BY DEF Alone, Actors
    <3>2. other'[b] = other[b] /\ fileTable'[other[b]] = fileTable[other[b]] /\ fileTable'[b] = fileTable[b]
      BY <2>4, <2>5, <3>1 DEF Actors, OwnPcs
    <3> QED
      BY SMT, <3>1, <3>2 DEF Tables, Copied
  <2>8. Destroys'
    <3> SUFFICES ASSUME NEW b \in Actors, NEW f \in Fds, pc'[b] = "d_fd", f < fd'[b]
                 PROVE  fileTable'[other'[b]][f] = NULL
      BY DEF Destroys
    <3>0. SUFFICES ASSUME b # a PROVE fileTable'[other'[b]][f] = NULL
      OBVIOUS
    <3>1. pc[b] = "d_fd" /\ fd'[b] = fd[b]
      BY <3>0 DEF Alone
    <3>2. other'[b] = other[b] /\ fileTable'[other[b]] = fileTable[other[b]]
      BY <2>4, <3>0, <3>1 DEF OwnPcs
    <3>3. fileTable[other[b]][f] = NULL
      BY <3>1 DEF Tables, Destroys
    <3> QED
      BY <3>2, <3>3
  <2> QED
    BY <2>1, <2>2, <2>3, <2>6, <2>7, <2>8 DEF Tables
\* The same for the menu's locals.
<1>LocalsMenu. ASSUME Locals, NEW a \in Actors, Alone(a), a = Menu => pc'[a] \in {"menu", "none", "d_fd"},
           pc'[a] \notin {"o_slot", "o_fd", "c_lock", "c_rel", "c_vfs", "c_destroy", "rw"}
    PROVE  Locals'
  <2> USE <1>LocalsMenu
  <2>1. FileInHand'
    BY DEF Locals, FileInHand, Alone, Actors
  <2>2. VnodeInHand'
    BY DEF Locals, VnodeInHand, Alone, Actors
  <2>3. MenuPcs'
    BY DEF Locals, MenuPcs, Alone, Actors
  <2> QED
    BY <2>1, <2>2, <2>3 DEF Locals
\* A thread takes a process in hand that nobody has.
<1>OwnersTake. ASSUME TypeOK, Owners, NEW a \in Actors, Alone(a), UNCHANGED <<state, parent>>,
           NEW c \in Users, other' = [other EXCEPT ![a] = c], \A b \in Actors : other[b] # c,
           state[c] # "running", state[c] = "zombie" => parent[c] = a,
           a \in Users => pc[a] # "none" /\ pc'[a] # "none", pc'[a] \in OwnPcs
    PROVE  Owners'
  <2> USE <1>OwnersTake
  <2>1. other'[a] = c /\ \A b \in Actors \ {a} : other'[b] = other[b]
    BY DEF TypeOK
  <2>2. Runs'
    BY DEF Owners, Runs, Alone, Actors
  <2>3. Holds'
    <3> SUFFICES ASSUME NEW b \in Actors PROVE other'[b] # NULL <=> pc'[b] \in OwnPcs
      BY DEF Holds
    <3>1. CASE b = a
      BY <2>1, <3>1, Constants
    <3>2. CASE b # a
      BY <2>1, <3>2 DEF Owners, Holds, Alone
    <3> QED
      BY <3>1, <3>2
  <2>4. HeldOnce'
    <3> SUFFICES ASSUME NEW b \in Actors, NEW d \in Actors, other'[b] # NULL, other'[b] = other'[d], b # d
                 PROVE  FALSE
      BY DEF HeldOnce
    <3>1. b # a /\ d # a
      BY <2>1
    <3>2. other[b] # NULL /\ other[b] = other[d]
      BY <2>1, <3>1
    <3> QED
      BY <3>2 DEF Owners, HeldOnce
  <2>5. HeldEnded'
    <3> SUFFICES ASSUME NEW b \in Actors, other'[b] # NULL
                 PROVE  state[other'[b]] # "running" /\ (state[other'[b]] = "zombie" => parent[other'[b]] = b)
      BY DEF HeldEnded
    <3>1. CASE b = a
      BY <2>1, <3>1
    <3>2. CASE b # a
      BY <2>1, <3>2 DEF Owners, HeldEnded
    <3> QED
      BY <3>1, <3>2
  <2> QED
    BY <2>2, <2>3, <2>4, <2>5 DEF Owners
\* sys_fork up to proc_file_table_copy keeps the invariant.
<1>SysForkA. ASSUME AInv, NEW a \in Users, sys_fork(a)
    PROVE  AInv'
  <2> USE <1>SysForkA
  <2>0. TypeOK /\ LocalTypes /\ Locals /\ Owners /\ Locks /\ Tables /\ a \in Actors /\ pc[a] = "user"
    BY TypeParts DEF AInv, Actors, sys_fork
  <2>1. PICK c \in Users : /\ state[c] = "none" /\ pc[c] = "none" /\ \A b \in Actors : other[b] # c
                           /\ other' = [other EXCEPT ![a] = c]
    BY DEF sys_fork
  <2>2. /\ ft_copy_lock' = a /\ pc' = [pc EXCEPT ![a] = "f_read"]
        /\ UNCHANGED <<fileTable, file_vars, vn_refcount, state, parent, of, fd, v, old, cnt, fault, raced>>
    BY DEF sys_fork, Goto
  <2>3. LocalTypes' /\ Alone(a) /\ pc'[a] = "f_read" /\ fd'[a] = 0
    BY <2>0, <2>2 DEF LocalTypes, Alone, Pcs, Tables, FdZero
  <2>4. other'[a] = c /\ \A b \in Actors \ {a} : other'[b] = other[b]
    BY <2>0, <2>1 DEF TypeOK
  <2>5. Owners'
    BY <2>0, <2>1, <2>2, <2>3, <1>OwnersTake DEF OwnPcs
  <2>6. old'[a] = NULL /\ c # a
    BY <2>0, <2>1, <2>2 DEF Tables, Dups, DupAt, DupPcs
  <2>7. \A f \in Fds : fileTable'[c][f] = NULL
    BY <2>0, <2>1, <2>2 DEF Tables, NoFiles
  <2>8. NoFiles'
    <3>1. other[a] = NULL
      BY <2>0 DEF Owners, Holds, OwnPcs
    <3> SUFFICES ASSUME NEW p \in Users, NEW f \in Fds, state[p] = "none", \A b \in Actors : other'[b] # p
                 PROVE  fileTable[p][f] = NULL
      BY <2>2 DEF NoFiles
    <3>2. \A b \in Actors : other[b] # p
      BY <2>4, <3>1, Constants
    <3> QED
      BY <2>0, <3>2 DEF Tables, NoFiles
  <2>9. Tables'
    BY <2>0, <2>1, <2>2, <2>3, <2>4, <2>6, <2>7, <2>8, <1>TablesLoop
  <2>10. Locals' /\ Locks'
    BY <2>0, <2>2, <2>3, <1>LocalsMenu, <1>LocksSame, Constants DEF file_vars
  <2>11. TypeOK'
    <3>1. OtherTypes' /\ FlagTypes'
      BY <2>0, <2>1, <2>2 DEF OtherTypes, FlagTypes, TypeOK
    <3> QED
      BY <2>2, <2>3, <3>1, TypesSame, <1>TypePartsNext
  <2> QED
    BY <2>5, <2>9, <2>10, <2>11 DEF AInv
\* Nobody but its holder sees the descriptors of a process in hand.
<1>NoFilesHeld. ASSUME AInv, NEW a \in Actors, NEW c \in Users, other[a] = c, UNCHANGED <<other, state>>,
           \A p \in Users \ {c} : fileTable'[p] = fileTable[p]
    PROVE  NoFiles'
  <2> USE <1>NoFilesHeld
  <2> SUFFICES ASSUME NEW p \in Users, NEW f \in Fds, state[p] = "none", \A b \in Actors : other[b] # p
               PROVE  fileTable'[p][f] = NULL
    BY DEF NoFiles
  <2>1. p # c /\ fileTable'[p] = fileTable[p]
    OBVIOUS
  <2>2. fileTable[p][f] = NULL
    BY DEF AInv, Tables, NoFiles
  <2> QED
    BY <2>1, <2>2
\* What a step of fork's loop leaves to show.
<1>ForkA. ASSUME AInv, NEW a \in Users, pc[a] \in {"f_read", "f_write", "f_end"}, LocalTypes', Alone(a),
           pc'[a] \in OwnPcs, UNCHANGED <<other, state, parent, of_lock, vn, offset>>,
           FileTypes', CountType', FlagTypes', TableType',
           old' = old, pc'[a] = "f_end" => fd'[a] = 0,
           \A p \in Users \ {other[a]} : fileTable'[p] = fileTable[p],
           \A f \in Fds :
             /\ pc'[a] = "f_read" /\ f >= fd'[a] => fileTable'[other[a]][f] = NULL
             /\ pc'[a] = "f_write" /\ f > fd'[a] => fileTable'[other[a]][f] = NULL
             /\ pc'[a] = "d_fd" /\ f < fd'[a] => fileTable'[other[a]][f] = NULL,
           pc'[a] = "f_write" =>
             fileTable'[a][fd'[a]] # NULL /\ fileTable'[other[a]][fd'[a]] = fileTable'[a][fd'[a]]
    PROVE  AInv'
  <2> USE <1>ForkA
  <2>0. TypeOK /\ Locals /\ Owners /\ Locks /\ Tables /\ a \in Actors /\ pc[a] \in OwnPcs
    BY DEF AInv, Actors, OwnPcs
  <2>1. /\ other[a] \in Users /\ other[a] # a /\ pc[other[a]] = "none"
        /\ \A b \in Actors \ {a} : other[b] # other[a]
    BY <2>0, LoopOwner
  <2>2. old'[a] = NULL
    BY <2>0 DEF Tables, Dups, DupAt, DupPcs
  <2>3. NoFiles'
    BY <2>0, <2>1, <1>NoFilesHeld
  <2>4. pc'[a] \notin {"std", "u_incr", "none", "menu", "user", "rw"}
    BY DEF OwnPcs
  <2>5. Tables'
    <3>1. \A b \in Actors \ {a} : other'[b] = other[b] /\ other[b] # other[a]
      BY <2>1
    <3> QED
      BY <2>0, <2>1, <2>2, <2>3, <2>4, <3>1, <1>TablesLoop
  <2>6. Locks'
    BY <2>0, <2>4, <1>LocksSame
  <2>7. Locals'
    BY <2>0, <1>LocalsMenu, Constants DEF OwnPcs
  <2>8. Owners'
    BY <2>0, <2>4, <1>OwnersStep
  <2>9. TypeOK'
    <3>1. OtherTypes'
      BY <2>0 DEF OtherTypes, TypeOK
    <3> QED
      BY <3>1, <1>TypePartsNext
  <2> QED
    BY <2>5, <2>6, <2>7, <2>8, <2>9 DEF AInv
\* The copy of one descriptor by proc_file_table_copy, with VOP_INCREF and the
\* load of countRef, keeps the invariant.
<1>CopyReadA. ASSUME AInv, NEW a \in Users, CopyRead(a)
    PROVE  AInv'
  <2> USE <1>CopyReadA
  <2>0. TypeOK /\ LocalTypes /\ Tables /\ a \in Actors /\ pc[a] = "f_read"
    BY TypeParts DEF AInv, Actors, CopyRead
  <2> DEFINE c == other[a]
             g == fd[a]
             i == fileTable[a][g]
  <2>1. c \in Users /\ c # a /\ g \in Fds
    BY <2>0, LoopOwner DEF OwnPcs, TypeOK
  <2>2. i \in Files \cup {NULL}
    BY <2>1, FdTyped
  <2>3. \A f \in Fds : f >= g => fileTable[c][f] = NULL
    BY <2>0 DEF Tables, Copies
  <2>4. CASE i = NULL
    <3>1. /\ NextFd(a)
          /\ UNCHANGED <<fileTable, file_vars, vn_refcount, state, parent, of, v, old, other, cnt, fault, raced>>
      BY <2>4 DEF CopyRead
    <3>2. /\ LocalTypes' /\ Alone(a) /\ pc'[a] \in {"f_read", "f_end"} /\ (pc'[a] = "f_end" => fd'[a] = 0)
          /\ (pc'[a] = "f_read" => fd'[a] = g + 1) /\ ft_copy_lock' \in Users \cup {NULL}
      BY <2>0, <3>1, NextFdFacts
    <3>3. FileTypes' /\ TableType' /\ CountType' /\ FlagTypes'
      <4>1. FlagTypes'
        BY <2>0, <3>1, <3>2 DEF FlagTypes, TypeOK
      <4> QED
        BY <3>1, <4>1, TypesSame
    <3>4. \A f \in Fds : pc'[a] = "f_read" /\ f >= fd'[a] => fileTable'[c][f] = NULL
      <4> SUFFICES ASSUME NEW f \in Fds, pc'[a] = "f_read", f >= fd'[a] PROVE fileTable[c][f] = NULL
        BY <3>1
      <4>1. f >= g
        BY SMT, <2>1, <3>2, Constants
      <4> QED
        BY <2>3, <4>1
    <3> QED
      BY <2>0, <3>1, <3>2, <3>3, <3>4, <1>ForkA DEF OwnPcs, file_vars
  <2>5. CASE i # NULL /\ ~Crash("vnode")
    <3>1. vn[i] \in Vnodes \cup {NULL} /\ i \in Files
      BY <2>0, <2>2, <2>5 DEF TypeOK
    <3>2. /\ vn[i] # NULL /\ vn_refcount[vn[i]] < MaxRefs
          /\ fileTable' = [fileTable EXCEPT ![c][g] = i] /\ vnode_incref(vn[i])
          /\ cnt' = [cnt EXCEPT ![a] = countRef[i]] /\ pc' = [pc EXCEPT ![a] = "f_write"]
          /\ UNCHANGED <<file_vars, ft_copy_lock, state, parent, of, fd, v, old, other, fault, raced>>
      BY <2>5 DEF CopyRead, WithVnode, Goto
    <3> HIDE DEF c, g, i
    <3>3. FdSet(c, g, i)
      BY <2>1, <2>2, <3>2, SetFd
    <3>4. countRef[i] \in 0..Max({OffMod, CountMod})
      <4>1. countRef[i] \in 0..(CountMod - 1)
        BY <2>0, <3>1 DEF TypeOK
      <4> QED
        BY SMT, <4>1, MaxTyped, Constants
    <3>5. LocalTypes' /\ Alone(a) /\ pc'[a] = "f_write" /\ fd'[a] = g
      BY <2>0, <3>2, <3>4 DEF LocalTypes, Alone, Pcs, g
    <3>6. FileTypes' /\ TableType' /\ CountType' /\ FlagTypes'
      BY <3>1, <3>2, <3>3, TypesSame, <1>CountTyped DEF FdSet
    <3>7. fileTable'[c][g] = i /\ fileTable'[a][g] = i
      BY <2>1, <3>3 DEF FdSet, i
    <3>8. ASSUME NEW f \in Fds, f > g PROVE fileTable'[c][f] = NULL
      <4>1. f >= g /\ f # g
        BY SMT, <2>1, <3>8, Constants
      <4> QED
        BY <2>3, <3>3, <4>1 DEF FdSet
    <3>9. \A p \in Users \ {c} : fileTable'[p] = fileTable[p]
      BY <3>3 DEF FdSet
    <3> QED
      BY <2>0, <2>5, <3>2, <3>5, <3>6, <3>7, <3>8, <3>9, <1>ForkA DEF OwnPcs, file_vars, c
  <2> QED
    BY <2>4, <2>5, <1>CrashA
\* The store of countRef++ in proc_file_table_copy keeps the invariant.
<1>CopyWriteA. ASSUME AInv, NEW a \in Users, CopyWrite(a)
    PROVE  AInv'
  <2> USE <1>CopyWriteA
  <2>0. TypeOK /\ Tables /\ a \in Actors /\ pc[a] = "f_write"
    BY DEF AInv, Actors, CopyWrite
  <2> DEFINE c == other[a]
             g == fd[a]
             i == fileTable[a][g]
  <2>1. /\ countRef' = [countRef EXCEPT ![i] = (cnt[a] + 1) % CountMod]
        /\ raced' = (raced \/ countRef[i] # cnt[a]) /\ NextFd(a) /\ cnt' = [cnt EXCEPT ![a] = 0]
        /\ UNCHANGED <<fileTable, vn, offset, of_lock, vn_refcount, state, parent, of, v, old, other, fault>>
    BY DEF CopyWrite
  <2>2. g \in Fds
    BY <2>0 DEF TypeOK
  <2>3. /\ LocalTypes' /\ Alone(a) /\ pc'[a] \in {"f_read", "f_end"} /\ (pc'[a] = "f_end" => fd'[a] = 0)
        /\ (pc'[a] = "f_read" => fd'[a] = g + 1) /\ ft_copy_lock' \in Users \cup {NULL}
    BY <2>0, <2>1, NextFdFacts
  <2>4. \A f \in Fds : f > g => fileTable[c][f] = NULL
    BY <2>0 DEF Tables, Copies
  <2>5. \A f \in Fds : pc'[a] = "f_read" /\ f >= fd'[a] => fileTable'[c][f] = NULL
    <3> SUFFICES ASSUME NEW f \in Fds, pc'[a] = "f_read", f >= fd'[a] PROVE fileTable[c][f] = NULL
      BY <2>1
    <3>1. f > g
      BY SMT, <2>2, <2>3, Constants
    <3> QED
      BY <2>4, <3>1
  <2>6. FileTypes' /\ TableType' /\ CountType' /\ FlagTypes'
    <3>1. (cnt[a] + 1) % CountMod \in 0..(CountMod - 1)
      <4>1. cnt[a] \in 0..Max({OffMod, CountMod})
        BY <2>0 DEF TypeOK
      <4> QED
        BY SMT, <4>1, MaxTyped, Constants
    <3>2. FileTypes'
      BY <2>0, <2>1, <3>1 DEF FileTypes, TypeOK
    <3>3. FlagTypes'
      BY <2>0, <2>1, <2>3 DEF FlagTypes, TypeOK
    <3> QED
      BY <2>1, <3>2, <3>3, TypesSame
  <2> QED
    BY <2>0, <2>1, <2>3, <2>5, <2>6, <1>ForkA DEF OwnPcs
\* The end of sys_fork, where the child runs or is destroyed, keeps the
\* invariant.
<1>ForkEndA. ASSUME AInv, NEW a \in Users, ForkEnd(a)
    PROVE  AInv'
  <2> USE <1>ForkEndA
  <2>0. /\ TypeOK /\ LocalTypes /\ Locals /\ Owners /\ Locks /\ Tables /\ a \in Actors
        /\ pc[a] = "f_end" /\ fd[a] = 0
    BY TypeParts DEF AInv, Actors, ForkEnd, Tables, FdZero
  <2>1. UNCHANGED <<fileTable, file_vars, vn_refcount, ft_copy_lock, of, fd, v, old, cnt, fault, raced>>
    BY DEF ForkEnd
  <2>2. CASE Goto(a, "d_fd") /\ UNCHANGED <<state, parent, other>>
    <3>1. LocalTypes' /\ Alone(a) /\ pc'[a] = "d_fd" /\ fd'[a] = 0
      BY <2>0, <2>1, <2>2 DEF LocalTypes, Alone, Pcs, Goto
    <3>2. \A f \in Fds : ~(f < 0)
      BY SMT, Constants
    <3> QED
      BY <2>0, <2>1, <2>2, <3>1, <3>2, TypesSame, <1>ForkA DEF OwnPcs, file_vars
  <2>3. CASE ~(Goto(a, "d_fd") /\ UNCHANGED <<state, parent, other>>)
    <3> DEFINE c == other[a]
    <3>1. /\ c \in Users /\ c # a /\ pc[c] = "none" /\ \A b \in Actors \ {a} : other[b] # c
          /\ c \in Actors /\ fd[c] = 0
      BY <2>0, LoopOwner DEF OwnPcs, Actors, Tables, FdZero
    <3>2. /\ state' = [state EXCEPT ![c] = "running"] /\ parent' = [parent EXCEPT ![c] = a]
          /\ pc' = [pc EXCEPT ![a] = "user", ![c] = "user"] /\ other' = [other EXCEPT ![a] = NULL]
      BY <2>3 DEF ForkEnd
    <3> HIDE DEF c
    <3>3. /\ state'[c] = "running" /\ parent'[c] = a /\ pc'[a] = "user" /\ pc'[c] = "user" /\ other'[a] = NULL
          /\ \A p \in Users \ {c} : state'[p] = state[p] /\ parent'[p] = parent[p]
          /\ \A b \in Actors \ {a, c} : pc'[b] = pc[b]
          /\ \A b \in Actors \ {a} : other'[b] = other[b]
      BY <2>0, <3>1, <3>2 DEF TypeOK
    <3>4. TypeOK'
      <4>1. LocalTypes'
        BY <2>0, <2>1, <3>2 DEF LocalTypes, Pcs
      <4>2. OtherTypes'
        BY <2>0, <3>2 DEF OtherTypes, TypeOK
      <4> QED
        BY <2>1, <4>1, <4>2, TypesSame, <1>TypePartsNext
    <3>5. Locals'
      <4>1. FileInHand'
        BY <2>0, <2>1, <3>3 DEF Locals, FileInHand, Actors
      <4>2. VnodeInHand'
        BY <2>0, <2>1, <3>3 DEF Locals, VnodeInHand, Actors
      <4>3. MenuPcs'
        BY <2>0, <3>1, <3>3, Constants DEF Locals, MenuPcs, Actors
      <4> QED
        BY <4>1, <4>2, <4>3 DEF Locals
    <3>6. Owners'
      <4>1. Runs'
        BY <2>0, <3>1, <3>3 DEF Owners, Runs, Actors
      <4>2. Holds'
        <5> SUFFICES ASSUME NEW b \in Actors PROVE other'[b] # NULL <=> pc'[b] \in OwnPcs
          BY DEF Holds
        <5>1. CASE b = a
          BY <3>3, <5>1 DEF OwnPcs
        <5>2. CASE b = c
          <6>1. other[c] = NULL
            BY <2>0, <3>1 DEF Owners, Holds, OwnPcs
          <6> QED
            BY <3>1, <3>3, <5>2, <6>1 DEF OwnPcs
        <5>3. CASE b # a /\ b # c
          BY <2>0, <3>3, <5>3 DEF Owners, Holds
        <5> QED
          BY <5>1, <5>2, <5>3
      <4>3. HeldOnce'
        <5> SUFFICES ASSUME NEW b \in Actors, NEW d \in Actors, other'[b] # NULL, other'[b] = other'[d]
                     PROVE  b = d
          BY DEF HeldOnce
        <5>1. b # a /\ d # a
          BY <3>3
        <5>2. other[b] # NULL /\ other[b] = other[d]
          BY <3>3, <5>1
        <5> QED
          BY <2>0, <5>2 DEF Owners, HeldOnce
      <4>4. HeldEnded'
        <5> SUFFICES ASSUME NEW b \in Actors, other'[b] # NULL
                     PROVE  /\ state'[other'[b]] # "running"
                            /\ state'[other'[b]] = "zombie" => parent'[other'[b]] = b
          BY DEF HeldEnded
        <5>1. b # a /\ other'[b] = other[b]
          BY <3>3
        <5>2. other[b] # NULL /\ other[b] # c
          BY <3>1, <5>1
        <5>3. other[b] \in Users
          BY <2>0, <5>2 DEF TypeOK
        <5>4. state'[other[b]] = state[other[b]] /\ parent'[other[b]] = parent[other[b]]
          BY <3>3, <5>2, <5>3
        <5>5. state[other[b]] # "running" /\ (state[other[b]] = "zombie" => parent[other[b]] = b)
          BY <2>0, <5>2 DEF Owners, HeldEnded
        <5> QED
          BY <5>1, <5>4, <5>5
      <4> QED
        BY <4>1, <4>2, <4>3, <4>4 DEF Owners
    <3>7. Locks'
      <4>1. \A b \in Users : pc[b] \in {"rw", "c_rel"} => pc'[b] = pc[b]
        BY <2>0, <3>1, <3>3 DEF Actors
      <4>2. \A b \in Users : pc'[b] = "rw" => pc[b] = "rw"
        BY <3>3 DEF Actors
      <4>3. UNCHANGED <<of_lock, vn, offset, of, cnt>>
        BY <2>1 DEF file_vars
      <4>4. LockReturned'
        BY <2>0, <4>1, <4>3 DEF Locks, LockReturned
      <4>5. Transfer'
        BY <2>0, <4>2, <4>3 DEF Locks, Transfer
      <4> QED
        BY <4>4, <4>5 DEF Locks
    <3>8. Tables'
      <4>0. \A b \in Actors : pc'[b] \notin {"user"} => pc'[b] = pc[b] /\ other'[b] = other[b]
        BY <3>1, <3>3
      <4>1. FdZero'
        <5> SUFFICES ASSUME NEW b \in Actors, pc'[b] \in {"none", "menu", "user", "f_end"} PROVE fd[b] = 0
          BY <2>1 DEF FdZero
        <5>1. CASE b \in {a, c}
          BY <2>0, <3>1, <5>1
        <5>2. CASE b \notin {a, c}
          BY <2>0, <3>3, <5>2 DEF Tables, FdZero
        <5> QED
          BY <5>1, <5>2
      <4>2. Dups'
        <5> SUFFICES ASSUME NEW b \in Users PROVE DupAt(b)'
          BY DEF Dups
        <5>1. DupAt(b) /\ old'[b] = old[b] /\ fd'[b] = fd[b] /\ fileTable'[b] = fileTable[b]
          BY <2>0, <2>1 DEF Tables, Dups
        <5>2. CASE b \in {a, c}
          <6>1. old[b] = NULL /\ pc'[b] = "user"
            BY <2>0, <3>1, <3>3, <5>1, <5>2 DEF DupAt, DupPcs
          <6> QED
            BY <5>1, <6>1 DEF DupAt
        <5>3. CASE b \notin {a, c}
          <6>1. pc'[b] = pc[b]
            BY <3>3, <5>3 DEF Actors
          <6> QED
            BY <5>1, <6>1 DEF DupAt
        <5> QED
          BY <5>2, <5>3
      <4>3. NoFiles'
        <5> SUFFICES ASSUME NEW p \in Users, NEW f \in Fds, state'[p] = "none", \A b \in Actors : other'[b] # p
                     PROVE  fileTable[p][f] = NULL
          BY <2>1 DEF NoFiles
        <5>1. p # c /\ state[p] = "none"
          BY <3>3
        <5>2. \A b \in Actors : other[b] # p
          BY <3>3, <5>1 DEF c
        <5> QED
          BY <2>0, <5>1, <5>2 DEF Tables, NoFiles
      <4>4. StdOpens'
        BY <2>0, <2>1, <4>0 DEF Tables, StdOpens, Actors
      <4>5. Copies'
        BY SMT, <2>0, <2>1, <4>0 DEF Tables, Copies, Actors
      <4>6. Copied'
        BY SMT, <2>0, <2>1, <4>0 DEF Tables, Copied, Actors
      <4>7. Destroys'
        BY SMT, <2>0, <2>1, <4>0 DEF Tables, Destroys, Actors
      <4> QED
        BY <4>1, <4>2, <4>3, <4>4, <4>5, <4>6, <4>7 DEF Tables
    <3> QED
      BY <3>4, <3>5, <3>6, <3>7, <3>8 DEF AInv
  <2> QED
    BY <2>2, <2>3
\* The menu starts a program.
<1>CommonProgA. ASSUME AInv, common_prog
    PROVE  AInv'
  <2> USE <1>CommonProgA
  <2>0. TypeOK /\ LocalTypes /\ Locals /\ Owners /\ Locks /\ Tables /\ Menu \in Actors /\ pc[Menu] = "menu"
    BY TypeParts DEF AInv, Actors, common_prog
  <2>1. PICK p \in Users : /\ state[p] = "none" /\ pc[p] = "none" /\ \A b \in Actors : other[b] # p
                           /\ state' = [state EXCEPT ![p] = "running"]
                           /\ parent' = [parent EXCEPT ![p] = Menu]
                           /\ pc' = [pc EXCEPT ![p] = "std", ![Menu] = "none"]
    BY DEF common_prog
  <2>2. UNCHANGED <<fileTable, file_vars, vn_refcount, ft_copy_lock, of, fd, v, old, other, cnt, fault, raced>>
    BY DEF common_prog
  <2>3. p # Menu /\ p \in Actors
    BY Constants DEF Actors
  <2>4. /\ state'[p] = "running" /\ \A q \in Users \ {p} : state'[q] = state[q] /\ parent'[q] = parent[q]
        /\ pc'[p] = "std" /\ pc'[Menu] = "none"
        /\ \A b \in Actors \ {p, Menu} : pc'[b] = pc[b]
    BY <2>0, <2>1, <2>3 DEF TypeOK
  <2>5. \A b \in Users \ {p} : pc'[b] = pc[b]
    BY <2>4, Constants DEF Actors
  <2>6. TypeOK'
    <3>1. LocalTypes'
      BY <2>0, <2>1, <2>2 DEF LocalTypes, Pcs
    <3>2. OtherTypes'
      BY <2>0, <2>1, <2>2 DEF OtherTypes, TypeOK
    <3> QED
      BY <2>2, <3>1, <3>2, TypesSame, <1>TypePartsNext
  <2>7. Locals'
    <3>1. FileInHand'
      BY <2>0, <2>2, <2>4, <2>5 DEF Locals, FileInHand
    <3>2. VnodeInHand'
      BY <2>0, <2>2, <2>4, <2>5 DEF Locals, VnodeInHand
    <3> QED
      BY <2>4, <3>1, <3>2 DEF Locals, MenuPcs
  <2>8. Owners'
    <3>1. Runs'
      BY <2>0, <2>4, <2>5 DEF Owners, Runs
    <3>2. Holds'
      <4> SUFFICES ASSUME NEW b \in Actors PROVE other[b] # NULL <=> pc'[b] \in OwnPcs
        BY <2>2 DEF Holds
      <4>1. CASE b \in {p, Menu}
        <5>1. other[b] = NULL
          BY <2>0, <2>1, <4>1 DEF Owners, Holds, OwnPcs
        <5> QED
          BY <2>4, <4>1, <5>1 DEF OwnPcs
      <4>2. CASE b \notin {p, Menu}
        BY <2>0, <2>4, <4>2 DEF Owners, Holds
      <4> QED
        BY <4>1, <4>2
    <3>3. HeldOnce'
      BY <2>0, <2>2 DEF Owners, HeldOnce
    <3>4. HeldEnded'
      <4> SUFFICES ASSUME NEW b \in Actors, other[b] # NULL
                   PROVE  state'[other[b]] # "running" /\ (state'[other[b]] = "zombie" => parent'[other[b]] = b)
        BY <2>2 DEF HeldEnded
      <4>1. other[b] \in Users \ {p}
        BY <2>0, <2>1 DEF TypeOK
      <4> QED
        BY <2>0, <2>4, <4>1 DEF Owners, HeldEnded
    <3> QED
      BY <3>1, <3>2, <3>3, <3>4 DEF Owners
  <2>9. Locks'
    <3>1. \A b \in Users : pc[b] \in {"rw", "c_rel"} => pc'[b] = pc[b]
      BY <2>1, <2>5
    <3>2. \A b \in Users : pc'[b] = "rw" => pc[b] = "rw"
      BY <2>4, <2>5
    <3>3. UNCHANGED <<of_lock, vn, offset, of, cnt>>
      BY <2>2 DEF file_vars
    <3>4. LockReturned'
      BY <2>0, <3>1, <3>3 DEF Locks, LockReturned
    <3>5. Transfer'
      BY <2>0, <3>2, <3>3 DEF Locks, Transfer
    <3> QED
      BY <3>4, <3>5 DEF Locks
  <2>10. Tables'
    <3>0. \A b \in Actors : pc'[b] \notin {"std", "none"} => pc'[b] = pc[b]
      BY <2>3, <2>4
    <3>1. FdZero'
      <4> SUFFICES ASSUME NEW b \in Actors, pc'[b] \in {"none", "menu", "user", "f_end"} PROVE fd[b] = 0
        BY <2>2 DEF FdZero
      <4>1. CASE b = Menu
        BY <2>0, <4>1 DEF Tables, FdZero
      <4>2. CASE b # Menu
        <5>1. pc'[b] = pc[b]
          BY <2>4, <4>2
        <5> QED
          BY <2>0, <5>1 DEF Tables, FdZero
      <4> QED
        BY <4>1, <4>2
    <3>2. Dups'
      <4> SUFFICES ASSUME NEW b \in Users PROVE DupAt(b)'
        BY DEF Dups
      <4>1. DupAt(b) /\ old'[b] = old[b] /\ fd'[b] = fd[b] /\ fileTable'[b] = fileTable[b]
        BY <2>0, <2>2 DEF Tables, Dups
      <4>2. CASE b = p
        <5>1. old[b] = NULL /\ pc'[b] = "std"
          BY <2>1, <2>4, <4>1, <4>2 DEF DupAt, DupPcs
        <5> QED
          BY <4>1, <5>1 DEF DupAt
      <4>3. CASE b # p
        <5>1. pc'[b] = pc[b]
          BY <2>5, <4>3
        <5> QED
          BY <4>1, <5>1 DEF DupAt
      <4> QED
        BY <4>2, <4>3
    <3>3. NoFiles'
      <4> SUFFICES ASSUME NEW q \in Users, NEW f \in Fds, state'[q] = "none", \A b \in Actors : other[b] # q
                   PROVE  fileTable[q][f] = NULL
        BY <2>2 DEF NoFiles
      <4>1. state[q] = "none"
        BY <2>4
      <4> QED
        BY <2>0, <4>1 DEF Tables, NoFiles
    <3>4. StdOpens'
      <4> SUFFICES ASSUME NEW q \in Users, NEW f \in Fds, pc'[q] = "std", f >= fd[q]
                   PROVE  fileTable[q][f] = NULL
        BY <2>2 DEF StdOpens
      <4>1. CASE q = p
        BY <2>0, <2>1, <4>1 DEF Tables, NoFiles
      <4>2. CASE q # p
        BY <2>0, <2>5, <4>2 DEF Tables, StdOpens
      <4> QED
        BY <4>1, <4>2
    <3>5. Copies'
      BY SMT, <2>0, <2>2, <3>0 DEF Tables, Copies, Actors
    <3>6. Copied'
      BY SMT, <2>0, <2>2, <3>0 DEF Tables, Copied, Actors
    <3>7. Destroys'
      BY SMT, <2>0, <2>2, <3>0 DEF Tables, Destroys, Actors
    <3> QED
      BY <3>1, <3>2, <3>3, <3>4, <3>5, <3>6, <3>7 DEF Tables
  <2> QED
    BY <2>6, <2>7, <2>8, <2>9, <2>10 DEF AInv
\* A process ends: its children lose their parent, its descriptors stay.
<1>DieA. ASSUME AInv, NEW a \in Users, pc[a] \in {"user", "std"}, Die(a), fd' = [fd EXCEPT ![a] = 0],
           UNCHANGED <<fileTable, file_vars, vn_refcount, ft_copy_lock, of, v, old, other, cnt, fault, raced>>
    PROVE  AInv'
  <2> USE <1>DieA
  <2>0. TypeOK /\ LocalTypes /\ Locals /\ Owners /\ Locks /\ Tables /\ a \in Actors
    BY TypeParts DEF AInv, Actors
  <2>1. /\ state' = [state EXCEPT ![a] = "zombie"]
        /\ parent' = [p \in Users |-> IF parent[p] = a THEN NULL ELSE parent[p]]
        /\ pc' = [pc EXCEPT ![a] = "none"]
    BY DEF Die, Goto
  <2>2. LocalTypes' /\ Alone(a) /\ pc'[a] = "none" /\ fd'[a] = 0
    BY <2>0, <2>1, Constants DEF LocalTypes, Alone, Pcs
  <2>3. state'[a] = "zombie" /\ \A p \in Users \ {a} : state'[p] = state[p]
    BY <2>0, <2>1 DEF TypeOK
  <2>4. other[a] = NULL /\ \A b \in Actors : other[b] # a
    BY <2>0, RunsAlone DEF Owners, Holds, OwnPcs
  <2>5. TypeOK'
    <3>1. OtherTypes'
      BY <2>0, <2>1 DEF OtherTypes, TypeOK
    <3> QED
      BY <2>2, <3>1, TypesSame, <1>TypePartsNext
  <2>6. Locals'
    BY <2>0, <2>2, <1>LocalsStep
  <2>7. Owners'
    <3>1. Runs'
      BY <2>0, <2>2, <2>3 DEF Owners, Runs, Alone, Actors
    <3>2. Holds'
      BY <2>0, <2>2, <2>4 DEF Owners, Holds, Alone, OwnPcs
    <3>3. HeldOnce'
      BY <2>0 DEF Owners, HeldOnce
    <3>4. HeldEnded'
      <4> SUFFICES ASSUME NEW b \in Actors, other[b] # NULL
                   PROVE  state'[other[b]] # "running" /\ (state'[other[b]] = "zombie" => parent'[other[b]] = b)
        BY DEF HeldEnded
      <4>1. other[b] \in Users \ {a} /\ b # a
        BY <2>0, <2>4 DEF TypeOK
      <4>2. /\ state[other[b]] # "running" /\ (state[other[b]] = "zombie" => parent[other[b]] = b)
            /\ state'[other[b]] = state[other[b]]
        BY <2>0, <2>3, <4>1 DEF Owners, HeldEnded
      <4>3. parent[other[b]] = b => parent'[other[b]] = b
        BY <2>1, <4>1
      <4> QED
        BY <4>2, <4>3
    <3> QED
      BY <3>1, <3>2, <3>3, <3>4 DEF Owners
  <2>8. Locks'
    BY <2>0, <2>2, <1>LocksSame DEF file_vars
  <2>9. Tables'
    <3>1. DupAt(a)'
      <4>1. old[a] = NULL
        BY <2>0 DEF Tables, Dups, DupAt, DupPcs
      <4> QED
        BY <2>2, <4>1 DEF DupAt
    <3> QED
      BY <2>0, <2>2, <2>3, <3>1, <1>TablesStep
  <2> QED
    BY <2>5, <2>6, <2>7, <2>8, <2>9 DEF AInv
\* sys__exit keeps the invariant: the table stays until the parent collects it.
<1>SysExitA. ASSUME AInv, NEW a \in Users, sys__exit(a)
    PROVE  AInv'
  <2> USE <1>SysExitA
  <2>1. /\ pc[a] = "user" /\ Die(a)
        /\ UNCHANGED <<fileTable, file_vars, vn_refcount, ft_copy_lock, of, fd, v, old, other, cnt, fault, raced>>
    BY DEF sys__exit
  <2>2. fd \in [Actors -> Fds] /\ fd[a] = 0 /\ a \in Actors
    BY <2>1 DEF AInv, TypeOK, Tables, FdZero, Actors
  <2>3. fd' = [fd EXCEPT ![a] = 0]
    BY SMT, <2>1, <2>2
  <2> QED
    BY <2>1, <2>3, <1>DieA
\* A standard descriptor is opened.
<1>StdOpenA. ASSUME AInv, NEW a \in Users, std_open(a)
    PROVE  AInv'
  <2> USE <1>StdOpenA
  <2>0. TypeOK /\ LocalTypes /\ Locals /\ Owners /\ Locks /\ Tables /\ a \in Actors /\ pc[a] = "std"
    BY TypeParts DEF AInv, Actors, std_open
  <2>1. UNCHANGED <<ft_copy_lock, of, v, old, other, cnt, fault>>
    BY DEF std_open
  <2>2. CASE Die(a) /\ fd' = [fd EXCEPT ![a] = 0] /\ UNCHANGED <<fileTable, file_vars, vn_refcount, raced>>
    BY <2>0, <2>1, <2>2, <1>DieA
  <2>3. CASE ~(Die(a) /\ fd' = [fd EXCEPT ![a] = 0] /\ UNCHANGED <<fileTable, file_vars, vn_refcount, raced>>)
    <3> DEFINE i == Min(FreeFiles)
               g == fd[a]
    <3>1. PICK x \in Vnodes :
            /\ FreeFiles # {} /\ vn_refcount[x] < MaxRefs /\ FillSlot(i, x) /\ vnode_incref(x)
            /\ fileTable' = [fileTable EXCEPT ![a][g] = i]
            /\ IF g + 1 < FirstFd
               THEN fd' = [fd EXCEPT ![a] = g + 1] /\ UNCHANGED pc
               ELSE fd' = [fd EXCEPT ![a] = 0] /\ Goto(a, "user")
            /\ UNCHANGED <<state, parent>>
      BY <2>3 DEF std_open
    <3>2. i \in Files /\ vn[i] = NULL /\ g \in Fds
      BY <2>0, <3>1, FreeFilesTyped DEF TypeOK
    <3>3. \A f \in Fds : f >= g => fileTable[a][f] = NULL
      BY <2>0 DEF Tables, StdOpens
    <3> HIDE DEF i, g
    <3>4. /\ LocalTypes' /\ Alone(a) /\ pc'[a] \in {"std", "user"} /\ (pc'[a] = "user" => fd'[a] = 0)
          /\ (pc'[a] = "std" => fd'[a] = g + 1)
      <4>1. CASE g + 1 < FirstFd
        <5>1. g + 1 \in Fds
          BY SMT, <3>2, <4>1, Constants DEF Fds
        <5>2. fd' = [fd EXCEPT ![a] = g + 1] /\ UNCHANGED pc
          BY <3>1, <4>1
        <5> QED
          BY <2>0, <2>1, <5>1, <5>2 DEF LocalTypes, Alone
      <4>2. CASE ~(g + 1 < FirstFd)
        <5>1. fd' = [fd EXCEPT ![a] = 0] /\ pc' = [pc EXCEPT ![a] = "user"]
          BY <3>1, <4>2 DEF Goto
        <5> QED
          BY <2>0, <2>1, <5>1, Constants DEF LocalTypes, Alone, Pcs
      <4> QED
        BY <4>1, <4>2
    <3>5. FdSet(a, g, i)
      BY <3>1, <3>2, SetFd
    <3>6. FileTypes' /\ TableType' /\ CountType' /\ FlagTypes'
      <4>1. FileTypes' /\ raced' \in BOOLEAN
        BY <3>1, <3>2, FillFacts
      <4>2. FlagTypes'
        BY <2>0, <2>1, <4>1 DEF FlagTypes, TypeOK
      <4> QED
        BY <3>1, <3>5, <4>1, <4>2, <1>CountTyped DEF FdSet
    <3>7. Locks'
      BY <2>0, <3>1, <3>2, <3>4, <1>LocksFill
    <3>8. DupAt(a)'
      <4>1. old[a] = NULL
        BY <2>0 DEF Tables, Dups, DupAt, DupPcs
      <4> QED
        BY <2>1, <3>4, <4>1 DEF DupAt
    <3>9. ASSUME NEW f \in Fds, pc'[a] = "std", f >= fd'[a] PROVE fileTable'[a][f] = NULL
      <4>1. f >= g /\ f # g
        BY SMT, <3>2, <3>4, <3>9, Constants
      <4> QED
        BY <3>3, <3>5, <4>1 DEF FdSet
    <3>10. Tables'
      <4>1. \A p \in Users \ {a} : fileTable'[p] = fileTable[p]
        BY <3>5 DEF FdSet
      <4>2. state[a] = "running"
        BY <2>0, RunsAlone
      <4>3. /\ \A p \in Users \ {a} : state'[p] = state[p]
            /\ state'[a] # "none" /\ UNCHANGED other /\ pc[a] # "none"
        BY <2>0, <2>1, <3>1, <4>2
      <4>4. /\ pc'[a] \notin {"f_read", "f_write", "d_fd"}
            /\ pc'[a] \in {"none", "menu", "user", "f_end"} => fd'[a] = 0
        BY <3>4
      <4> QED
        BY <2>0, <3>4, <3>8, <3>9, <4>1, <4>3, <4>4, <1>TablesStep
    <3>11. Locals' /\ Owners'
      BY <2>0, <2>1, <3>1, <3>4, <1>LocalsStep, <1>OwnersStep DEF OwnPcs
    <3>12. TypeOK'
      <4>1. OtherTypes'
        BY <2>0, <2>1, <3>1 DEF OtherTypes, TypeOK
      <4> QED
        BY <3>4, <3>6, <4>1, <1>TypePartsNext
    <3> QED
      BY <3>7, <3>10, <3>11, <3>12 DEF AInv
  <2> QED
    BY <2>2, <2>3
\* waitpid finds an exited process.
<1>ReapA. ASSUME AInv, NEW a \in Actors, Reap(a)
    PROVE  AInv'
  <2> USE <1>ReapA
  <2>0. /\ TypeOK /\ LocalTypes /\ Locals /\ Owners /\ Locks /\ Tables
        /\ pc[a] = IF a = Menu THEN "none" ELSE "user"
    BY TypeParts DEF AInv, Reap
  <2>1. PICK p \in Users : state[p] = "zombie" /\ parent[p] = a /\ other' = [other EXCEPT ![a] = p]
    BY DEF Reap
  <2>2. /\ pc' = [pc EXCEPT ![a] = "d_fd"]
        /\ UNCHANGED <<fileTable, file_vars, vn_refcount, ft_copy_lock, state, parent, of, fd, v, old, cnt,
                       fault, raced>>
    BY DEF Reap, Goto
  <2>3. pc[a] \notin OwnPcs /\ pc[a] \notin {"rw", "c_rel", "std", "u_incr"} /\ (a \in Users => pc[a] = "user")
    BY <2>0, Constants DEF OwnPcs
  <2>4. other[a] = NULL /\ fd[a] = 0
    <3>1. fd[a] = 0
      BY <2>0 DEF Tables, FdZero
    <3> QED
      BY <2>0, <2>3, <3>1 DEF Owners, Holds
  <2>5. LocalTypes' /\ Alone(a) /\ pc'[a] = "d_fd" /\ fd'[a] = 0
    BY <2>0, <2>2, <2>4 DEF LocalTypes, Alone, Pcs
  <2>6. \A b \in Actors : other[b] # p
    BY <2>0, <2>1, <2>4, Constants DEF Owners, HeldEnded
  <2>7. pc[p] = "none" /\ p # a
    BY <2>0, <2>1, <2>3 DEF Owners, Runs
  <2>8. other'[a] = p /\ \A b \in Actors \ {a} : other'[b] = other[b] /\ other[b] # p
    BY <2>0, <2>1, <2>6 DEF TypeOK
  <2>9. Owners'
    BY <2>0, <2>1, <2>2, <2>3, <2>5, <2>6, <1>OwnersTake DEF OwnPcs
  <2>10. Locals' /\ Locks'
    BY <2>0, <2>2, <2>3, <2>5, <1>LocalsMenu, <1>LocksSame DEF file_vars
  <2>11. NoFiles'
    <3> SUFFICES ASSUME NEW q \in Users, NEW f \in Fds, state[q] = "none", \A b \in Actors : other'[b] # q
                 PROVE  fileTable[q][f] = NULL
      BY <2>2 DEF NoFiles
    <3>1. \A b \in Actors : other[b] # q
      BY <2>4, <2>8, Constants
    <3> QED
      BY <2>0, <3>1 DEF Tables, NoFiles
  <2>12. Tables'
    <3>1. a \in Users => old'[a] = NULL
      BY <2>0, <2>2, <2>3 DEF Tables, Dups, DupAt, DupPcs
    <3>2. \A f \in Fds : ~(f < fd'[a])
      BY SMT, <2>5, Constants
    <3> QED
      BY <2>0, <2>2, <2>3, <2>5, <2>7, <2>8, <2>11, <3>1, <3>2, <1>TablesLoop
  <2>13. TypeOK'
    <3>1. OtherTypes'
      BY <2>0, <2>1, <2>2 DEF OtherTypes, TypeOK
    <3> QED
      BY <2>2, <2>5, <3>1, TypesSame, <1>TypePartsNext
  <2> QED
    BY <2>9, <2>10, <2>12, <2>13 DEF AInv
\* What a turn of the loop leaves to show.
<1>DestroyA. ASSUME AInv, NEW a \in Actors, pc[a] = "d_fd", DestroyNext(a), UNCHANGED <<of, v, old, cnt>>,
           \A p \in Users \ {other[a]} : fileTable'[p] = fileTable[p],
           \A f \in Fds \ {fd[a]} : fileTable'[other[a]][f] = fileTable[other[a]][f],
           fileTable'[other[a]][fd[a]] = NULL,
           TableType', FileTypes', CountType', FlagTypes', Locks'
    PROVE  AInv'
  <2> USE <1>DestroyA
  <2> DEFINE c == other[a]
             g == fd[a]
  <2>0. TypeOK /\ Locals /\ Owners /\ Tables /\ pc[a] \in OwnPcs /\ g \in Fds
    BY DEF AInv, OwnPcs, TypeOK
  <2>1. c \in Users /\ c # a /\ pc[c] = "none" /\ \A b \in Actors \ {a} : other[b] # c
    BY <2>0, LoopOwner
  <2>2. /\ LocalTypes' /\ OtherTypes' /\ Alone(a) /\ pc'[a] \in {"d_fd", "menu", "user"}
        /\ \A b \in Actors \ {a} : other'[b] = other[b]
        /\ \A p \in Users \ {c} : state'[p] = state[p] /\ parent'[p] = parent[p]
        /\ \/ UNCHANGED <<pc, other, state, parent>> /\ fd'[a] = g + 1
           \/ /\ g + 1 = OPEN_MAX /\ fd'[a] = 0 /\ pc'[a] = IF a = Menu THEN "menu" ELSE "user"
              /\ other'[a] = NULL /\ state'[c] = "none"
    BY DestroyNextFacts
  <2>21. \A b \in Actors \ {a} : other'[b] = other[b]
    BY <2>2
  <2>3. TypeOK'
    BY <2>2, <1>TypePartsNext
  <2>4. ASSUME NEW f \in Fds, f < g + 1 PROVE fileTable'[c][f] = NULL
    <3>1. f = g \/ f < g
      BY SMT, <2>0, <2>4, Constants
    <3>2. CASE f = g
      BY <3>2
    <3>3. CASE f < g /\ f # g
      BY <2>0, <3>3 DEF Tables, Destroys
    <3>4. f < g => f # g
      BY SMT, <2>0, Constants
    <3> QED
      BY <3>1, <3>2, <3>3, <3>4
  <2>5. a \in Users => old'[a] = NULL
    BY <2>0 DEF Tables, Dups, DupAt, DupPcs
  <2> HIDE DEF c, g
  <2>6. CASE UNCHANGED <<pc, other, state, parent>> /\ fd'[a] = g + 1
    <3>1. Locals'
      <4>1. a = Menu => pc'[a] \in {"menu", "none", "d_fd"}
        BY <2>6
      <4> QED
        BY <2>0, <2>2, <2>6, <4>1, <1>LocalsMenu
    <3>2. Owners'
      BY <2>0, <2>2, <2>6, <1>OwnersStep DEF OwnPcs
    <3>3. NoFiles'
      BY <2>1, <2>6, <1>NoFilesHeld DEF c
    <3>4. /\ \A b \in Actors \ {a} : other'[b] = other[b] /\ other[b] # c
          /\ \A f \in Fds : f < fd'[a] => fileTable'[other'[a]][f] = NULL
      BY <2>1, <2>4, <2>6 DEF c
    <3>5. Tables'
      <4>1. pc'[a] = "d_fd" /\ \A p \in Users \ {c} : fileTable'[p] = fileTable[p]
        BY <2>6 DEF c
      <4> QED
        BY <2>0, <2>1, <2>2, <2>5, <3>3, <3>4, <4>1, <1>TablesLoop
    <3> QED
      BY <2>3, <3>1, <3>2, <3>5 DEF AInv
  <2>7. CASE ~(UNCHANGED <<pc, other, state, parent>> /\ fd'[a] = g + 1)
    <3>1. /\ g + 1 = OPEN_MAX /\ fd'[a] = 0 /\ pc'[a] = (IF a = Menu THEN "menu" ELSE "user")
          /\ other'[a] = NULL /\ state'[c] = "none"
      BY <2>2, <2>7
    <3>2. a # Menu <=> a \in Users
      BY Constants DEF Actors
    <3>3. pc'[a] \in {"menu", "user"} /\ (a = Menu => pc'[a] = "menu")
      BY <3>1
    <3>4. Locals'
      BY <2>0, <2>2, <3>3, <1>LocalsMenu
    <3>5. Owners'
      <4>1. Runs'
        <5> SUFFICES ASSUME NEW p \in Users PROVE state'[p] = "running" <=> pc'[p] # "none"
          BY DEF Runs
        <5>1. CASE p = c
          BY <2>1, <2>2, <3>1, <5>1 DEF Alone, Actors
        <5>2. CASE p # c /\ p # a
          BY <2>0, <2>2, <5>2 DEF Owners, Runs, Alone, Actors
        <5>3. CASE p = a
          <6>1. state[p] = "running"
            BY <2>0, <5>3 DEF Owners, Runs
          <6> QED
            BY <2>1, <2>2, <3>3, <5>3, <6>1
        <5> QED
          BY <5>1, <5>2, <5>3
      <4>2. Holds'
        BY <2>0, <2>2, <3>1, <3>3 DEF Owners, Holds, Alone, OwnPcs
      <4>3. HeldOnce'
        <5> SUFFICES ASSUME NEW b \in Actors, NEW d \in Actors, other'[b] # NULL, other'[b] = other'[d]
                     PROVE  b = d
          BY DEF HeldOnce
        <5>1. b # a /\ d # a
          BY <3>1
        <5>2. other[b] # NULL /\ other[b] = other[d]
          BY <2>2, <5>1
        <5> QED
          BY <2>0, <5>2 DEF Owners, HeldOnce
      <4>4. HeldEnded'
        <5> SUFFICES ASSUME NEW b \in Actors, other'[b] # NULL
                     PROVE  /\ state'[other'[b]] # "running"
                            /\ state'[other'[b]] = "zombie" => parent'[other'[b]] = b
          BY DEF HeldEnded
        <5>1. b # a /\ other'[b] = other[b]
          BY <2>2, <3>1
        <5>2. other[b] \in Users \ {c}
          BY <2>0, <2>1, <5>1 DEF TypeOK
        <5>3. state'[other[b]] = state[other[b]] /\ parent'[other[b]] = parent[other[b]]
          BY <2>2, <5>2
        <5>4. state[other[b]] # "running" /\ (state[other[b]] = "zombie" => parent[other[b]] = b)
          BY <2>0, <5>1 DEF Owners, HeldEnded
        <5> QED
          BY <5>1, <5>3, <5>4
      <4> QED
        BY <4>1, <4>2, <4>3, <4>4 DEF Owners
    <3>6. \A f \in Fds : fileTable'[c][f] = NULL
      <4> TAKE f \in Fds
      <4>1. f < g + 1
        BY SMT, <3>1, Constants
      <4> QED
        BY <2>4, <4>1
    <3>7. NoFiles'
      <4> SUFFICES ASSUME NEW p \in Users, NEW f \in Fds, state'[p] = "none", \A b \in Actors : other'[b] # p
                   PROVE  fileTable'[p][f] = NULL
        BY DEF NoFiles
      <4>1. CASE p = c
        BY <3>6, <4>1
      <4>2. CASE p # c
        <5>1. state[p] = "none" /\ fileTable'[p] = fileTable[p]
          BY <2>2, <4>2 DEF c
        <5>2. \A b \in Actors : other[b] # p
          <6> TAKE b \in Actors
          <6>1. CASE b = a
            BY <4>2, <6>1 DEF c
          <6>2. CASE b # a
            <7>1. other'[b] = other[b]
              BY <2>21, <6>2
            <7> QED
              BY <7>1
          <6> QED
            BY <6>1, <6>2
        <5> QED
          BY <2>0, <5>1, <5>2 DEF Tables, NoFiles
      <4> QED
        BY <4>1, <4>2
    <3>8. Tables'
      <4>1. /\ \A b \in Actors \ {a} : other'[b] = other[b] /\ other[b] # c
            /\ \A p \in Users \ {c} : fileTable'[p] = fileTable[p]
        BY <2>1, <2>2 DEF c
      <4>2. pc'[a] \notin {"std", "u_incr", "f_read", "f_write", "d_fd"}
        BY <3>3
      <4> QED
        BY <2>0, <2>1, <2>2, <2>5, <3>1, <3>7, <4>1, <4>2, <1>TablesLoop
    <3> QED
      BY <2>3, <3>4, <3>5, <3>8 DEF AInv
  <2> QED
    BY <2>6, <2>7
\* One turn of proc_destroy's loop.
<1>DestroyFdA. ASSUME AInv, NEW a \in Actors, DestroyFd(a)
    PROVE  AInv'
  <2> USE <1>DestroyFdA
  <2> DEFINE c == other[a]
             g == fd[a]
             i == fileTable[c][g]
             rest == <<vn, offset, ft_copy_lock, of, v, old, cnt, fault, raced>>
  <2>0. TypeOK /\ Locals /\ Locks /\ pc[a] = "d_fd" /\ pc[a] \in OwnPcs /\ g \in Fds
    BY DEF AInv, OwnPcs, TypeOK, DestroyFd
  <2>1. c \in Users
    BY <2>0, LoopOwner
  <2>2. i \in Files \cup {NULL}
    BY <2>0, <2>1, FdTyped
  <2>3. CASE i = NULL
    <3>1. DestroyNext(a) /\ UNCHANGED <<fileTable, countRef, of_lock, vn_refcount, rest>>
      BY <2>3 DEF DestroyFd
    <3>2. Alone(a) /\ pc'[a] # "rw"
      BY <2>0, <3>1, DestroyNextFacts
    <3>3. Locks'
      BY <2>0, <3>1, <3>2, <1>LocksSame
    <3> QED
      BY <2>0, <2>3, <3>1, <3>3, TypesSame, <1>DestroyA DEF file_vars
  <2>4. CASE i # NULL /\ ~Crash("lock") /\ ~Crash("vnode")
    <3>1. /\ of_lock[i] = "free" /\ fileTable' = [fileTable EXCEPT ![c][g] = NULL]
          /\ DestroyNext(a) /\ UNCHANGED rest
          /\ of_lock' = of_lock \/ of_lock' = [of_lock EXCEPT ![i] = "none"]
          /\ countRef' = [countRef EXCEPT ![i] = 0] \/ countRef' = [countRef EXCEPT ![i] = Minus1(countRef[i])]
          /\ UNCHANGED vn_refcount \/ (vn[i] # NULL /\ vn_refcount[vn[i]] # 0 /\ vnode_decref(vn[i]))
      <4>1. WithLock(i,
           IF Minus1(countRef[i]) = 0 /\ vn[i] # NULL
           THEN WithVnode(vn[i],
                  /\ countRef' = [countRef EXCEPT ![i] = 0]
                  /\ fileTable' = [fileTable EXCEPT ![c][g] = NULL]
                  /\ vnode_decref(vn[i])
                  /\ of_lock' = [of_lock EXCEPT ![i] = "none"]
                  /\ DestroyNext(a)
                  /\ UNCHANGED rest)
           ELSE /\ countRef' = [countRef EXCEPT ![i] = Minus1(@)]
                /\ fileTable' = [fileTable EXCEPT ![c][g] = NULL]
                /\ of_lock' = IF Minus1(countRef[i]) = 0 THEN [of_lock EXCEPT ![i] = "none"] ELSE of_lock
                /\ DestroyNext(a)
                /\ UNCHANGED <<vn_refcount, rest>>)
        BY <2>4 DEF DestroyFd
      <4> HIDE DEF c, g, i, rest
      <4>2. CASE Minus1(countRef[i]) = 0 /\ vn[i] # NULL
        BY <2>4, <4>1, <4>2 DEF WithLock, WithVnode
      <4>3. CASE ~(Minus1(countRef[i]) = 0 /\ vn[i] # NULL)
        BY <2>4, <4>1, <4>3 DEF WithLock, rest
      <4> QED
        BY <4>2, <4>3
    <3>2. Alone(a) /\ pc'[a] \notin {"rw", "c_rel"}
      BY <2>0, <3>1, DestroyNextFacts
    <3>3. i \in Files /\ vn[i] \in Vnodes \cup {NULL} /\ countRef[i] \in 0..(CountMod - 1)
      BY <2>0, <2>2, <2>4 DEF TypeOK
    <3>4. FdSet(c, g, NULL)
      BY <2>0, <2>1, <3>1, SetFd
    <3> HIDE DEF c, g, i
    <3>5. FileTypes'
      <4>1. Minus1(countRef[i]) \in 0..(CountMod - 1) /\ 0 \in 0..(CountMod - 1)
        BY SMT, <3>3, <1>Minus1Typed, Constants
      <4>2. countRef' \in [Files -> 0..(CountMod - 1)]
        BY <2>0, <3>1, <4>1 DEF TypeOK
      <4>3. of_lock' \in [Files -> {"none", "free"} \cup Users]
        BY <2>0, <3>1 DEF TypeOK
      <4> QED
        BY <2>0, <3>1, <4>2, <4>3 DEF TypeOK, FileTypes
    <3>6. CountType'
      BY <3>1, <3>3, TypesSame, <1>CountTyped
    <3>7. FlagTypes'
      BY <3>1, TypesSame
    <3>8. Locks'
      <4>1. /\ \A j \in Files \ {i} : of_lock'[j] = of_lock[j] /\ vn'[j] = vn[j] /\ offset'[j] = offset[j]
            /\ of_lock'[i] \in {"free", "none"}
        BY <2>0, <3>1, <3>3 DEF TypeOK
      <4>2. of_lock'[i] \notin Users /\ of_lock[i] \in {"none", "free", a} /\ pc[a] \notin {"rw", "c_rel"}
        BY <2>0, <3>1, <4>1, Constants
      <4> QED
        BY <2>0, <3>2, <3>3, <4>1, <4>2, <1>LocksStep
    <3> QED
      BY <2>0, <3>1, <3>4, <3>5, <3>6, <3>7, <3>8, <1>DestroyA DEF FdSet, c, g
  <2> QED
    BY <2>3, <2>4, <1>CrashA
<1> SUFFICES ASSUME AInv, [Next]_vars PROVE AInv'
  BY SMT
<1>1. CASE UNCHANGED vars
  <2>1. UNCHANGED <<fileTable, vn, offset, countRef, of_lock, vn_refcount, ft_copy_lock, state, parent,
                    pc, of, fd, v, old, other, cnt, raced, fault>>
    BY <1>1 DEF vars, file_vars, local_vars
  <2>2. TypeOK'
    BY <2>1 DEF AInv, TypeOK
  <2>3. Locals'
    BY <2>1 DEF AInv, Locals, FileInHand, VnodeInHand, MenuPcs
  <2>4. Owners'
    BY <2>1 DEF AInv, Owners, Runs, Holds, HeldOnce, HeldEnded
  <2>5. Locks'
    BY <2>1 DEF AInv, Locks, LockReturned, Transfer
  <2>6. FdZero' /\ Dups' /\ NoFiles' /\ StdOpens'
    BY <2>1 DEF AInv, Tables, FdZero, Dups, DupAt, NoFiles, StdOpens
  <2>7. Copies' /\ Copied' /\ Destroys'
    BY <2>1 DEF AInv, Tables, Copies, Copied, Destroys
  <2> QED
    BY <2>2, <2>3, <2>4, <2>5, <2>6, <2>7 DEF AInv, Tables
<1>2. CASE common_prog \/ Reap(Menu) \/ DestroyFd(Menu)
  BY <1>2, <1>CommonProgA, <1>ReapA, <1>DestroyFdA DEF Actors
<1>3. ASSUME NEW a \in Users, Step(a) PROVE AInv'
  <2>1. CASE sys_open(a) \/ OpenSlot(a) \/ OpenFd(a)
    BY <2>1, <1>SysOpenA, <1>OpenSlotA, <1>OpenFdA
  <2>2. CASE sys_close(a) \/ CloseLock(a) \/ CloseRelease(a) \/ CloseVfs(a) \/ CloseDestroy(a)
    BY <2>2, <1>SysCloseA, <1>CloseLockA, <1>CloseReleaseA, <1>CloseVfsA, <1>CloseDestroyA
  <2>3. CASE sys_dup2(a) \/ DupIncr(a) \/ BeginIO(a) \/ EndIO(a) \/ sys_lseek(a)
    BY <2>3, <1>SysDup2A, <1>DupIncrA, <1>BeginIOA, <1>EndIOA, <1>SysLseekA
  <2>4. CASE sys_fork(a) \/ CopyRead(a) \/ CopyWrite(a) \/ ForkEnd(a)
    BY <2>4, <1>SysForkA, <1>CopyReadA, <1>CopyWriteA, <1>ForkEndA
  <2>5. CASE sys__exit(a) \/ DestroyFd(a)
    BY <2>5, <1>SysExitA, <1>DestroyFdA DEF Actors
  <2> QED
    BY <1>3, <2>1, <2>2, <2>3, <2>4, <2>5 DEF Step
<1>4. ASSUME NEW a \in Users, Reap(a) \/ std_open(a) PROVE AInv'
  BY <1>4, <1>ReapA, <1>StdOpenA DEF Actors
<1> QED
  BY <1>1, <1>2, <1>3, <1>4 DEF Next
=============================================================================
