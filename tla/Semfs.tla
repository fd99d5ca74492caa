------------------------------- MODULE Semfs -------------------------------
(***************************************************************************)
(* The life of a vnode and of a user semaphore: the reference counts of    *)
(* kern/vfs/vnode.c, and the directory, the semaphore table and the vnode  *)
(* table of kern/fs/semfs.                                                 *)
(*                                                                         *)
(* A section under semfs_dirlock or semfs_tablelock is one step, except    *)
(* where the code of the other lock reads what it writes: semfs_remove     *)
(* (under the directory lock) and semfs_reclaim (under the table lock)     *)
(* share sems_hasvnode and sems_linked, so each of their accesses is a     *)
(* step.  The memory of a destroyed object may be handed out again.        *)
(***************************************************************************)
EXTENDS Naturals, Sequences, FiniteSets, FiniteSetsExt, Functions

CONSTANTS SfThreads, SfNames,
          MaxSems, MaxVnodes    \* bounds: objects that exist at a time

VARIABLES semfs_dents,    \* the directory: [name, semnum], or NoDent
          semfs_sems,     \* the semaphore table: a semaphore, or 0
          semfs_vnodes,   \* the vnodes in the table
          sem,            \* sem[s]: [live, sems_hasvnode, sems_linked]
          vnode,          \* vnode[v]: [live, vn_refcount, semv_semnum]
          sf_pc, sf_vn, sf_sem, sf_dent,
          sf_bad,         \* an assertion failed or a destroyed object was used
          sf_raced        \* history: semfs_reclaim ran inside semfs_remove

sf_tables == <<semfs_dents, semfs_sems, semfs_vnodes>>
sf_local == <<sf_pc, sf_vn, sf_sem, sf_dent>>
sf_vars == <<sf_tables, sem, vnode, sf_local, sf_bad, sf_raced>>

NoDent == [name |-> "none", semnum |-> 0]
DeadSem == [live |-> FALSE, sems_hasvnode |-> FALSE, sems_linked |-> FALSE]
DeadVnode == [live |-> FALSE, vn_refcount |-> 0, semv_semnum |-> 0]

SemfsInit ==
  /\ semfs_dents = <<>> /\ semfs_sems = <<>> /\ semfs_vnodes = {}
  /\ sem = [s \in 1..MaxSems |-> DeadSem]
  /\ vnode = [v \in 1..MaxVnodes |-> DeadVnode]
  /\ sf_pc = [t \in SfThreads |-> "closed"] /\ sf_vn = [t \in SfThreads |-> 0]
  /\ sf_sem = [t \in SfThreads |-> 0] /\ sf_dent = [t \in SfThreads |-> 0]
  /\ sf_bad = FALSE /\ sf_raced = FALSE

SfGoto(t, l) == sf_pc' = [sf_pc EXCEPT ![t] = l]

\* Who is inside a section that takes several steps.
DirlockFree == \A t \in SfThreads : sf_pc[t] \notin {"remove", "unlink"}
TablelockFree == \A t \in SfThreads : sf_pc[t] \notin {"unhook", "orphan"}
-----------------------------------------------------------------------------
\* vnode_init: one reference, for the caller.
vnode_init(n) == [live |-> TRUE, vn_refcount |-> 1, semv_semnum |-> n]

vnode_incref(v) == [vnode EXCEPT ![v].vn_refcount = @ + 1]

Hooked(n) == {v \in semfs_vnodes : vnode[v].semv_semnum = n}

\* semfs_getvnode: the vnode of semaphore n from the table, or a new one; the
\* caller of open keeps it.  st is the state of the semaphores.
semfs_getvnode(t, n, st) ==
  /\ IF Hooked(n) # {}
     THEN LET v == Min(Hooked(n)) IN
          /\ vnode' = vnode_incref(v)
          /\ sf_vn' = [sf_vn EXCEPT ![t] = v]
          /\ sem' = st
          /\ UNCHANGED <<semfs_vnodes, sf_bad>>
     ELSE LET v == Min({w \in 1..MaxVnodes : ~vnode[w].live})
              s == semfs_sems'[n] IN
          /\ vnode' = [vnode EXCEPT ![v] = vnode_init(n)]
          /\ semfs_vnodes' = semfs_vnodes \cup {v}
          /\ sf_vn' = [sf_vn EXCEPT ![t] = v]
          /\ IF s = 0
             THEN sem' = st /\ sf_bad' = TRUE
             ELSE /\ sem' = [st EXCEPT ![s].sems_hasvnode = TRUE]
                  /\ sf_bad' = (sf_bad \/ st[s].sems_hasvnode \/ ~st[s].live)
  /\ SfGoto(t, "open")

Entries(name) == {i \in DOMAIN semfs_dents : semfs_dents[i].name = name}

\* semfs_lookup of a name that exists, or semfs_creat without O_EXCL.
semfs_lookup(t, name) ==
  /\ sf_pc[t] = "closed" /\ DirlockFree /\ TablelockFree
  /\ Entries(name) # {}
  /\ UNCHANGED <<semfs_dents, semfs_sems, sf_sem, sf_dent, sf_raced>>
  /\ semfs_getvnode(t, semfs_dents[Min(Entries(name))].semnum, sem)

\* The first empty element of a table, or the one after its last.
FirstNull(s, null) ==
  IF \E i \in DOMAIN s : s[i] = null THEN Min({i \in DOMAIN s : s[i] = null}) ELSE Len(s) + 1
PutAt(s, i, x) == IF i = Len(s) + 1 THEN Append(s, x) ELSE [s EXCEPT ![i] = x]

\* semfs_sem_insert takes the first empty slot of the semaphore table.
semfs_sem_insert(s) == PutAt(semfs_sems, FirstNull(semfs_sems, 0), s)

\* semfs_creat of a new name: semaphore, directory entry and vnode.
semfs_creat(t, name) ==
  /\ sf_pc[t] = "closed" /\ DirlockFree /\ TablelockFree
  /\ Entries(name) = {}
  /\ \E w \in DOMAIN sem : ~sem[w].live
  /\ LET s == Min({w \in DOMAIN sem : ~sem[w].live})
         n == FirstNull(semfs_sems, 0)
         new == [live |-> TRUE, sems_hasvnode |-> FALSE, sems_linked |-> TRUE] IN
     /\ semfs_sems' = semfs_sem_insert(s)
     /\ semfs_dents' = PutAt(semfs_dents, FirstNull(semfs_dents, NoDent), [name |-> name, semnum |-> n])
     /\ semfs_getvnode(t, n, [sem EXCEPT ![s] = new])
  /\ UNCHANGED <<sf_sem, sf_dent, sf_raced>>

\* vnode_decref under vn_countlock: the last reference is not dropped, it goes
\* to VOP_RECLAIM.
vnode_decref(t) ==
  /\ sf_pc[t] = "open"
  /\ LET v == sf_vn[t] IN
     IF vnode[v].vn_refcount > 1
     THEN /\ vnode' = [vnode EXCEPT ![v].vn_refcount = @ - 1]
          /\ SfGoto(t, "closed") /\ sf_vn' = [sf_vn EXCEPT ![t] = 0]
     ELSE SfGoto(t, "reclaim") /\ UNCHANGED <<vnode, sf_vn>>
  /\ UNCHANGED <<sf_tables, sem, sf_sem, sf_dent, sf_bad, sf_raced>>
-----------------------------------------------------------------------------
\* Mutant of semfs_reclaim: the count is not read again under the table lock.
ReclaimBlind(t) ==
  /\ sf_pc[t] = "reclaim" /\ TablelockFree
  /\ semfs_vnodes' = semfs_vnodes \ {sf_vn[t]}
  /\ SfGoto(t, "unhook")
  /\ UNCHANGED <<vnode, sf_vn, semfs_dents, semfs_sems, sem, sf_sem, sf_dent, sf_bad, sf_raced>>

\* semfs_reclaim takes the table lock and reads the count again: another thread
\* may have found the vnode since vnode_decref let go of it.
semfs_reclaim(t) ==
  /\ sf_pc[t] = "reclaim" /\ TablelockFree
  /\ LET v == sf_vn[t] IN
     IF vnode[v].vn_refcount > 1
     THEN /\ vnode' = [vnode EXCEPT ![v].vn_refcount = @ - 1]
          /\ SfGoto(t, "closed") /\ sf_vn' = [sf_vn EXCEPT ![t] = 0]
          /\ UNCHANGED semfs_vnodes
     ELSE /\ semfs_vnodes' = semfs_vnodes \ {v}
          /\ SfGoto(t, "unhook")
          /\ UNCHANGED <<vnode, sf_vn>>
  /\ UNCHANGED <<semfs_dents, semfs_sems, sem, sf_sem, sf_dent, sf_bad, sf_raced>>

\* sem->sems_hasvnode = false, after its assertion.
Unhook(t) ==
  /\ sf_pc[t] = "unhook"
  /\ LET s == semfs_sems[vnode[sf_vn[t]].semv_semnum] IN
     IF s = 0
     THEN sf_bad' = TRUE /\ UNCHANGED <<sem, sf_raced, sf_sem>>
     ELSE /\ sf_bad' = (sf_bad \/ ~sem[s].sems_hasvnode)
          /\ sem' = [sem EXCEPT ![s].sems_hasvnode = FALSE]
          /\ sf_sem' = [sf_sem EXCEPT ![t] = s]
          /\ sf_raced' = (sf_raced \/ \E u \in SfThreads : sf_pc[u] = "remove" /\ sf_sem[u] = s)
  /\ SfGoto(t, "orphan")
  /\ UNCHANGED <<sf_tables, vnode, sf_vn, sf_dent>>

\* Mutant of ReclaimEnd: an unlinked semaphore is forgotten, not destroyed.
ReclaimLeak(t) ==
  /\ sf_pc[t] = "orphan"
  /\ vnode' = [vnode EXCEPT ![sf_vn[t]] = DeadVnode]
  /\ SfGoto(t, "closed")
  /\ sf_vn' = [sf_vn EXCEPT ![t] = 0] /\ sf_sem' = [sf_sem EXCEPT ![t] = 0]
  /\ UNCHANGED <<sf_tables, sem, sf_dent, sf_bad, sf_raced>>

\* A semaphore that is no longer in the directory goes with its vnode.
ReclaimEnd(t) ==
  /\ sf_pc[t] = "orphan"
  /\ LET s == sf_sem[t]
         v == sf_vn[t] IN
     /\ IF s # 0 /\ ~sem[s].sems_linked
        THEN /\ semfs_sems' = [semfs_sems EXCEPT ![vnode[v].semv_semnum] = 0]
             /\ sf_bad' = (sf_bad \/ ~sem[s].live)
             /\ sem' = [sem EXCEPT ![s] = DeadSem]
        ELSE UNCHANGED <<semfs_sems, sf_bad, sem>>
     /\ vnode' = [vnode EXCEPT ![v] = DeadVnode]
  /\ SfGoto(t, "closed")
  /\ sf_vn' = [sf_vn EXCEPT ![t] = 0] /\ sf_sem' = [sf_sem EXCEPT ![t] = 0]
  /\ UNCHANGED <<semfs_dents, semfs_vnodes, sf_dent, sf_raced>>

\* semfs_remove up to sems_linked = false.
semfs_remove(t, name) ==
  /\ sf_pc[t] = "closed" /\ DirlockFree /\ TablelockFree
  /\ Entries(name) # {}
  /\ LET i == Min(Entries(name))
         s == semfs_sems[semfs_dents[i].semnum] IN
     /\ sf_dent' = [sf_dent EXCEPT ![t] = i]
     /\ sf_sem' = [sf_sem EXCEPT ![t] = s]
     /\ IF s = 0
        THEN sf_bad' = TRUE /\ UNCHANGED sem
        ELSE /\ sf_bad' = (sf_bad \/ ~sem[s].live \/ ~sem[s].sems_linked)
             /\ sem' = [sem EXCEPT ![s].sems_linked = FALSE]
  /\ SfGoto(t, "remove")
  /\ UNCHANGED <<sf_tables, vnode, sf_vn, sf_raced>>

DropDent(t) ==
  /\ semfs_dents' = [semfs_dents EXCEPT ![sf_dent[t]] = NoDent]
  /\ SfGoto(t, "closed")
  /\ sf_sem' = [sf_sem EXCEPT ![t] = 0] /\ sf_dent' = [sf_dent EXCEPT ![t] = 0]

\* semfs_remove reads sems_hasvnode: with a vnode the semaphore stays.
RemoveReads(t) ==
  /\ sf_pc[t] = "remove" /\ sf_sem[t] # 0
  /\ IF sem[sf_sem[t]].sems_hasvnode
     THEN DropDent(t)
     ELSE SfGoto(t, "unlink") /\ UNCHANGED <<semfs_dents, sf_sem, sf_dent>>
  /\ UNCHANGED <<semfs_sems, semfs_vnodes, sem, vnode, sf_vn, sf_bad, sf_raced>>

\* ... without one it leaves the table and is destroyed.
RemoveDestroys(t) ==
  /\ sf_pc[t] = "unlink" /\ TablelockFree
  /\ semfs_sems' = [semfs_sems EXCEPT ![semfs_dents[sf_dent[t]].semnum] = 0]
  /\ sf_bad' = (sf_bad \/ ~sem[sf_sem[t]].live)
  /\ sem' = [sem EXCEPT ![sf_sem[t]] = DeadSem]
  /\ DropDent(t)
  /\ UNCHANGED <<semfs_vnodes, vnode, sf_vn, sf_raced>>

SemfsNext ==
  \E t \in SfThreads :
    \/ \E name \in SfNames : semfs_lookup(t, name) \/ semfs_creat(t, name) \/ semfs_remove(t, name)
    \/ vnode_decref(t) \/ semfs_reclaim(t) \/ Unhook(t) \/ ReclaimEnd(t)
    \/ RemoveReads(t) \/ RemoveDestroys(t)

SemfsSpec == SemfsInit /\ [][SemfsNext]_sf_vars
-----------------------------------------------------------------------------
\* The states explored: the ones in which semfs_reclaim has not run between
\* the two accesses of semfs_remove; that interleaving destroys a semaphore
\* twice.
NoRace == ~sf_raced

RefsTo(v) == {t \in SfThreads : sf_vn[t] = v}

\* vn_refcount counts the threads that can still use the vnode, the one inside
\* VOP_RECLAIM with it included, so that no vnode is destroyed under a thread
\* that found it in the table between vnode_decref and semfs_reclaim; and no
\* two vnodes stand for one semaphore.
VnodeCountExact ==
  /\ \A v \in DOMAIN vnode : vnode[v].vn_refcount = Cardinality(RefsTo(v))
  /\ \A v, w \in semfs_vnodes : v # w => vnode[v].semv_semnum # vnode[w].semv_semnum
  /\ semfs_vnodes = {v \in DOMAIN vnode : vnode[v].live
                       /\ ~\E t \in RefsTo(v) : sf_pc[t] \in {"unhook", "orphan"}}

\* While the two flags of a semaphore are not read in the middle of
\* semfs_remove, a semaphore lives exactly as long as a name or a vnode leads
\* to it: never destroyed twice, never left in the table of a dead one, never
\* forgotten.
SemaphoreLives ==
  sf_raced \/
  /\ ~sf_bad
  /\ \A s \in DOMAIN sem : sem[s].live <=> \E n \in DOMAIN semfs_sems : semfs_sems[n] = s
  /\ \A i \in DOMAIN semfs_dents : semfs_dents[i] # NoDent =>
       /\ semfs_sems[semfs_dents[i].semnum] # 0
       /\ \A j \in DOMAIN semfs_dents : i # j => semfs_dents[j].semnum # semfs_dents[i].semnum
  /\ \A n \in DOMAIN semfs_sems : semfs_sems[n] # 0 =>
       \/ \E i \in DOMAIN semfs_dents : semfs_dents[i].semnum = n
       \/ \E v \in DOMAIN vnode : vnode[v].live /\ vnode[v].semv_semnum = n

(***************************************************************************)
(* The count of one open semaphore: semfs_read, semfs_write,               *)
(* semfs_truncate and semfs_wakeup.  Reading n bytes is n P's, writing n   *)
(* bytes n V's.  A section under sems_lock is one step.  cv_wait lets the  *)
(* lock go and sleeps; a thread that cv_signal or cv_broadcast woke is on  *)
(* its way back to the lock and other threads may get it first.            *)
(***************************************************************************)
CONSTANTS UsThreads,
          UINT_MAX,       \* the largest value of sems_count
          MaxIO           \* bound: bytes of a read or a write

VARIABLES sems_count,
          us_pc,          \* "out", "sleep" on sems_cv, "awake" after a wakeup
          us_resid,       \* uio_resid of a reader
          us_balance,     \* history: V's minus P's since the last truncate
          us_missed       \* history: a V found a positive count and sleepers

us_vars == <<sems_count, us_pc, us_resid, us_balance, us_missed>>

UserSemInit ==
  /\ sems_count = 0
  /\ us_pc = [t \in UsThreads |-> "out"]
  /\ us_resid = [t \in UsThreads |-> 0]
  /\ us_balance = 0 /\ us_missed = FALSE

Sleeping == {t \in UsThreads : us_pc[t] = "sleep"}

\* Mutant of semfs_wakeup: a signal where a broadcast is needed.
WakeupOne(newcount) ==
  IF sems_count > 0 \/ newcount = 0 \/ Sleeping = {}
  THEN UNCHANGED us_pc
  ELSE \E t \in Sleeping : us_pc' = [us_pc EXCEPT ![t] = "awake"]

\* semfs_wakeup(sem, newcount), with the count not yet changed: one sleeper
\* for a count of one, all of them for more, none when the count was positive.
semfs_wakeup(newcount) ==
  CASE sems_count > 0 \/ newcount = 0 \/ Sleeping = {} -> UNCHANGED us_pc
    [] sems_count = 0 /\ newcount = 1 /\ Sleeping # {} ->
         \E t \in Sleeping : us_pc' = [us_pc EXCEPT ![t] = "awake"]
    [] sems_count = 0 /\ newcount > 1 /\ Sleeping # {} ->
         us_pc' = [t \in UsThreads |-> IF t \in Sleeping THEN "awake" ELSE us_pc[t]]

Missed == sems_count > 0 /\ Sleeping # {}

\* Mutant of Consume: a read longer than the count takes all it asked for.
ConsumeAll(t, resid) ==
  LET got == IF sems_count > 0 THEN resid ELSE 0 IN
  /\ sems_count' = (IF got <= sems_count THEN sems_count - got ELSE 0)
  /\ us_balance' = (us_balance + UINT_MAX + 1 - got) % (UINT_MAX + 1)
  /\ us_resid' = [us_resid EXCEPT ![t] = resid - got]
  /\ us_pc' = [us_pc EXCEPT ![t] = IF resid = got THEN "out" ELSE "sleep"]

\* The loop of semfs_read until it returns or sleeps: what is there is taken,
\* and the rest is waited for.
Consume(t, resid) ==
  LET got == Min({resid, sems_count}) IN
  /\ sems_count' = sems_count - got
  /\ us_balance' = (us_balance + UINT_MAX + 1 - got) % (UINT_MAX + 1)
  /\ us_resid' = [us_resid EXCEPT ![t] = resid - got]
  /\ us_pc' = [us_pc EXCEPT ![t] = IF resid = got THEN "out" ELSE "sleep"]

semfs_read(t, n) ==
  /\ us_pc[t] = "out"
  /\ Consume(t, n)
  /\ UNCHANGED us_missed

\* cv_wait returns with the lock.
ReadAgain(t) ==
  /\ us_pc[t] = "awake"
  /\ Consume(t, us_resid[t])
  /\ UNCHANGED us_missed

\* semfs_write: the sum is taken modulo UINT_MAX + 1, and a wrap is EFBIG.
semfs_write(t, n) ==
  /\ us_pc[t] = "out"
  /\ LET newcount == (sems_count + n) % (UINT_MAX + 1) IN
     /\ newcount >= sems_count
     /\ semfs_wakeup(newcount)
     /\ sems_count' = newcount
     /\ us_balance' = (us_balance + n) % (UINT_MAX + 1)
     /\ us_missed' = (us_missed \/ (n > 0 /\ Missed))
  /\ UNCHANGED us_resid

\* semfs_truncate sets the count: open with O_TRUNC, or ftruncate.
semfs_truncate(t, n) ==
  /\ us_pc[t] = "out"
  /\ semfs_wakeup(n)
  /\ sems_count' = n
  /\ us_balance' = n
  /\ us_missed' = (us_missed \/ (n > 0 /\ Missed))
  /\ UNCHANGED us_resid

UserSemNext ==
  \E t \in UsThreads :
    \/ ReadAgain(t)
    \/ \E n \in 1..MaxIO : semfs_read(t, n) \/ semfs_write(t, n)
    \/ \E n \in 0..MaxIO : semfs_truncate(t, n)

UserSemSpec == UserSemInit /\ [][UserSemNext]_us_vars
-----------------------------------------------------------------------------
\* P's and V's balance: whatever readers sleep, wake late or take part of what
\* they want, the count is what was written since the last truncate minus what
\* was read, and never wraps below zero.
CountBalances == sems_count = us_balance

\* semfs_wakeup skips the wakeup when the count was positive, because only a
\* count of zero has sleepers.  Apart from the case where a V comes between a
\* wakeup and the reader it woke, a reader does not stay asleep beside a
\* positive count that nobody is on the way to take.
NoReaderForgotten ==
  sems_count > 0 /\ Sleeping # {} /\ ~us_missed => \E t \in UsThreads : us_pc[t] = "awake"

\* semfs keeps a semaphore, its name and its vnode alive exactly as long as
\* somebody can reach them, and its count and its sleepers agree, apart from the
\* race of remove with reclaim and the V that overtakes a woken reader.
SemfsSafe == VnodeCountExact /\ SemaphoreLives /\ CountBalances /\ NoReaderForgotten
=============================================================================
