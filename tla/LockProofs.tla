----------------------------- MODULE LockProofs -----------------------------
(***************************************************************************)
(* The semaphore, the sleep lock and the condition variable for every set  *)
(* of threads and every initial count.                                     *)
(*                                                                         *)
(* The three invariants of Semaphore together are inductive: NoLostWakeup  *)
(* needs to know that the thread V takes off the channel was asleep, hence *)
(* not yet counted among the woken ones.  On top of them LockInv says      *)
(* whose the one unit of the lock's semaphore is, that lk_owner and        *)
(* cv_lock name the threads at the matching places of the code, and that   *)
(* the channel of the condition variable lists sleepers, each once.  From  *)
(* it follow the invariants of Lock, and that Lock implements Monitor.     *)
(*                                                                         *)
(* The spinlock and the interrupt level below them, for any number of      *)
(* processors and of locks.                                                *)
(***************************************************************************)
EXTENDS Lock, Spinlock, Integers, FiniteSetTheorems, TLAPS

\* The inductive invariant: the three invariants together.
SemInv == SemTypeOK /\ ChannelListsSleepers /\ NoLostWakeup

\* What wchan_wakeone does when somebody sleeps: exactly the oldest sleeper
\* leaves the channel and becomes woken.
LEMMA WakeOne ==
  ASSUME SemTypeOK, ChannelListsSleepers, sem_wchan # <<>>, wchan_wakeone
  PROVE  /\ Head(sem_wchan) \in Threads
         /\ sem_pc[Head(sem_wchan)] = "asleep"
         /\ sem_pc' = [sem_pc EXCEPT ![Head(sem_wchan)] = "woken"]
         /\ sem_wchan' \in Seq(Threads)
         /\ Len(sem_wchan') = Len(sem_wchan) - 1
         /\ \A i \in 1..Len(sem_wchan') : sem_wchan'[i] = sem_wchan[i + 1]
         /\ \A i \in 1..Len(sem_wchan') : sem_wchan'[i] # Head(sem_wchan)
<1>1. /\ sem_wchan \in Seq(Threads) /\ Len(sem_wchan) \in Nat
      /\ Len(sem_wchan) >= 1 /\ Head(sem_wchan) = sem_wchan[1]
  BY DEF SemTypeOK
<1>2. /\ sem_wchan' = Tail(sem_wchan)
      /\ sem_pc' = [sem_pc EXCEPT ![Head(sem_wchan)] = "woken"]
  BY DEF wchan_wakeone
<1>3. /\ sem_wchan' \in Seq(Threads)
      /\ Len(sem_wchan') = Len(sem_wchan) - 1
      /\ \A i \in 1..Len(sem_wchan') : sem_wchan'[i] = sem_wchan[i + 1]
  BY <1>1, <1>2
<1>4. Head(sem_wchan) \in Threads /\ sem_pc[Head(sem_wchan)] = "asleep"
  BY <1>1 DEF ChannelListsSleepers
<1>5. ASSUME NEW i \in 1..Len(sem_wchan')
      PROVE  sem_wchan'[i] # Head(sem_wchan)
  <2>1. /\ i + 1 \in 1..Len(sem_wchan) /\ 1 \in 1..Len(sem_wchan) /\ i + 1 # 1
        /\ sem_wchan'[i] = sem_wchan[i + 1]
    BY <1>1, <1>3
  <2> QED  BY <1>1, <2>1 DEF ChannelListsSleepers
<1> QED  BY <1>2, <1>3, <1>4, <1>5

\* The threads that V has woken are finitely many.
LEMMA WokenIsFinite ==
  ASSUME SemaphoreAssumption
  PROVE  IsFiniteSet(Woken) /\ Cardinality(Woken) \in Nat
BY FS_Subset, FS_CardinalityType DEF Woken, SemaphoreAssumption

\* sem_create: no thread sleeps and none is woken.
LEMMA InitSem == sem_create => SemInv
BY SemaphoreAssumption
   DEF sem_create, SemInv, SemTypeOK, SemPcs, ChannelListsSleepers,
       NoLostWakeup, SemaphoreAssumption

\* P with a positive count keeps the invariant: a woken thread takes its unit along.
LEMMA PPassSem ==
  ASSUME NEW t \in Threads, SemInv, PPass(t)
  PROVE  SemInv'
<1> USE DEF SemInv
<1>1. SemTypeOK'
  BY DEF PPass, SemTypeOK, SemPcs
<1>2. ChannelListsSleepers'
  BY DEF PPass, SemTypeOK, ChannelListsSleepers
<1>3. NoLostWakeup'
  <2>1. Woken' = Woken \ {t}
    BY DEF Woken, PPass, SemTypeOK
  <2>2. IsFiniteSet(Woken) /\ Cardinality(Woken) \in Nat
    BY WokenIsFinite, SemaphoreAssumption
  <2>3. Cardinality(Woken \ {t}) =
          IF t \in Woken THEN Cardinality(Woken) - 1 ELSE Cardinality(Woken)
    BY <2>2, FS_RemoveElement
  <2> QED  BY <2>1, <2>2, <2>3 DEF PPass, NoLostWakeup, SemTypeOK
<1> QED  BY <1>1, <1>2, <1>3

\* P at zero: the thread is on sem_wchan before it sleeps.
LEMMA PBlockSem ==
  ASSUME NEW t \in Threads, SemInv, PBlock(t)
  PROVE  SemInv'
<1> USE DEF SemInv
<1>0. /\ sem_wchan \in Seq(Threads) /\ Len(sem_wchan) \in Nat
      /\ sem_wchan' = Append(sem_wchan, t)
      /\ Len(sem_wchan') = Len(sem_wchan) + 1
      /\ \A i \in 1..Len(sem_wchan) : sem_wchan'[i] = sem_wchan[i]
      /\ sem_wchan'[Len(sem_wchan) + 1] = t
  BY DEF PBlock, wchan_sleep, SemTypeOK
<1>1. SemTypeOK'
  BY DEF PBlock, wchan_sleep, SemTypeOK, SemPcs
<1>2. ChannelListsSleepers'
  <2>1. \A i \in 1..Len(sem_wchan) : sem_wchan[i] # t
    BY DEF PBlock, ChannelListsSleepers
  <2>2. ASSUME NEW u \in Threads
        PROVE  sem_pc'[u] = "asleep" <=> \E i \in 1..Len(sem_wchan') : sem_wchan'[i] = u
    <3>1. CASE u = t
      BY <1>0, <3>1 DEF PBlock, wchan_sleep, SemTypeOK
    <3>2. CASE u # t
      <4>1. sem_pc'[u] = sem_pc[u]
        BY <3>2 DEF PBlock, wchan_sleep, SemTypeOK
      <4>2. (\E i \in 1..Len(sem_wchan') : sem_wchan'[i] = u)
              <=> (\E i \in 1..Len(sem_wchan) : sem_wchan[i] = u)
        BY <1>0, <3>2
      <4> QED  BY <4>1, <4>2 DEF ChannelListsSleepers
    <3> QED  BY <3>1, <3>2
  <2>3. ASSUME NEW i \in 1..Len(sem_wchan'), NEW j \in 1..Len(sem_wchan'),
               sem_wchan'[i] = sem_wchan'[j]
        PROVE  i = j
    BY <1>0, <2>1, <2>3 DEF ChannelListsSleepers
  <2> QED  BY <2>2, <2>3 DEF ChannelListsSleepers
<1>3. NoLostWakeup'
  <2>1. IsFiniteSet(Woken') /\ Cardinality(Woken') \in Nat
    BY SemaphoreAssumption, FS_Subset, FS_CardinalityType DEF Woken, SemaphoreAssumption
  <2> QED  BY <2>1 DEF PBlock, NoLostWakeup
<1> QED  BY <1>1, <1>2, <1>3

\* V: the new unit has a woken thread to take it, if anybody sleeps.
LEMMA VSem ==
  ASSUME SemInv, V
  PROVE  SemInv'
<1> USE DEF SemInv
<1>1. CASE sem_wchan = <<>>
  BY <1>1 DEF V, wchan_wakeone, SemTypeOK, ChannelListsSleepers, NoLostWakeup
<1>2. CASE sem_wchan # <<>>
  <2> DEFINE h == Head(sem_wchan)
  <2>1. wchan_wakeone /\ sem_count' = sem_count + 1
    BY DEF V
  <2>2. /\ h \in Threads
        /\ sem_pc[h] = "asleep"
        /\ sem_pc' = [sem_pc EXCEPT ![h] = "woken"]
        /\ sem_wchan' \in Seq(Threads)
        /\ Len(sem_wchan') = Len(sem_wchan) - 1
        /\ \A i \in 1..Len(sem_wchan') : sem_wchan'[i] = sem_wchan[i + 1]
        /\ \A i \in 1..Len(sem_wchan') : sem_wchan'[i] # h
    BY <1>2, <2>1, WakeOne
  <2>3. SemTypeOK'
    BY <2>1, <2>2 DEF SemTypeOK, SemPcs
  <2>4. Len(sem_wchan) \in Nat /\ Len(sem_wchan) >= 1 /\ h = sem_wchan[1]
    BY <1>2 DEF SemTypeOK
  <2> HIDE DEF h
  <2>5. ASSUME NEW u \in Threads
        PROVE  sem_pc'[u] = "asleep" <=> \E i \in 1..Len(sem_wchan') : sem_wchan'[i] = u
    <3>1. CASE u = h
      BY <2>2, <3>1 DEF SemTypeOK
    <3>2. CASE u # h
      <4>1. sem_pc'[u] = sem_pc[u]
        BY <2>2, <3>2 DEF SemTypeOK
      <4>2. ASSUME NEW i \in 1..Len(sem_wchan), sem_wchan[i] = u
            PROVE  i - 1 \in 1..Len(sem_wchan') /\ sem_wchan'[i - 1] = u
        BY <2>2, <2>4, <3>2, <4>2
      <4>3. ASSUME NEW i \in 1..Len(sem_wchan'), sem_wchan'[i] = u
            PROVE  i + 1 \in 1..Len(sem_wchan) /\ sem_wchan[i + 1] = u
        BY <2>2, <2>4, <4>3
      <4> QED  BY <4>1, <4>2, <4>3 DEF ChannelListsSleepers
    <3> QED  BY <3>1, <3>2
  <2>6. ASSUME NEW i \in 1..Len(sem_wchan'), NEW j \in 1..Len(sem_wchan'),
               sem_wchan'[i] = sem_wchan'[j]
        PROVE  i = j
    <3>1. /\ i + 1 \in 1..Len(sem_wchan) /\ j + 1 \in 1..Len(sem_wchan)
          /\ sem_wchan[i + 1] = sem_wchan[j + 1]
      BY <2>2, <2>4, <2>6
    <3> QED  BY <3>1 DEF ChannelListsSleepers
  <2>7. ChannelListsSleepers'
    BY <2>5, <2>6 DEF ChannelListsSleepers
  <2>8. NoLostWakeup'
    <3>1. Woken' = Woken \cup {h} /\ h \notin Woken
      BY <2>2 DEF Woken, SemTypeOK
    <3>2. IsFiniteSet(Woken) /\ Cardinality(Woken) \in Nat
      BY WokenIsFinite, SemaphoreAssumption
    <3>3. Cardinality(Woken') = Cardinality(Woken) + 1
      BY <3>1, <3>2, FS_AddElement
    <3> QED  BY <1>2, <2>1, <3>2, <3>3 DEF NoLostWakeup, SemTypeOK
  <2> QED  BY <2>3, <2>7, <2>8
<1> QED  BY <1>1, <1>2

\* Every step of P and V keeps the semaphore's invariant.
LEMMA NextSem == SemInv /\ [SemNext]_sem_vars => SemInv'
<1> SUFFICES ASSUME SemInv, [SemNext]_sem_vars
             PROVE  SemInv'
  OBVIOUS
<1>1. CASE \E t \in Threads : PPass(t) \/ PBlock(t)
  BY <1>1, PPassSem, PBlockSem
<1>2. CASE SemPost
  BY <1>2, VSem DEF SemPost
<1>3. CASE UNCHANGED sem_vars
  BY <1>3 DEF sem_vars, SemInv, SemTypeOK, ChannelListsSleepers, NoLostWakeup, Woken
<1> QED  BY <1>1, <1>2, <1>3 DEF SemNext

\* Type correctness, and the channel of P and V lists exactly the sleepers.
THEOREM SemaphoreChannel == SemSpec => [](SemTypeOK /\ ChannelListsSleepers)
<1>1. SemInv => SemTypeOK /\ ChannelListsSleepers
  BY DEF SemInv
<1> QED  BY <1>1, InitSem, NextSem, PTL DEF SemSpec

\* No V is lost: P's retest loop and V's single wakeup, for any number of
\* threads and any count.
THEOREM SemaphoreNoLostWakeup == SemSpec => []NoLostWakeup
<1>1. SemInv => NoLostWakeup
  BY DEF SemInv
<1> QED  BY <1>1, InitSem, NextSem, PTL DEF SemSpec
-----------------------------------------------------------------------------
\* The one unit of lk_sem is in the semaphore or with the thread past P.
OneUnit ==
  /\ \A t, u \in Threads : PastP(t) /\ PastP(u) => t = u
  /\ sem_count = 0 <=> \E t \in Threads : PastP(t)

OwnerIsHolder ==
  \A t \in Threads : pc[t] \in {"held", "cv_locked"} <=> lk_owner = t

CvLockHolder ==
  \A t \in Threads : pc[t] \in {"cv_locked", "cv_released"} <=> cv_lock = t

CvListsSleepers ==
  /\ \A i \in 1..Len(cv_wchan) : pc[cv_wchan[i]] = "cv_asleep"
  /\ \A i, j \in 1..Len(cv_wchan) : cv_wchan[i] = cv_wchan[j] => i = j

LockInv ==
  /\ LockTypeOK /\ SemInv
  /\ OneUnit /\ OwnerIsHolder
  /\ CvLockHolder /\ CvListsSleepers
-----------------------------------------------------------------------------
\* lock_create and cv_create: the unit is in lk_sem, nobody owns the lock or waits.
LEMMA InitLock == LockInit => LockInv
<1> SUFFICES ASSUME LockInit PROVE LockInv
  BY Zenon
<1>0. /\ sem_count = 1 /\ lk_owner = NoThread /\ cv_lock = NoThread /\ cv_wchan = <<>>
      /\ pc = [t \in Threads |-> "idle"] /\ NoThread \notin Threads
  BY Zenon, LockAssumption DEF LockInit, lock_create, cv_create, sem_create, LockAssumption
<1>1. SemInv
  BY Zenon, InitSem DEF LockInit, lock_create
<1>2. LockTypeOK
  BY <1>0, <1>1 DEF LockTypeOK, SemInv, LockPcs
<1>3. OneUnit /\ OwnerIsHolder /\ CvLockHolder /\ CvListsSleepers
  BY <1>0 DEF OneUnit, OwnerIsHolder, CvLockHolder, CvListsSleepers, PastP
<1> QED  BY Zenon, <1>1, <1>2, <1>3 DEF LockInv

\* What leaves the semaphore alone keeps its invariant.
LEMMA SemKept == ASSUME SemInv, UNCHANGED sem_vars PROVE SemInv'
<1>1. UNCHANGED <<sem_count, sem_wchan, sem_pc>>
  BY Zenon DEF sem_vars
<1>2. Woken' = Woken
  BY <1>1, Zenon DEF Woken
<1> QED  BY <1>1, <1>2, Zenon DEF SemInv, SemTypeOK, ChannelListsSleepers, NoLostWakeup

\* A step that moves one thread between two places past P or between two
\* before it, away from the channel, and leaves the semaphore alone.
LEMMA LocalStep ==
  ASSUME LockInv, NEW t \in Threads, NEW l \in LockPcs, Goto(t, l),
         pc[t] # "cv_asleep", l # "cv_asleep",
         (pc[t] \in {"passed", "held", "cv_locked"}) <=> (l \in {"passed", "held", "cv_locked"}),
         lk_owner' \in Threads \cup {NoThread}, cv_lock' \in Threads \cup {NoThread},
         OwnerIsHolder', CvLockHolder',
         UNCHANGED <<sem_vars, cv_wchan>>
  PROVE  LockInv'
<1> USE DEF LockInv
<1>1. UNCHANGED <<sem_count, sem_wchan, sem_pc>>
  BY Zenon DEF sem_vars
<1>2. SemInv'
  BY Zenon, SemKept
<1>3. /\ pc' \in [Threads -> LockPcs] /\ pc'[t] = l
      /\ \A u \in Threads \ {t} : pc'[u] = pc[u]
  BY Zenon DEF Goto, LockTypeOK
<1>4. LockTypeOK'
  BY <1>1, <1>2, <1>3, Zenon DEF LockTypeOK, SemInv
<1>5. \A u \in Threads : PastP(u)' <=> PastP(u)
  BY <1>3, Zenon DEF PastP
<1>6. OneUnit'
  BY <1>1, <1>5, Zenon DEF OneUnit
<1>7. CvListsSleepers'
  <2>1. \A i \in 1..Len(cv_wchan) : cv_wchan[i] \in Threads
    BY DEF LockTypeOK
  <2> QED  BY <1>3, <2>1, Zenon DEF CvListsSleepers
<1> QED  BY Zenon, <1>2, <1>4, <1>6, <1>7

\* P(lk_sem) in lock_acquire: the thread that passes has the one unit.
LEMMA LockAcquireInv ==
  ASSUME LockInv, NEW t \in Threads, lock_acquire(t)
  PROVE  LockInv'
<1>1. /\ pc \in [Threads -> LockPcs] /\ OwnerIsHolder /\ CvLockHolder
      /\ lk_owner \in Threads \cup {NoThread} /\ cv_lock \in Threads \cup {NoThread}
  BY Zenon DEF LockInv, LockTypeOK
<1>2. /\ pc[t] = "idle" /\ Goto(t, "acquire") /\ "acquire" \in LockPcs
      /\ UNCHANGED <<sem_vars, lk_owner, cv_lock, cv_wchan>>
  BY Zenon DEF lock_acquire, LockPcs
<1>3. pc'[t] = "acquire" /\ \A u \in Threads \ {t} : pc'[u] = pc[u]
  BY Zenon, <1>1, <1>2 DEF Goto
<1>4. OwnerIsHolder' /\ CvLockHolder'
  BY Zenon, <1>1, <1>2, <1>3 DEF OwnerIsHolder, CvLockHolder
<1> QED  BY Zenon, <1>1, <1>2, <1>4, LocalStep

\* P returns to one thread at most.
LEMMA AcquirePInv ==
  ASSUME LockInv, NEW t \in Threads, AcquireP(t)
  PROVE  LockInv'
<1> USE DEF LockInv
<1>0. pc[t] = "acquire" /\ UNCHANGED <<lk_owner, cv_lock, cv_wchan>>
  BY Zenon DEF AcquireP
<1>1. CASE PPass(t) /\ Goto(t, "passed")
  <2>1. SemInv'
    BY Zenon, <1>1, PPassSem
  <2>2. sem_count = 1 /\ sem_count' = 0
    BY <1>1 DEF PPass, LockTypeOK
  <2>3. /\ pc' \in [Threads -> LockPcs] /\ pc'[t] = "passed"
        /\ \A u \in Threads \ {t} : pc'[u] = pc[u]
    BY Zenon, <1>1 DEF Goto, LockTypeOK, LockPcs
  <2>4. LockTypeOK'
    BY Zenon, <1>0, <2>1, <2>2, <2>3 DEF LockTypeOK, SemInv
  <2>5. \A u \in Threads : ~PastP(u)
    BY <2>2 DEF OneUnit
  <2>6. OneUnit'
    BY Zenon, <2>2, <2>3, <2>5 DEF OneUnit, PastP
  <2>7. OwnerIsHolder' /\ CvLockHolder'
    BY Zenon, <1>0, <2>3 DEF OwnerIsHolder, CvLockHolder
  <2>8. \A i \in 1..Len(cv_wchan) : cv_wchan[i] \in Threads
    BY DEF LockTypeOK
  <2>9. CvListsSleepers'
    BY Zenon, <1>0, <2>3, <2>8 DEF CvListsSleepers
  <2> QED  BY Zenon, <2>1, <2>4, <2>6, <2>7, <2>9
<1>2. CASE PBlock(t) /\ UNCHANGED pc
  <2>1. SemInv' /\ sem_count' = sem_count
    BY Zenon, <1>2, PBlockSem DEF PBlock
  <2>2. LockTypeOK'
    BY Zenon, <1>0, <1>2, <2>1 DEF LockTypeOK, SemInv
  <2>3. OneUnit'
    BY Zenon, <1>0, <1>2, <2>1 DEF OneUnit, PastP
  <2>4. OwnerIsHolder' /\ CvLockHolder'
    BY Zenon, <1>0, <1>2 DEF OwnerIsHolder, CvLockHolder
  <2>5. CvListsSleepers'
    BY Zenon, <1>0, <1>2 DEF CvListsSleepers
  <2> QED  BY Zenon, <2>1, <2>2, <2>3, <2>4, <2>5
<1> QED  BY Zenon, <1>1, <1>2 DEF AcquireP

\* KASSERT(lk_owner == NULL) holds when the owner is set.
LEMMA NoOwnerWhenPassed ==
  ASSUME LockInv, NEW t \in Threads, pc[t] = "passed"
  PROVE  lk_owner = NoThread
<1>1. \A u \in Threads : PastP(u) => u = t
  BY Zenon DEF LockInv, OneUnit, PastP
<1>2. \A u \in Threads : lk_owner # u
  BY Zenon, <1>1 DEF LockInv, OwnerIsHolder, PastP
<1> QED  BY Zenon, <1>2 DEF LockInv, LockTypeOK

\* Setting lk_owner after P: it names the thread with the unit.
LEMMA AcquireOwnInv ==
  ASSUME LockInv, NEW t \in Threads, AcquireOwn(t)
  PROVE  LockInv'
<1>1. /\ pc \in [Threads -> LockPcs] /\ OwnerIsHolder /\ CvLockHolder
      /\ cv_lock \in Threads \cup {NoThread} /\ NoThread \notin Threads
  BY Zenon, LockAssumption DEF LockInv, LockTypeOK, LockAssumption
<1>2. /\ pc[t] = "passed" /\ Goto(t, "held") /\ "held" \in LockPcs /\ lk_owner' = t
      /\ UNCHANGED <<sem_vars, cv_lock, cv_wchan>>
  BY Zenon DEF AcquireOwn, LockPcs
<1>3. pc'[t] = "held" /\ \A u \in Threads \ {t} : pc'[u] = pc[u]
  BY Zenon, <1>1, <1>2 DEF Goto
<1>4. lk_owner = NoThread
  BY Zenon, <1>2, NoOwnerWhenPassed
<1>5. OwnerIsHolder' /\ CvLockHolder'
  BY Zenon, <1>1, <1>2, <1>3, <1>4 DEF OwnerIsHolder, CvLockHolder
<1> QED  BY Zenon, <1>1, <1>2, <1>5, LocalStep

\* lock_release, called by itself or from cv_wait: the unit goes back.
LEMMA DropInv ==
  ASSUME LockInv, NEW t \in Threads, NEW l \in {"idle", "cv_released"}, DropLock(t), Goto(t, l),
         l = "idle" => pc[t] = "held",
         l = "cv_released" => pc[t] = "cv_locked",
         UNCHANGED <<cv_lock, cv_wchan>>
  PROVE  LockInv'
<1> USE DEF LockInv
<1>0. pc[t] \in {"held", "cv_locked"} /\ lk_owner = t /\ PastP(t) /\ NoThread \notin Threads
  BY Zenon, LockAssumption DEF OwnerIsHolder, PastP, LockAssumption
<1>1. SemInv' /\ lk_owner' = NoThread
  BY Zenon, VSem DEF DropLock
<1>2. sem_count = 0 /\ sem_count' = 1
  BY <1>0 DEF OneUnit, DropLock, V, LockTypeOK
<1>3. /\ pc' \in [Threads -> LockPcs] /\ pc'[t] = l
      /\ \A u \in Threads \ {t} : pc'[u] = pc[u]
  BY Zenon DEF Goto, LockTypeOK, LockPcs
<1>4. LockTypeOK'
  BY Zenon, <1>1, <1>2, <1>3 DEF LockTypeOK, SemInv
<1>5. \A u \in Threads \ {t} : ~PastP(u)
  BY Zenon, <1>0 DEF OneUnit
<1>6. \A u \in Threads : ~PastP(u)'
  BY Zenon, <1>3, <1>5 DEF PastP
<1>7. OneUnit'
  BY <1>2, <1>6 DEF OneUnit
<1>8. OwnerIsHolder'
  BY Zenon, <1>0, <1>1, <1>6 DEF OwnerIsHolder, PastP
<1>9. CvLockHolder'
  BY Zenon, <1>0, <1>3 DEF CvLockHolder
<1>10. \A i \in 1..Len(cv_wchan) : cv_wchan[i] \in Threads
  BY DEF LockTypeOK
<1>11. CvListsSleepers'
  BY Zenon, <1>0, <1>3, <1>10 DEF CvListsSleepers
<1> QED  BY Zenon, <1>1, <1>4, <1>7, <1>8, <1>9, <1>11

\* cv_wait takes cv_lock while it holds the lock.
LEMMA CvWaitInv ==
  ASSUME LockInv, NEW t \in Threads, cv_wait(t)
  PROVE  LockInv'
<1>1. /\ pc \in [Threads -> LockPcs] /\ OwnerIsHolder /\ CvLockHolder
      /\ lk_owner \in Threads \cup {NoThread} /\ NoThread \notin Threads
  BY Zenon, LockAssumption DEF LockInv, LockTypeOK, LockAssumption
<1>2. /\ pc[t] = "held" /\ Goto(t, "cv_locked") /\ "cv_locked" \in LockPcs
      /\ cv_lock = NoThread /\ cv_lock' = t
      /\ UNCHANGED <<sem_vars, lk_owner, cv_wchan>>
  BY Zenon DEF cv_wait, LockPcs
<1>3. pc'[t] = "cv_locked" /\ \A u \in Threads \ {t} : pc'[u] = pc[u]
  BY Zenon, <1>1, <1>2 DEF Goto
<1>4. OwnerIsHolder' /\ CvLockHolder'
  BY Zenon, <1>1, <1>2, <1>3 DEF OwnerIsHolder, CvLockHolder
<1> QED  BY Zenon, <1>1, <1>2, <1>4, LocalStep

\* A woken thread of cv_wait goes on to lock_acquire.
LEMMA CvReacquireInv ==
  ASSUME LockInv, NEW t \in Threads, CvReacquire(t)
  PROVE  LockInv'
<1>1. /\ pc \in [Threads -> LockPcs] /\ OwnerIsHolder /\ CvLockHolder
      /\ lk_owner \in Threads \cup {NoThread} /\ cv_lock \in Threads \cup {NoThread}
  BY Zenon DEF LockInv, LockTypeOK
<1>2. /\ pc[t] = "cv_woken" /\ Goto(t, "acquire") /\ "acquire" \in LockPcs
      /\ UNCHANGED <<sem_vars, lk_owner, cv_lock, cv_wchan>>
  BY Zenon DEF CvReacquire, LockPcs
<1>3. pc'[t] = "acquire" /\ \A u \in Threads \ {t} : pc'[u] = pc[u]
  BY Zenon, <1>1, <1>2 DEF Goto
<1>4. OwnerIsHolder' /\ CvLockHolder'
  BY Zenon, <1>1, <1>2, <1>3 DEF OwnerIsHolder, CvLockHolder
<1> QED  BY Zenon, <1>1, <1>2, <1>4, LocalStep

\* cv_wait puts its thread on cv_wchan and only then gives cv_lock up.
LEMMA CvSleepInv ==
  ASSUME LockInv, NEW t \in Threads, CvSleep(t)
  PROVE  LockInv'
<1> USE DEF LockInv
<1>0. /\ pc[t] = "cv_released" /\ Goto(t, "cv_asleep") /\ cv_lock' = NoThread
      /\ cv_wchan' = Append(cv_wchan, t) /\ UNCHANGED <<sem_vars, lk_owner>>
  BY Zenon DEF CvSleep
<1>1. UNCHANGED <<sem_count, sem_wchan, sem_pc>> /\ NoThread \notin Threads
  BY Zenon, <1>0, LockAssumption DEF sem_vars, LockAssumption
<1>2. SemInv'
  BY Zenon, <1>0, SemKept
<1>3. /\ pc' \in [Threads -> LockPcs] /\ pc'[t] = "cv_asleep"
      /\ \A u \in Threads \ {t} : pc'[u] = pc[u]
  BY Zenon, <1>0 DEF Goto, LockTypeOK, LockPcs
<1>4. /\ cv_wchan \in Seq(Threads) /\ cv_wchan' \in Seq(Threads) /\ Len(cv_wchan) \in Nat
      /\ Len(cv_wchan') = Len(cv_wchan) + 1
      /\ \A i \in 1..Len(cv_wchan) : cv_wchan'[i] = cv_wchan[i] /\ cv_wchan[i] \in Threads
      /\ cv_wchan'[Len(cv_wchan) + 1] = t
  BY <1>0 DEF LockTypeOK
<1>5. LockTypeOK'
  BY <1>0, <1>1, <1>2, <1>3, <1>4, Zenon DEF LockTypeOK, SemInv
<1>6. \A u \in Threads : PastP(u)' <=> PastP(u)
  BY Zenon, <1>0, <1>3 DEF PastP
<1>7. OneUnit'
  BY <1>1, <1>6, Zenon DEF OneUnit
<1>8. OwnerIsHolder' /\ CvLockHolder'
  BY Zenon, <1>0, <1>1, <1>3 DEF OwnerIsHolder, CvLockHolder
<1>9. CvListsSleepers'
  <2>1. \A i \in 1..Len(cv_wchan) : cv_wchan[i] # t
    BY Zenon, <1>0 DEF CvListsSleepers
  <2>2. ASSUME NEW i \in 1..Len(cv_wchan') PROVE pc'[cv_wchan'[i]] = "cv_asleep"
    <3>1. CASE i \in 1..Len(cv_wchan)
      <4>1. cv_wchan'[i] = cv_wchan[i] /\ cv_wchan[i] \in Threads \ {t}
        BY Zenon, <1>4, <2>1, <3>1
      <4>2. pc[cv_wchan[i]] = "cv_asleep"
        BY Zenon, <3>1 DEF CvListsSleepers
      <4> QED  BY Zenon, <1>3, <4>1, <4>2
    <3>2. CASE i = Len(cv_wchan) + 1
      BY Zenon, <1>3, <1>4, <3>2
    <3> QED  BY <1>4, <3>1, <3>2
  <2>3. ASSUME NEW i \in 1..Len(cv_wchan'), NEW j \in 1..Len(cv_wchan'), cv_wchan'[i] = cv_wchan'[j]
        PROVE  i = j
    BY <1>4, <2>1, <2>3 DEF CvListsSleepers
  <2> QED  BY Zenon, <2>2, <2>3 DEF CvListsSleepers
<1> QED  BY Zenon, <1>2, <1>5, <1>7, <1>8, <1>9

\* cv_signal and cv_broadcast move sleepers to "cv_woken" and nobody else.
LEMMA WakeInv ==
  ASSUME LockInv, UNCHANGED <<sem_vars, lk_owner, cv_lock>>,
         pc' \in [Threads -> LockPcs], cv_wchan' \in Seq(Threads),
         \A u \in Threads : pc'[u] = pc[u] \/ (pc[u] = "cv_asleep" /\ pc'[u] = "cv_woken"),
         CvListsSleepers'
  PROVE  LockInv'
<1> USE DEF LockInv
<1>1. UNCHANGED <<sem_count, sem_wchan, sem_pc>>
  BY Zenon DEF sem_vars
<1>2. SemInv'
  BY Zenon, SemKept
<1>3. LockTypeOK'
  BY <1>1, <1>2, Zenon DEF LockTypeOK, SemInv
<1>4. \A u \in Threads : PastP(u)' <=> PastP(u)
  BY Zenon DEF PastP
<1>5. OneUnit'
  BY <1>1, <1>4, Zenon DEF OneUnit
<1>6. OwnerIsHolder' /\ CvLockHolder'
  BY Zenon DEF OwnerIsHolder, CvLockHolder
<1> QED  BY Zenon, <1>2, <1>3, <1>5, <1>6

\* cv_signal wakes a thread that is on cv_wchan.
LEMMA CvSignalInv ==
  ASSUME LockInv, NEW t \in Threads, cv_signal(t)
  PROVE  LockInv'
<1> USE DEF LockInv
<1>0. UNCHANGED <<sem_vars, lk_owner, cv_lock>> /\ pc \in [Threads -> LockPcs] /\ cv_wchan \in Seq(Threads)
  BY Zenon DEF cv_signal, LockTypeOK
<1>1. CASE cv_wchan = <<>>
  <2>1. UNCHANGED <<cv_wchan, pc>>
    BY Zenon, <1>1 DEF cv_signal
  <2>2. CvListsSleepers'
    BY Zenon, <2>1 DEF CvListsSleepers
  <2> QED  BY Zenon, <1>0, <2>1, <2>2, WakeInv
<1>2. CASE cv_wchan # <<>>
  <2> DEFINE h == Head(cv_wchan)
  <2>1. cv_wchan' = Tail(cv_wchan) /\ Goto(h, "cv_woken")
    BY Zenon, <1>2 DEF cv_signal
  <2>2. /\ Len(cv_wchan) \in Nat /\ Len(cv_wchan) >= 1 /\ h = cv_wchan[1] /\ h \in Threads
        /\ cv_wchan' \in Seq(Threads) /\ Len(cv_wchan') = Len(cv_wchan) - 1
        /\ \A i \in 1..Len(cv_wchan') : cv_wchan'[i] = cv_wchan[i + 1] /\ cv_wchan[i + 1] \in Threads
    BY <1>0, <1>2, <2>1
  <2>3. pc[h] = "cv_asleep"
    BY <2>2 DEF CvListsSleepers
  <2> HIDE DEF h
  <2>4. /\ pc' \in [Threads -> LockPcs] /\ pc'[h] = "cv_woken"
        /\ \A u \in Threads \ {h} : pc'[u] = pc[u]
    BY Zenon, <1>0, <2>1, <2>2 DEF Goto, LockPcs
  <2>5. ASSUME NEW i \in 1..Len(cv_wchan') PROVE pc'[cv_wchan'[i]] = "cv_asleep"
    <3>1. i + 1 \in 1..Len(cv_wchan) /\ 1 \in 1..Len(cv_wchan) /\ i + 1 # 1
      BY <2>2
    <3>2. cv_wchan[i + 1] # h /\ pc[cv_wchan[i + 1]] = "cv_asleep"
      BY Zenon, <2>2, <3>1 DEF CvListsSleepers
    <3> QED  BY Zenon, <2>2, <2>4, <3>2
  <2>6. ASSUME NEW i \in 1..Len(cv_wchan'), NEW j \in 1..Len(cv_wchan'), cv_wchan'[i] = cv_wchan'[j]
        PROVE  i = j
    <3>1. /\ i + 1 \in 1..Len(cv_wchan) /\ j + 1 \in 1..Len(cv_wchan)
          /\ cv_wchan[i + 1] = cv_wchan[j + 1]
      BY <2>2, <2>6
    <3> QED  BY <3>1 DEF CvListsSleepers
  <2>7. CvListsSleepers'
    BY <2>5, <2>6, Zenon DEF CvListsSleepers
  <2> QED  BY <1>0, <2>2, <2>3, <2>4, <2>7, WakeInv
<1> QED  BY Zenon, <1>1, <1>2

\* cv_broadcast wakes all of them.
LEMMA CvBroadcastInv ==
  ASSUME LockInv, NEW t \in Threads, cv_broadcast(t)
  PROVE  LockInv'
<1> USE DEF LockInv
<1>0. /\ UNCHANGED <<sem_vars, lk_owner, cv_lock>> /\ pc \in [Threads -> LockPcs]
      /\ cv_wchan' = <<>> /\ cv_wchan' \in Seq(Threads)
  BY DEF cv_broadcast, LockTypeOK
<1>1. \A u \in Threads : pc'[u] = pc[u] \/ (pc[u] = "cv_asleep" /\ pc'[u] = "cv_woken")
  BY Zenon DEF cv_broadcast, CvListsSleepers
<1>2. pc' \in [Threads -> LockPcs]
  BY Zenon, <1>0 DEF cv_broadcast, LockPcs
<1>3. CvListsSleepers'
  BY <1>0 DEF CvListsSleepers
<1> QED  BY Zenon, <1>0, <1>1, <1>2, <1>3, WakeInv

\* A step that changes nothing keeps the invariant.
LEMMA LockStutter == ASSUME LockInv, UNCHANGED lock_vars PROVE LockInv'
<1>1. UNCHANGED <<sem_count, sem_wchan, sem_pc, lk_owner, cv_lock, cv_wchan, pc>>
  BY Zenon DEF lock_vars, sem_vars
<1>2. SemInv'
  BY Zenon, SemKept DEF LockInv, lock_vars
<1>3. LockTypeOK'
  BY <1>1, <1>2, Zenon DEF LockInv, LockTypeOK, SemInv
<1>4. \A u \in Threads : PastP(u)' <=> PastP(u)
  BY <1>1, Zenon DEF PastP
<1>5. OneUnit' /\ OwnerIsHolder' /\ CvLockHolder' /\ CvListsSleepers'
  BY <1>1, <1>4, ZenonT(60) DEF LockInv, OneUnit, OwnerIsHolder, CvLockHolder, CvListsSleepers
<1> QED  BY Zenon, <1>2, <1>3, <1>5 DEF LockInv

\* Every step of the lock and the condition variable keeps the invariant.
LEMMA NextLock == LockInv /\ [LockNext]_lock_vars => LockInv'
<1> SUFFICES ASSUME LockInv, [LockNext]_lock_vars PROVE LockInv'
  BY Zenon
<1>1. ASSUME NEW t \in Threads, lock_release(t) PROVE LockInv'
  BY Zenon, <1>1, DropInv DEF lock_release
<1>2. ASSUME NEW t \in Threads, CvRelease(t) PROVE LockInv'
  BY Zenon, <1>2, DropInv DEF CvRelease
<1>3. ASSUME NEW t \in Threads, Inside(t) PROVE LockInv'
  BY <1>2, <1>3, AcquirePInv, AcquireOwnInv, CvSleepInv, CvReacquireInv, Zenon DEF Inside
<1>4. CASE UNCHANGED lock_vars
  BY Zenon, <1>4, LockStutter
<1> QED  BY <1>1, <1>3, <1>4, LockAcquireInv, CvWaitInv, CvSignalInv, CvBroadcastInv, Zenon DEF LockNext

\* The invariant holds in every state of lock and condition variable.
LEMMA SpecLock == LockSpec => []LockInv
  BY InitLock, NextLock, PTL DEF LockSpec
-----------------------------------------------------------------------------
\* Who is in the waiting list of the monitor beyond the channel.
LEMMA ReleasedFacts ==
  ASSUME LockInv
  PROVE  /\ cv_lock = NoThread => Released = {}
         /\ \A t \in Threads : cv_lock = t =>
              Released = IF pc[t] = "cv_released" THEN {t} ELSE {}
<1>1. \A u \in Threads : pc[u] = "cv_released" => cv_lock = u
  BY Zenon DEF LockInv, CvLockHolder
<1>2. NoThread \notin Threads
  BY Zenon, LockAssumption DEF LockAssumption
<1> QED  BY Zenon, <1>1, <1>2 DEF Released

\* A new lock and condition variable are a new monitor.
LEMMA InitMonitor == LockInit => M!MonitorInit
<1> SUFFICES ASSUME LockInit PROVE M!MonitorInit
  BY Zenon
<1>1. lk_owner = NoThread /\ cv_wchan = <<>> /\ Released = {}
  BY Zenon DEF LockInit, lock_create, cv_create, Released
<1> QED  BY Zenon, <1>1 DEF M!MonitorInit

\* A step that changes neither the owner, nor the channel, nor who is between
\* lock_release and wchan_sleep in cv_wait, is not seen by the monitor.
LEMMA Unseen ==
  ASSUME UNCHANGED <<lk_owner, cv_wchan, Released>>
  PROVE  UNCHANGED M!monitor_vars
BY DEF M!monitor_vars

\* A thread that is not between lock_release and the sleep in cv_wait leaves those
\* that are as they were.
LEMMA ReleasedKept ==
  ASSUME LockTypeOK, NEW t \in Threads, NEW l \in LockPcs, Goto(t, l),
         pc[t] # "cv_released", l # "cv_released"
  PROVE  Released' = Released
<1>1. pc'[t] = l /\ \A u \in Threads \ {t} : pc'[u] = pc[u]
  BY Zenon DEF Goto, LockTypeOK
<1> QED  BY Zenon, <1>1 DEF Released

\* Every step is one of the monitor, or is not seen by it.
LEMMA StepMonitor == LockInv /\ [LockNext]_lock_vars => [M!MonitorNext]_(M!monitor_vars)
<1> SUFFICES ASSUME LockInv, [LockNext]_lock_vars
             PROVE  M!MonitorNext \/ UNCHANGED M!monitor_vars
  BY Zenon DEF M!monitor_vars
<1>0. LockTypeOK /\ pc \in [Threads -> LockPcs] /\ cv_wchan \in Seq(Threads)
  BY Zenon DEF LockInv, LockTypeOK
<1>1. ASSUME NEW t \in Threads, lock_acquire(t) \/ AcquireP(t) \/ cv_wait(t) \/ CvReacquire(t)
      PROVE  UNCHANGED M!monitor_vars
  <2>1. UNCHANGED <<lk_owner, cv_wchan>>
    BY Zenon, <1>1 DEF lock_acquire, AcquireP, cv_wait, CvReacquire
  <2>2. UNCHANGED pc \/ \E l \in LockPcs : Goto(t, l) /\ pc[t] # "cv_released" /\ l # "cv_released"
    BY Zenon, <1>1 DEF lock_acquire, AcquireP, cv_wait, CvReacquire, LockPcs
  <2>3. Released' = Released
    BY Zenon, <1>0, <2>2, ReleasedKept DEF Released
  <2> QED  BY Zenon, <2>1, <2>3, Unseen
<1>2. ASSUME NEW t \in Threads, AcquireOwn(t) PROVE M!Acquire(t)
  <2>1. lk_owner = NoThread /\ lk_owner' = t /\ cv_wchan' = cv_wchan /\ pc[t] = "passed" /\ Goto(t, "held")
    BY Zenon, <1>2, NoOwnerWhenPassed DEF AcquireOwn
  <2>2. Released' = Released
    BY Zenon, <1>0, <2>1, ReleasedKept DEF LockPcs
  <2>3. \A i \in 1..Len(cv_wchan) : cv_wchan[i] # t
    BY Zenon, <2>1 DEF LockInv, CvListsSleepers
  <2>4. CASE Released = {}
    BY Zenon, <2>1, <2>2, <2>3, <2>4 DEF M!Acquire
  <2>5. CASE Released # {}
    <3> DEFINE r == CHOOSE u \in Released : TRUE
               w == Append(cv_wchan, r)
    <3>1. r \in Released /\ r \in Threads /\ pc[r] = "cv_released"
      BY Zenon, <2>5 DEF Released
    <3>2. r # t
      BY Zenon, <2>1, <3>1
    <3> HIDE DEF r
    <3>3. \A i \in 1..Len(w) : w[i] # t
      BY <1>0, <2>3, <3>1, <3>2
    <3> QED  BY <2>1, <2>2, <2>5, <3>3 DEF M!Acquire, r
  <2> QED  BY Zenon, <2>4, <2>5
<1>3. ASSUME NEW t \in Threads, lock_release(t) PROVE M!Release(t)
  <2>1. pc[t] = "held" /\ Goto(t, "idle") /\ lk_owner' = NoThread /\ cv_wchan' = cv_wchan
    BY Zenon, <1>3 DEF lock_release, DropLock
  <2>2. Released' = Released
    BY Zenon, <1>0, <2>1, ReleasedKept DEF LockPcs
  <2>3. lk_owner = t
    BY Zenon, <2>1 DEF LockInv, OwnerIsHolder
  <2> QED  BY <2>1, <2>2, <2>3 DEF M!Release
<1>4. ASSUME NEW t \in Threads, CvRelease(t) PROVE M!Wait(t)
  <2>1. pc[t] = "cv_locked" /\ Goto(t, "cv_released") /\ lk_owner' = NoThread /\ cv_wchan' = cv_wchan
    BY Zenon, <1>4 DEF CvRelease, DropLock
  <2>2. lk_owner = t /\ cv_lock = t
    BY Zenon, <2>1 DEF LockInv, OwnerIsHolder, CvLockHolder
  <2>3. Released = {}
    BY Zenon, <2>1, <2>2, ReleasedFacts
  <2>4. Released' = {t}
    BY Zenon, <1>0, <2>1, <2>3 DEF Released, Goto
  <2>5. (CHOOSE u \in {t} : TRUE) = t
    BY Zenon
  <2> QED  BY Zenon, <2>1, <2>2, <2>3, <2>4, <2>5 DEF M!Wait
<1>5. ASSUME NEW t \in Threads, CvSleep(t) PROVE UNCHANGED M!monitor_vars
  <2>1. pc[t] = "cv_released" /\ Goto(t, "cv_asleep") /\ cv_wchan' = Append(cv_wchan, t) /\ lk_owner' = lk_owner
    BY Zenon, <1>5 DEF CvSleep
  <2>2. cv_lock = t
    BY Zenon, <2>1 DEF LockInv, CvLockHolder
  <2>3. Released = {t}
    BY Zenon, <2>1, <2>2, ReleasedFacts
  <2>4. Released' = {}
    BY Zenon, <1>0, <2>1, <2>3 DEF Released, Goto
  <2>5. (CHOOSE u \in {t} : TRUE) = t
    BY Zenon
  <2> QED  BY Zenon, <2>1, <2>3, <2>4, <2>5 DEF M!monitor_vars
<1>6. ASSUME NEW t \in Threads, cv_signal(t) PROVE M!Signal(t) \/ UNCHANGED M!monitor_vars
  <2>1. pc[t] = "held" /\ cv_lock = NoThread /\ lk_owner' = lk_owner
    BY Zenon, <1>6 DEF cv_signal
  <2>2. lk_owner = t /\ Released = {}
    BY Zenon, <2>1, ReleasedFacts DEF LockInv, OwnerIsHolder
  <2>3. CASE cv_wchan = <<>>
    <3>1. UNCHANGED <<cv_wchan, pc>>
      BY Zenon, <1>6, <2>3 DEF cv_signal
    <3> QED  BY Zenon, <2>1, <3>1, Unseen DEF Released
  <2>4. CASE cv_wchan # <<>>
    <3>1. cv_wchan' = Tail(cv_wchan) /\ Goto(Head(cv_wchan), "cv_woken") /\ Head(cv_wchan) \in Threads
      BY <1>0, <1>6, <2>4 DEF cv_signal
    <3>2. \A u \in Threads : pc'[u] \in {pc[u], "cv_woken"}
      BY Zenon, <1>0, <3>1 DEF Goto
    <3>3. Released' = {}
      BY Zenon, <2>2, <3>2 DEF Released
    <3> QED  BY Zenon, <2>1, <2>2, <2>4, <3>1, <3>3 DEF M!Signal
  <2> QED  BY Zenon, <2>3, <2>4
<1>7. ASSUME NEW t \in Threads, cv_broadcast(t) PROVE M!Broadcast(t)
  <2>1. pc[t] = "held" /\ cv_lock = NoThread /\ lk_owner' = lk_owner /\ cv_wchan' = <<>>
    BY Zenon, <1>7 DEF cv_broadcast
  <2>2. lk_owner = t /\ Released = {}
    BY Zenon, <2>1, ReleasedFacts DEF LockInv, OwnerIsHolder
  <2>3. \A u \in Threads : pc'[u] \in {pc[u], "cv_woken"}
    BY Zenon, <1>7 DEF cv_broadcast
  <2>4. Released' = {}
    BY Zenon, <2>2, <2>3 DEF Released
  <2> QED  BY Zenon, <2>1, <2>2, <2>4 DEF M!Broadcast
<1>8. CASE UNCHANGED lock_vars
  BY Zenon, <1>8, Unseen DEF lock_vars, Released
<1> QED  BY <1>1, <1>2, <1>3, <1>4, <1>5, <1>6, <1>7, <1>8, Zenon DEF LockNext, Inside, M!MonitorNext
-----------------------------------------------------------------------------
\* lk_sem of a lock never counts beyond one, and the fields of the lock and of
\* the condition variable keep their types.
THEOREM LockTyped == LockSpec => []LockTypeOK
<1>1. LockInv => LockTypeOK
  BY Zenon DEF LockInv
<1> QED  BY <1>1, SpecLock, PTL

\* lock_acquire: at most one thread is past P and KASSERT(lk_owner == NULL)
\* never fails, for any number of threads.
THEOREM LockExcludes == LockSpec => []MutualExclusion
<1>1. LockInv => MutualExclusion
  BY Zenon, NoOwnerWhenPassed DEF LockInv, OneUnit, MutualExclusion
<1> QED  BY <1>1, SpecLock, PTL

\* lock_release leaves nobody asleep in lock_acquire with the lock free and no
\* woken thread on its way.
THEOREM LockStrandsNobody == LockSpec => []NoStrandedSleeper
<1>1. ASSUME LockInv, sem_wchan # <<>> PROVE \E t \in Threads : PastP(t) \/ sem_pc[t] = "woken"
  <2>1. CASE sem_count = 0
    BY <1>1, <2>1, Zenon DEF LockInv, OneUnit
  <2>2. CASE sem_count = 1
    <3>1. 1 <= Cardinality(Woken)
      BY Zenon, <1>1, <2>2 DEF LockInv, SemInv, NoLostWakeup
    <3>2. Woken # {}
      BY <3>1, FS_EmptySet
    <3> QED  BY Zenon, <3>2 DEF Woken
  <2> QED  BY Zenon, <1>1, <2>1, <2>2 DEF LockInv, LockTypeOK
<1>2. LockInv => NoStrandedSleeper
  BY Zenon, <1>1 DEF NoStrandedSleeper
<1> QED  BY <1>2, SpecLock, PTL

\* lock_acquire, lock_release, cv_wait, cv_signal and cv_broadcast implement
\* the monitor: giving up the lock and starting to wait are one step to every
\* other thread.
THEOREM LockIsMonitor == LockSpec => IsMonitor
  BY InitMonitor, SpecLock, StepMonitor, PTL DEF LockSpec, IsMonitor, M!MonitorSpec
-----------------------------------------------------------------------------
\* The default prover of a leaf that names none.
USE Zenon

Contexts == [kind : {"user", "kern", "irq"}, pc : {"go", "spin", "own", "drop", "wait"},
             lk : SpLocks \cup {NoCpu}, held : SUBSET SpLocks, spl : {0, 1, 2}, doadjust : BOOLEAN]
User == SpContext("user", FALSE)

\* The levels a context has raised with locks that it holds or spins for, and
\* the locks that it counts in c_spinlocks.
Raised(x) == Cardinality(x.held) + IF x.pc \in {"spin", "own"} THEN 1 ELSE 0
CountedLocks(x) == Raised(x) - IF x.pc = "drop" THEN 1 ELSE 0

\* A context by itself.
Sane(x) ==
  /\ IsFiniteSet(x.held)
  /\ x.pc \in {"spin", "own"} => x.lk \in SpLocks /\ x.lk \notin x.held
  /\ x.pc = "drop" => x.lk \in x.held

\* Context x on top of the contexts b, with the processor's flag i, its level p and
\* its counts n and k: user code; a system call above user code...
UserForm(b, x, i, p, n, k) ==
  /\ b = <<>> /\ x = User
  /\ i /\ p = 0 /\ n = 0 /\ k = 0

KernForm(b, x, i, p, n, k) ==
  /\ b = <<User>> /\ x.kind = "kern" /\ Sane(x)
  /\ x.spl \in {0, 2} /\ p = IF x.spl = 0 THEN 1 ELSE 0
  /\ n = p + Raised(x) /\ k = CountedLocks(x)
  /\ i <=> n = 0 \/ x.pc = "wait"
  /\ x.pc = "wait" => x.held = {} /\ x.spl = 0

\* ... or an interrupt handler above user code, above a system call at low level
\* and without locks, or above the idle loop.
Quiet(y) ==
  /\ y.kind = "kern" /\ y.held = {}
  /\ (y.pc = "go" /\ y.spl = 2) \/ (y.pc = "wait" /\ y.spl = 0)
Interrupted(b, x) ==
  \/ b = <<User>> /\ x.doadjust
  \/ \E y \in Contexts : b = <<User, y>> /\ Quiet(y) /\ (x.doadjust <=> y.pc = "go")

IrqForm(b, x, i, p, n, k) ==
  /\ Interrupted(b, x)
  /\ x.kind = "irq" /\ Sane(x) /\ x.spl \in {1, 2} /\ x.pc # "wait"
  /\ p = 1 /\ ~i /\ n = 1 + Raised(x) /\ k = CountedLocks(x)

Form(b, x, i, p, n, k) ==
  UserForm(b, x, i, p, n, k) \/ KernForm(b, x, i, p, n, k) \/ IrqForm(b, x, i, p, n, k)

CpuAt(c, b, x) ==
  sp_ctx[c] = Append(b, x) /\ Form(b, x, irq[c], t_curspl[c], t_iplhigh_count[c], c_spinlocks[c])
CpuOk(c) == \E b \in Seq(Contexts), x \in Contexts : CpuAt(c, b, x)

\* The lock word is set for whoever is past the test-and-set, and the holder is
\* whoever has the lock and is not about to drop it.
Owns(x, l) == l \in x.held \/ (x.pc = "own" /\ x.lk = l)
Holds(x, l) == l \in x.held /\ ~(x.pc = "drop" /\ x.lk = l)

Words ==
  \A l \in SpLocks :
    /\ splk_lock[l] = 1 <=> \E c \in SpCpus : Owns(SpTop(c), l)
    /\ \A c, d \in SpCpus : Owns(SpTop(c), l) /\ Owns(SpTop(d), l) => c = d
Holders == \A l \in SpLocks, c \in SpCpus : splk_holder[l] = c <=> Holds(SpTop(c), l)

SpTyped ==
  /\ irq \in [SpCpus -> BOOLEAN] /\ t_curspl \in [SpCpus -> {0, 1}]
  /\ t_iplhigh_count \in [SpCpus -> Int] /\ c_spinlocks \in [SpCpus -> Int]
  /\ splk_lock \in [SpLocks -> {0, 1}] /\ splk_holder \in [SpLocks -> SpCpus \cup {NoCpu}]
  /\ sp_ctx \in [SpCpus -> Seq(Contexts)]

SpInv == SpTyped /\ ~sp_panic /\ Words /\ Holders /\ \A c \in SpCpus : CpuOk(c)
-----------------------------------------------------------------------------
\* Sequences of one length with the same elements.
LEMMA SameElements ==
  ASSUME NEW S, NEW s \in Seq(S), NEW t \in Seq(S), Len(s) = Len(t),
         \A i \in 1..Len(s) : s[i] = t[i]
  PROVE  s = t
BY SMT

\* The top of a stack, and what replacing, pushing and popping it does.
LEMMA Stacks ==
  ASSUME NEW b \in Seq(Contexts), NEW x \in Contexts, NEW z \in Contexts
  PROVE  LET s == Append(b, x) IN
         /\ s \in Seq(Contexts) /\ s[Len(s)] = x
         /\ [s EXCEPT ![Len(s)] = z] = Append(b, z) /\ SubSeq(s, 1, Len(s) - 1) = b
<1> DEFINE s == Append(b, x)
           r == [s EXCEPT ![Len(s)] = z]
           q == SubSeq(s, 1, Len(s) - 1)
<1>1. s \in Seq(Contexts) /\ Len(s) = Len(b) + 1 /\ s[Len(s)] = x /\ Len(b) \in Nat
  BY SMT
<1>2. r = Append(b, z)
  <2>1. Len(s) \in 1..Len(s)
    BY SMT, <1>1
  <2>2. /\ r \in Seq(Contexts) /\ Len(r) = Len(s)
        /\ \A j \in 1..Len(s) : r[j] = IF j = Len(s) THEN z ELSE s[j]
    <3>1. r \in Seq(Contexts) /\ Len(r) = Len(s)
      BY SMT, <1>1
    <3>2. DOMAIN s = 1..Len(s)
      BY SMT
    <3> HIDE DEF s
    <3> QED
      BY <2>1, <3>1, <3>2
  <2>3. /\ Append(b, z) \in Seq(Contexts) /\ Len(Append(b, z)) = Len(s)
        /\ Append(b, z)[Len(s)] = z /\ \A j \in 1..Len(b) : Append(b, z)[j] = b[j] /\ s[j] = b[j]
    BY SMT
  <2> HIDE DEF s, r
  <2>4. \A j \in 1..Len(s) : r[j] = Append(b, z)[j]
    BY SMT, <1>1, <2>2, <2>3
  <2> QED
    BY <2>2, <2>3, <2>4, SameElements
<1>3. q = b
  <2>1. q \in Seq(Contexts) /\ Len(q) = Len(b) /\ \A j \in 1..Len(b) : q[j] = b[j]
    BY SMT, <1>1
  <2> HIDE DEF q
  <2> QED
    BY <2>1, SameElements
<1> QED
  BY <1>1, <1>2, <1>3

\* User code as a context.
LEMMA UserContext ==
  /\ User \in Contexts /\ User.kind = "user" /\ User.pc = "go" /\ User.held = {} /\ User.spl = 2
  /\ <<>> \in Seq(Contexts) /\ <<User>> \in Seq(Contexts) /\ <<User>> = Append(<<>>, User)
BY SMT DEF User, SpContext, Contexts

\* A context above user code.
LEMMA TwoDeep ==
  ASSUME NEW x \in Contexts
  PROVE  <<User, x>> = Append(<<User>>, x)
BY SMT, UserContext

\* A new context holds nothing and has raised nothing.
LEMMA NewContext ==
  ASSUME NEW k \in {"kern", "irq"}, NEW d \in BOOLEAN
  PROVE  /\ SpContext(k, d) \in Contexts /\ SpContext(k, d).kind = k /\ SpContext(k, d).pc = "go"
         /\ SpContext(k, d).held = {} /\ SpContext(k, d).spl = 2 /\ SpContext(k, d).doadjust = d
BY SMT DEF SpContext, Contexts

\* The stack of a processor and its top.
LEMMA TopOf ==
  ASSUME NEW c, NEW b \in Seq(Contexts), NEW x \in Contexts, sp_ctx[c] = Append(b, x)
  PROVE  SpTop(c) = x
<1>1. Append(b, x)[Len(Append(b, x))] = x
  BY Stacks
<1> QED
  BY <1>1 DEF SpTop

-----------------------------------------------------------------------------
\* A variable of the processors changes at processor c only.
Sets(f, g, c, w, T) == g \in [SpCpus -> T] /\ g[c] = w /\ \A d \in SpCpus \ {c} : g[d] = f[d]

\* An assignment to one processor's field, or none.
LEMMA SetsExcept ==
  ASSUME NEW T, NEW f \in [SpCpus -> T], NEW g, NEW c \in SpCpus, NEW w \in T, g = [f EXCEPT ![c] = w]
  PROVE  Sets(f, g, c, w, T)
BY DEF Sets
\* A field that no processor assigns.
LEMMA SetsSame ==
  ASSUME NEW T, NEW f \in [SpCpus -> T], NEW g, NEW c \in SpCpus, g = f
  PROVE  Sets(f, g, c, f[c], T)
BY DEF Sets

\* The stack of processor c becomes z above b.
Moved(c, b, z) == Sets(sp_ctx, sp_ctx', c, Append(b, z), Seq(Contexts))

\* Replacing the top.
LEMMA SetTopMoves ==
  ASSUME SpInv, NEW c \in SpCpus, NEW b \in Seq(Contexts), NEW x \in Contexts, CpuAt(c, b, x),
         NEW z \in Contexts, SpSetTop(c, z)
  PROVE  Moved(c, b, z)
<1>1. sp_ctx' = [sp_ctx EXCEPT ![c] = [sp_ctx[c] EXCEPT ![Len(sp_ctx[c])] = z]]
  BY DEF SpSetTop
<1>2. [sp_ctx[c] EXCEPT ![Len(sp_ctx[c])] = z] = Append(b, z) /\ Append(b, z) \in Seq(Contexts)
  <2>1. sp_ctx[c] = Append(b, x)
    BY DEF CpuAt
  <2>2. /\ [Append(b, x) EXCEPT ![Len(Append(b, x))] = z] = Append(b, z)
        /\ Append(b, z) \in Seq(Contexts)
    BY Stacks
  <2> QED
    BY <2>1, <2>2
<1> QED
  BY <1>1, <1>2, SetsExcept DEF Moved, SpInv, SpTyped

\* A trap or an interrupt.
LEMMA PushMoves ==
  ASSUME SpInv, NEW c \in SpCpus, NEW b \in Seq(Contexts), NEW x \in Contexts, CpuAt(c, b, x),
         NEW z \in Contexts, SpPush(c, z)
  PROVE  Moved(c, Append(b, x), z) /\ Append(b, x) \in Seq(Contexts)
<1>1. sp_ctx' = [sp_ctx EXCEPT ![c] = Append(Append(b, x), z)]
  BY DEF SpPush, CpuAt
<1>2. Append(Append(b, x), z) \in Seq(Contexts) /\ Append(b, x) \in Seq(Contexts)
  BY Stacks
<1> QED
  BY <1>1, <1>2, SetsExcept DEF Moved, SpInv, SpTyped

\* A return.
LEMMA PopMoves ==
  ASSUME SpInv, NEW c \in SpCpus, NEW b \in Seq(Contexts), NEW x \in Contexts, NEW z \in Contexts,
         CpuAt(c, Append(b, z), x), SpPop(c)
  PROVE  Moved(c, b, z)
<1>1. Append(b, z) \in Seq(Contexts)
  BY Stacks
<1>2. SubSeq(sp_ctx[c], 1, Len(sp_ctx[c]) - 1) = Append(b, z)
  <2>1. sp_ctx[c] = Append(Append(b, z), x)
    BY DEF CpuAt
  <2>2. SubSeq(Append(Append(b, z), x), 1, Len(Append(Append(b, z), x)) - 1) = Append(b, z)
    BY <1>1, Stacks
  <2> QED
    BY <2>1, <2>2
<1>3. sp_ctx' = [sp_ctx EXCEPT ![c] = SubSeq(sp_ctx[c], 1, Len(sp_ctx[c]) - 1)]
  BY DEF SpPop
<1> QED
  BY <1>1, <1>2, <1>3, SetsExcept DEF Moved, SpInv, SpTyped

\* The tops after a step.
LEMMA Tops ==
  ASSUME SpInv, NEW c \in SpCpus, NEW b \in Seq(Contexts), NEW z \in Contexts, Moved(c, b, z)
  PROVE  SpTop(c)' = z /\ \A d \in SpCpus \ {c} : SpTop(d)' = SpTop(d)
<1>1. sp_ctx'[c] = Append(b, z) /\ \A d \in SpCpus \ {c} : sp_ctx'[d] = sp_ctx[d]
  BY DEF Moved, Sets
<1>2. Append(b, z)[Len(Append(b, z))] = z
  BY Stacks
<1> QED
  BY <1>1, <1>2 DEF SpTop

\* A processor's step takes it to a new form, and the others stay where they are.
LEMMA CpusStep ==
  ASSUME SpInv, NEW c \in SpCpus, NEW b \in Seq(Contexts), NEW z \in Contexts, Moved(c, b, z),
         NEW i, NEW p, NEW n, NEW k, Form(b, z, i, p, n, k),
         Sets(irq, irq', c, i, BOOLEAN), Sets(t_curspl, t_curspl', c, p, {0, 1}),
         Sets(t_iplhigh_count, t_iplhigh_count', c, n, Int), Sets(c_spinlocks, c_spinlocks', c, k, Int),
         ~sp_panic', Words', Holders',
         splk_lock' \in [SpLocks -> {0, 1}], splk_holder' \in [SpLocks -> SpCpus \cup {NoCpu}]
  PROVE  SpInv'
<1>1. SpTyped'
  BY DEF SpTyped, Moved, Sets
<1>2. ASSUME NEW d \in SpCpus PROVE CpuOk(d)'
  <2>1. CASE d = c
    <3>1. /\ sp_ctx'[c] = Append(b, z) /\ irq'[c] = i /\ t_curspl'[c] = p
          /\ t_iplhigh_count'[c] = n /\ c_spinlocks'[c] = k
      BY DEF Moved, Sets
    <3> QED
      BY <2>1, <3>1 DEF CpuOk, CpuAt
  <2>2. CASE d # c
    <3>1. /\ sp_ctx'[d] = sp_ctx[d] /\ irq'[d] = irq[d] /\ t_curspl'[d] = t_curspl[d]
          /\ t_iplhigh_count'[d] = t_iplhigh_count[d] /\ c_spinlocks'[d] = c_spinlocks[d]
      BY <2>2 DEF Moved, Sets
    <3>2. CpuOk(d)
      BY DEF SpInv
    <3> QED
      BY <3>1, <3>2 DEF CpuOk, CpuAt
  <2> QED
    BY <2>1, <2>2
<1> QED
  BY <1>1, <1>2 DEF SpInv

\* A step that takes and drops no lock.
LEMMA LocksSame ==
  ASSUME SpInv, NEW c \in SpCpus, NEW b \in Seq(Contexts), NEW z \in Contexts, Moved(c, b, z),
         UNCHANGED splk_lock, \A l \in SpLocks : Owns(z, l) <=> Owns(SpTop(c), l)
  PROVE  Words'
<1>1. \A d \in SpCpus, l \in SpLocks : Owns(SpTop(d)', l) <=> Owns(SpTop(d), l)
  BY Tops
<1> QED
  BY <1>1 DEF SpInv, Words
\* A step that does not change which locks a processor has.
LEMMA HoldersSame ==
  ASSUME SpInv, NEW c \in SpCpus, NEW b \in Seq(Contexts), NEW z \in Contexts, Moved(c, b, z),
         UNCHANGED splk_holder, \A l \in SpLocks : Holds(z, l) <=> Holds(SpTop(c), l)
  PROVE  Holders'
<1>1. \A d \in SpCpus, l \in SpLocks : Holds(SpTop(d)', l) <=> Holds(SpTop(d), l)
  BY Tops
<1> QED
  BY <1>1 DEF SpInv, Holders

-----------------------------------------------------------------------------
\* What a context has raised and counted, by its next step.
Tally(x) ==
  /\ Cardinality(x.held) \in Nat /\ (Cardinality(x.held) = 0 <=> x.held = {})
  /\ x.pc \in {"go", "wait"} => Raised(x) = Cardinality(x.held) /\ CountedLocks(x) = Cardinality(x.held)
  /\ x.pc \in {"spin", "own"} =>
       Raised(x) = Cardinality(x.held) + 1 /\ CountedLocks(x) = Cardinality(x.held) + 1
  /\ x.pc = "drop" => Raised(x) = Cardinality(x.held) /\ CountedLocks(x) = Cardinality(x.held) - 1
\* It follows from the lock that the context is about.
LEMMA Tallies ==
  ASSUME NEW x, Sane(x)
  PROVE  Tally(x)
<1>1. Cardinality(x.held) \in Nat /\ (Cardinality(x.held) = 0 <=> x.held = {})
  BY FS_CardinalityType, FS_EmptySet DEF Sane
<1> QED
  BY SMT, <1>1 DEF Tally, Raised, CountedLocks

\* The part of a handler's form that is about what it interrupted.
LEMMA SameBelow ==
  ASSUME NEW b, NEW x, NEW z, Interrupted(b, x), z.doadjust = x.doadjust
  PROVE  Interrupted(b, z)
BY DEF Interrupted

\* Kernel code is in a system call or in a handler.
LEMMA KernelForm ==
  ASSUME NEW b, NEW x, NEW i, NEW p, NEW n, NEW k, Form(b, x, i, p, n, k), x.kind # "user"
  PROVE  /\ KernForm(b, x, i, p, n, k) \/ IrqForm(b, x, i, p, n, k)
         /\ Sane(x) /\ Tally(x)
<1>1. KernForm(b, x, i, p, n, k) \/ IrqForm(b, x, i, p, n, k)
  BY UserContext DEF Form, UserForm
<1>2. Sane(x)
  BY <1>1 DEF KernForm, IrqForm
<1> QED
  BY <1>1, <1>2, Tallies

\* spinlock_acquire raises the level before it spins.
LEMMA AcquireForm ==
  ASSUME NEW b, NEW x \in Contexts, NEW i \in BOOLEAN, NEW p, NEW n, NEW k, Form(b, x, i, p, n, k),
         x.kind # "user", x.pc = "go", NEW l \in SpLocks, l \notin x.held,
         NEW z, z = [x EXCEPT !.pc = "spin", !.lk = l]
  PROVE  /\ z \in Contexts
         /\ Form(b, z, IF n = 0 THEN FALSE ELSE i, p, n + 1, k + 1)
<1>1. /\ z \in Contexts /\ z.kind = x.kind /\ z.pc = "spin" /\ z.lk = l /\ z.held = x.held
      /\ z.spl = x.spl /\ z.doadjust = x.doadjust
  <2>1. z \in Contexts
    BY Zenon DEF Contexts
  <2>2. z.kind = x.kind /\ z.pc = "spin" /\ z.lk = l /\ z.held = x.held
    BY SMT DEF Contexts
  <2>3. z.spl = x.spl /\ z.doadjust = x.doadjust
    BY SMT DEF Contexts
  <2> QED
    BY <2>1, <2>2, <2>3
<1>2. Sane(z)
  BY <1>1, KernelForm DEF Sane
<1>3. Tally(x) /\ Tally(z)
  BY <1>2, KernelForm, Tallies
<1>4. CASE KernForm(b, x, i, p, n, k)
  <2>1. KernForm(b, z, IF n = 0 THEN FALSE ELSE i, p, n + 1, k + 1)
    BY SMT, <1>1, <1>2, <1>3, <1>4 DEF KernForm, Tally
  <2> QED
    BY <1>1, <2>1 DEF Form
<1>5. CASE IrqForm(b, x, i, p, n, k)
  <2>1. Interrupted(b, z)
    BY <1>1, <1>5, SameBelow DEF IrqForm
  <2>2. IrqForm(b, z, IF n = 0 THEN FALSE ELSE i, p, n + 1, k + 1)
    BY SMT, <1>1, <1>2, <1>3, <1>5, <2>1 DEF IrqForm, Tally
  <2> QED
    BY <1>1, <2>2 DEF Form
<1> QED
  BY <1>4, <1>5, KernelForm

\* User code never spins, drops or waits.
LEMMA NotGo ==
  ASSUME NEW b, NEW x, NEW i, NEW p, NEW n, NEW k, Form(b, x, i, p, n, k), x.pc # "go"
  PROVE  x.kind # "user"
BY UserContext DEF Form, UserForm, KernForm, IrqForm

\* The test-and-set changes no level.
LEMMA OwnForm ==
  ASSUME NEW b, NEW x \in Contexts, NEW i \in BOOLEAN, NEW p, NEW n, NEW k, Form(b, x, i, p, n, k),
         x.pc = "spin",
         NEW z, z = [x EXCEPT !.pc = "own"]
  PROVE  z \in Contexts /\ Form(b, z, i, p, n, k)
<1>0. x.kind # "user"
  BY NotGo
<1>1. /\ z \in Contexts /\ z.pc = "own" /\ z.lk = x.lk /\ z.held = x.held
      /\ z.kind = x.kind /\ z.spl = x.spl /\ z.doadjust = x.doadjust
  <2>1. z \in Contexts
    BY Zenon DEF Contexts
  <2>2. z.pc = "own" /\ z.lk = x.lk /\ z.held = x.held
    BY SMT DEF Contexts
  <2>3. z.kind = x.kind /\ z.spl = x.spl /\ z.doadjust = x.doadjust
    BY SMT DEF Contexts
  <2> QED
    BY <2>1, <2>2, <2>3
<1>2. Sane(z)
  BY <1>0, <1>1, KernelForm DEF Sane
<1>3. Tally(x) /\ Tally(z)
  BY <1>0, <1>2, KernelForm, Tallies
<1>5. CASE KernForm(b, x, i, p, n, k)
  <2>1. KernForm(b, z, i, p, n, k)
    BY SMT, <1>1, <1>2, <1>3, <1>5 DEF KernForm, Tally
  <2> QED
    BY <1>1, <2>1 DEF Form
<1>6. CASE IrqForm(b, x, i, p, n, k)
  <2>1. Interrupted(b, z)
    BY <1>1, <1>6, SameBelow DEF IrqForm
  <2>2. IrqForm(b, z, i, p, n, k)
    BY SMT, <1>1, <1>2, <1>3, <1>6, <2>1 DEF IrqForm, Tally
  <2> QED
    BY <1>1, <2>2 DEF Form
<1> QED
  BY <1>0, <1>5, <1>6, KernelForm

\* With splk_holder set the lock is held, and counts as before.
LEMMA HolderForm ==
  ASSUME NEW b, NEW x \in Contexts, NEW i \in BOOLEAN, NEW p, NEW n, NEW k, Form(b, x, i, p, n, k),
         x.pc = "own", x.lk \in SpLocks,
         NEW z, z = [x EXCEPT !.pc = "go", !.lk = NoCpu, !.held = x.held \cup {x.lk}]
  PROVE  z \in Contexts /\ Form(b, z, i, p, n, k)
<1>0. x.kind # "user"
  BY NotGo
<1>1. /\ z \in Contexts /\ z.pc = "go" /\ z.held = x.held \cup {x.lk}
      /\ z.kind = x.kind /\ z.spl = x.spl /\ z.doadjust = x.doadjust
  <2>1. z \in Contexts
    BY Zenon DEF Contexts
  <2>2. z.pc = "go" /\ z.held = x.held \cup {x.lk}
    BY SMT DEF Contexts
  <2>3. z.kind = x.kind /\ z.spl = x.spl /\ z.doadjust = x.doadjust
    BY SMT DEF Contexts
  <2> QED
    BY <2>1, <2>2, <2>3
<1>2. Sane(z) /\ Cardinality(z.held) = Cardinality(x.held) + 1
  <2>1. IsFiniteSet(x.held) /\ x.lk \notin x.held
    BY <1>0, KernelForm DEF Sane
  <2>0. /\ IsFiniteSet(x.held \cup {x.lk})
        /\ Cardinality(x.held \cup {x.lk}) = Cardinality(x.held) + 1
    BY <2>1, FS_AddElement
  <2>2. IsFiniteSet(z.held) /\ Cardinality(z.held) = Cardinality(x.held) + 1
    BY <1>1, <2>0
  <2>3. z.pc \notin {"spin", "own", "drop"}
    BY <1>1
  <2> QED
    BY <2>2, <2>3 DEF Sane
<1>3. Tally(x) /\ Tally(z)
  BY <1>0, <1>2, KernelForm, Tallies
<1>5. CASE KernForm(b, x, i, p, n, k)
  <2>1. KernForm(b, z, i, p, n, k)
    BY SMT, <1>1, <1>2, <1>3, <1>5 DEF KernForm, Tally
  <2> QED
    BY <1>1, <2>1 DEF Form
<1>6. CASE IrqForm(b, x, i, p, n, k)
  <2>1. Interrupted(b, z)
    BY <1>1, <1>6, SameBelow DEF IrqForm
  <2>2. IrqForm(b, z, i, p, n, k)
    BY SMT, <1>1, <1>2, <1>3, <1>6, <2>1 DEF IrqForm, Tally
  <2> QED
    BY <1>1, <2>2 DEF Form
<1> QED
  BY <1>0, <1>5, <1>6, KernelForm

\* spinlock_release takes the lock out of c_spinlocks first.
LEMMA ReleaseForm ==
  ASSUME NEW b, NEW x \in Contexts, NEW i \in BOOLEAN, NEW p, NEW n, NEW k, Form(b, x, i, p, n, k),
         x.kind # "user", x.pc = "go", NEW l \in x.held,
         NEW z, z = [x EXCEPT !.pc = "drop", !.lk = l]
  PROVE  z \in Contexts /\ Form(b, z, i, p, n, k - 1)
<1>1. /\ z \in Contexts /\ z.pc = "drop" /\ z.lk = l /\ z.held = x.held
      /\ z.kind = x.kind /\ z.spl = x.spl /\ z.doadjust = x.doadjust
  <2>1. z \in Contexts
    BY Zenon DEF Contexts
  <2>2. z.pc = "drop" /\ z.lk = l /\ z.held = x.held
    BY SMT DEF Contexts
  <2>3. z.kind = x.kind /\ z.spl = x.spl /\ z.doadjust = x.doadjust
    BY SMT DEF Contexts
  <2> QED
    BY <2>1, <2>2, <2>3
<1>2. Sane(z)
  BY <1>1, KernelForm DEF Sane
<1>3. Tally(x) /\ Tally(z)
  BY <1>2, KernelForm, Tallies
<1>5. CASE KernForm(b, x, i, p, n, k)
  <2>1. KernForm(b, z, i, p, n, k - 1)
    BY SMT, <1>1, <1>2, <1>3, <1>5 DEF KernForm, Tally
  <2> QED
    BY <1>1, <2>1 DEF Form
<1>6. CASE IrqForm(b, x, i, p, n, k)
  <2>1. Interrupted(b, z)
    BY <1>1, <1>6, SameBelow DEF IrqForm
  <2>2. IrqForm(b, z, i, p, n, k - 1)
    BY SMT, <1>1, <1>2, <1>3, <1>6, <2>1 DEF IrqForm, Tally
  <2> QED
    BY <1>1, <2>2 DEF Form
<1> QED
  BY <1>5, <1>6, KernelForm

\* With the word cleared the level goes down, and interrupts come on with the last.
LEMMA DropForm ==
  ASSUME NEW b, NEW x \in Contexts, NEW i \in BOOLEAN, NEW p, NEW n, NEW k, Form(b, x, i, p, n, k),
         x.pc = "drop",
         NEW z, z = [x EXCEPT !.pc = "go", !.lk = NoCpu, !.held = x.held \ {x.lk}]
  PROVE  z \in Contexts /\ Form(b, z, IF n = 1 THEN TRUE ELSE i, p, n - 1, k)
<1>0. x.kind # "user"
  BY NotGo
<1>1. /\ z \in Contexts /\ z.pc = "go" /\ z.held = x.held \ {x.lk}
      /\ z.kind = x.kind /\ z.spl = x.spl /\ z.doadjust = x.doadjust
  <2>1. z \in Contexts
    BY Zenon DEF Contexts
  <2>2. z.pc = "go" /\ z.held = x.held \ {x.lk}
    BY SMT DEF Contexts
  <2>3. z.kind = x.kind /\ z.spl = x.spl /\ z.doadjust = x.doadjust
    BY SMT DEF Contexts
  <2> QED
    BY <2>1, <2>2, <2>3
<1>2. Sane(z) /\ Cardinality(z.held) = Cardinality(x.held) - 1
  <2>1. IsFiniteSet(x.held) /\ x.lk \in x.held
    BY <1>0, KernelForm DEF Sane
  <2>2. IsFiniteSet(z.held) /\ Cardinality(z.held) = Cardinality(x.held) - 1
    BY <1>1, <2>1, FS_RemoveElement
  <2>3. z.pc \notin {"spin", "own", "drop"}
    BY <1>1
  <2> QED
    BY <2>2, <2>3 DEF Sane
<1>3. Tally(x) /\ Tally(z)
  BY <1>0, <1>2, KernelForm, Tallies
<1>5. CASE KernForm(b, x, i, p, n, k)
  <2>1. KernForm(b, z, IF n = 1 THEN TRUE ELSE i, p, n - 1, k)
    BY SMT, <1>1, <1>2, <1>3, <1>5 DEF KernForm, Tally
  <2> QED
    BY <1>1, <2>1 DEF Form
<1>6. CASE IrqForm(b, x, i, p, n, k)
  <2>1. Interrupted(b, z)
    BY <1>1, <1>6, SameBelow DEF IrqForm
  <2>2. IrqForm(b, z, IF n = 1 THEN TRUE ELSE i, p, n - 1, k)
    BY SMT, <1>1, <1>2, <1>3, <1>6, <2>1 DEF IrqForm, Tally
  <2> QED
    BY <1>1, <2>2 DEF Form
<1> QED
  BY <1>0, <1>5, <1>6, KernelForm

\* The form after the level was raised, lowered or kept by splhigh and splx.
RaisedForm(b, z, i, n, k) == Form(b, z, IF n = 0 THEN FALSE ELSE i, 1, n + 1, k)
LoweredForm(b, z, i, n, k) == Form(b, z, IF n = 1 THEN TRUE ELSE i, 0, n - 1, k)
KeptForm(b, z, i, n, k) == Form(b, z, i, 1, n, k)

\* splhigh at low level, in a system call.
LEMMA SplRaiseForm ==
  ASSUME NEW b, NEW x \in Contexts, NEW i \in BOOLEAN, NEW p, NEW n, NEW k, Form(b, x, i, p, n, k),
         x.kind # "user", x.pc = "go", x.spl = 2, p = 0,
         NEW z, z = [x EXCEPT !.spl = 0]
  PROVE  z \in Contexts /\ RaisedForm(b, z, i, n, k)
<1>1. /\ z \in Contexts /\ z.pc = x.pc /\ z.lk = x.lk /\ z.spl = 0
      /\ z.kind = x.kind /\ z.held = x.held /\ z.doadjust = x.doadjust
  <2>1. z \in Contexts
    BY Zenon DEF Contexts
  <2>2. z.pc = x.pc /\ z.lk = x.lk /\ z.spl = 0
    BY SMT DEF Contexts
  <2>3. z.kind = x.kind /\ z.held = x.held /\ z.doadjust = x.doadjust
    BY SMT DEF Contexts
  <2> QED
    BY <2>1, <2>2, <2>3
<1>2. Sane(z)
  BY <1>1, KernelForm DEF Sane
<1>3. Tally(x) /\ Tally(z)
  BY <1>2, KernelForm, Tallies
<1>5. CASE KernForm(b, x, i, p, n, k)
  <2>1. KernForm(b, z, IF n = 0 THEN FALSE ELSE i, 1, n + 1, k)
    BY SMT, <1>1, <1>2, <1>3, <1>5 DEF KernForm, Tally
  <2> QED
    BY <1>1, <2>1 DEF Form, RaisedForm
<1>6. CASE IrqForm(b, x, i, p, n, k)
  <2>1. Interrupted(b, z)
    BY <1>1, <1>6, SameBelow DEF IrqForm
  <2>2. IrqForm(b, z, IF n = 0 THEN FALSE ELSE i, 1, n + 1, k)
    BY SMT, <1>1, <1>2, <1>3, <1>6, <2>1 DEF IrqForm, Tally
  <2> QED
    BY <1>1, <2>2 DEF Form, RaisedForm
<1> QED
  BY <1>5, <1>6, KernelForm

\* splhigh at high level, in a handler.
LEMMA SplAgainForm ==
  ASSUME NEW b, NEW x \in Contexts, NEW i \in BOOLEAN, NEW p, NEW n, NEW k, Form(b, x, i, p, n, k),
         x.kind # "user", x.pc = "go", x.spl = 2, p = 1,
         NEW z, z = [x EXCEPT !.spl = 1]
  PROVE  z \in Contexts /\ Form(b, z, i, 1, n, k)
<1>1. /\ z \in Contexts /\ z.pc = x.pc /\ z.lk = x.lk /\ z.spl = 1
      /\ z.kind = x.kind /\ z.held = x.held /\ z.doadjust = x.doadjust
  <2>1. z \in Contexts
    BY Zenon DEF Contexts
  <2>2. z.pc = x.pc /\ z.lk = x.lk /\ z.spl = 1
    BY SMT DEF Contexts
  <2>3. z.kind = x.kind /\ z.held = x.held /\ z.doadjust = x.doadjust
    BY SMT DEF Contexts
  <2> QED
    BY <2>1, <2>2, <2>3
<1>2. Sane(z)
  BY <1>1, KernelForm DEF Sane
<1>3. Tally(x) /\ Tally(z)
  BY <1>2, KernelForm, Tallies
<1>5. CASE KernForm(b, x, i, p, n, k)
  <2>1. KernForm(b, z, i, 1, n, k)
    BY SMT, <1>1, <1>2, <1>3, <1>5 DEF KernForm, Tally
  <2> QED
    BY <1>1, <2>1 DEF Form
<1>6. CASE IrqForm(b, x, i, p, n, k)
  <2>1. Interrupted(b, z)
    BY <1>1, <1>6, SameBelow DEF IrqForm
  <2>2. IrqForm(b, z, i, 1, n, k)
    BY SMT, <1>1, <1>2, <1>3, <1>6, <2>1 DEF IrqForm, Tally
  <2> QED
    BY <1>1, <2>2 DEF Form
<1> QED
  BY <1>5, <1>6, KernelForm

\* splx back to low level.
LEMMA SplLowerForm ==
  ASSUME NEW b, NEW x \in Contexts, NEW i \in BOOLEAN, NEW p, NEW n, NEW k, Form(b, x, i, p, n, k),
         x.kind # "user", x.pc = "go", x.spl = 0,
         NEW z, z = [x EXCEPT !.spl = 2]
  PROVE  z \in Contexts /\ LoweredForm(b, z, i, n, k)
<1>1. /\ z \in Contexts /\ z.pc = x.pc /\ z.lk = x.lk /\ z.spl = 2
      /\ z.kind = x.kind /\ z.held = x.held /\ z.doadjust = x.doadjust
  <2>1. z \in Contexts
    BY Zenon DEF Contexts
  <2>2. z.pc = x.pc /\ z.lk = x.lk /\ z.spl = 2
    BY SMT DEF Contexts
  <2>3. z.kind = x.kind /\ z.held = x.held /\ z.doadjust = x.doadjust
    BY SMT DEF Contexts
  <2> QED
    BY <2>1, <2>2, <2>3
<1>2. Sane(z)
  BY <1>1, KernelForm DEF Sane
<1>3. Tally(x) /\ Tally(z)
  BY <1>2, KernelForm, Tallies
<1>5. CASE KernForm(b, x, i, p, n, k)
  <2>1. KernForm(b, z, IF n = 1 THEN TRUE ELSE i, 0, n - 1, k)
    BY SMT, <1>1, <1>2, <1>3, <1>5 DEF KernForm, Tally
  <2> QED
    BY <1>1, <2>1 DEF Form, LoweredForm
<1>6. CASE IrqForm(b, x, i, p, n, k)
  <2>1. Interrupted(b, z)
    BY <1>1, <1>6, SameBelow DEF IrqForm
  <2>2. IrqForm(b, z, IF n = 1 THEN TRUE ELSE i, 0, n - 1, k)
    BY SMT, <1>1, <1>2, <1>3, <1>6, <2>1 DEF IrqForm, Tally
  <2> QED
    BY <1>1, <2>2 DEF Form, LoweredForm
<1> QED
  BY <1>5, <1>6, KernelForm

\* splx back to high level.
LEMMA SplBackForm ==
  ASSUME NEW b, NEW x \in Contexts, NEW i \in BOOLEAN, NEW p, NEW n, NEW k, Form(b, x, i, p, n, k),
         x.kind # "user", x.pc = "go", x.spl = 1,
         NEW z, z = [x EXCEPT !.spl = 2]
  PROVE  z \in Contexts /\ KeptForm(b, z, i, n, k)
<1>1. /\ z \in Contexts /\ z.pc = x.pc /\ z.lk = x.lk /\ z.spl = 2
      /\ z.kind = x.kind /\ z.held = x.held /\ z.doadjust = x.doadjust
  <2>1. z \in Contexts
    BY Zenon DEF Contexts
  <2>2. z.pc = x.pc /\ z.lk = x.lk /\ z.spl = 2
    BY SMT DEF Contexts
  <2>3. z.kind = x.kind /\ z.held = x.held /\ z.doadjust = x.doadjust
    BY SMT DEF Contexts
  <2> QED
    BY <2>1, <2>2, <2>3
<1>2. Sane(z)
  BY <1>1, KernelForm DEF Sane
<1>3. Tally(x) /\ Tally(z)
  BY <1>2, KernelForm, Tallies
<1>5. CASE KernForm(b, x, i, p, n, k)
  <2>1. KernForm(b, z, i, 1, n, k)
    BY SMT, <1>1, <1>2, <1>3, <1>5 DEF KernForm, Tally
  <2> QED
    BY <1>1, <2>1 DEF Form, KeptForm
<1>6. CASE IrqForm(b, x, i, p, n, k)
  <2>1. Interrupted(b, z)
    BY <1>1, <1>6, SameBelow DEF IrqForm
  <2>2. IrqForm(b, z, i, 1, n, k)
    BY SMT, <1>1, <1>2, <1>3, <1>6, <2>1 DEF IrqForm, Tally
  <2> QED
    BY <1>1, <2>2 DEF Form, KeptForm
<1> QED
  BY <1>5, <1>6, KernelForm

\* cpu_idle turns interrupts on at high level, and without a lock.
LEMMA IdleForm ==
  ASSUME NEW b, NEW x \in Contexts, NEW i \in BOOLEAN, NEW p, NEW n, NEW k, Form(b, x, i, p, n, k),
         x.kind = "kern", x.pc = "go", k = 0, p = 1,
         NEW z, z = [x EXCEPT !.pc = "wait"]
  PROVE  z \in Contexts /\ Form(b, z, TRUE, p, n, k)
<1>1. /\ z \in Contexts /\ z.pc = "wait" /\ z.lk = x.lk /\ z.spl = x.spl
      /\ z.kind = x.kind /\ z.held = x.held /\ z.doadjust = x.doadjust
  <2>1. z \in Contexts
    BY Zenon DEF Contexts
  <2>2. z.pc = "wait" /\ z.lk = x.lk /\ z.spl = x.spl
    BY SMT DEF Contexts
  <2>3. z.kind = x.kind /\ z.held = x.held /\ z.doadjust = x.doadjust
    BY SMT DEF Contexts
  <2> QED
    BY <2>1, <2>2, <2>3
<1>2. Sane(z)
  BY <1>1, KernelForm DEF Sane
<1>3. Tally(x) /\ Tally(z)
  BY <1>2, KernelForm, Tallies
<1>5. CASE KernForm(b, x, i, p, n, k)
  <2>1. KernForm(b, z, TRUE, p, n, k)
    BY SMT, <1>1, <1>2, <1>3, <1>5 DEF KernForm, Tally
  <2> QED
    BY <1>1, <2>1 DEF Form
<1>6. CASE IrqForm(b, x, i, p, n, k)
  <2>1. Interrupted(b, z)
    BY <1>1, <1>6, SameBelow DEF IrqForm
  <2>2. IrqForm(b, z, TRUE, p, n, k)
    BY SMT, <1>1, <1>2, <1>3, <1>6, <2>1 DEF IrqForm, Tally
  <2> QED
    BY <1>1, <2>2 DEF Form
<1> QED
  BY <1>5, <1>6, KernelForm

\* The second half of cpu_irqonoff.
LEMMA IrqoffForm ==
  ASSUME NEW b, NEW x \in Contexts, NEW i \in BOOLEAN, NEW p, NEW n, NEW k, Form(b, x, i, p, n, k),
         x.pc = "wait",
         NEW z, z = [x EXCEPT !.pc = "go"]
  PROVE  z \in Contexts /\ Form(b, z, FALSE, p, n, k)
<1>0. x.kind # "user"
  BY NotGo
<1>1. /\ z \in Contexts /\ z.pc = "go" /\ z.lk = x.lk /\ z.spl = x.spl
      /\ z.kind = x.kind /\ z.held = x.held /\ z.doadjust = x.doadjust
  <2>1. z \in Contexts
    BY Zenon DEF Contexts
  <2>2. z.pc = "go" /\ z.lk = x.lk /\ z.spl = x.spl
    BY SMT DEF Contexts
  <2>3. z.kind = x.kind /\ z.held = x.held /\ z.doadjust = x.doadjust
    BY SMT DEF Contexts
  <2> QED
    BY <2>1, <2>2, <2>3
<1>2. Sane(z)
  BY <1>0, <1>1, KernelForm DEF Sane
<1>3. Tally(x) /\ Tally(z)
  BY <1>0, <1>2, KernelForm, Tallies
<1>5. CASE KernForm(b, x, i, p, n, k)
  <2>1. KernForm(b, z, FALSE, p, n, k)
    BY SMT, <1>1, <1>2, <1>3, <1>5 DEF KernForm, Tally
  <2> QED
    BY <1>1, <2>1 DEF Form
<1>6. CASE IrqForm(b, x, i, p, n, k)
  <2>1. Interrupted(b, z)
    BY <1>1, <1>6, SameBelow DEF IrqForm
  <2>2. IrqForm(b, z, FALSE, p, n, k)
    BY SMT, <1>1, <1>2, <1>3, <1>6, <2>1 DEF IrqForm, Tally
  <2> QED
    BY <1>1, <2>2 DEF Form
<1> QED
  BY <1>0, <1>5, <1>6, KernelForm

\* The level that splhigh returned.
LEMMA SplLevels ==
  ASSUME NEW b, NEW x, NEW i, NEW p, NEW n, NEW k, Form(b, x, i, p, n, k), x.kind # "user", x.spl # 2
  PROVE  (x.spl = 0 \/ x.spl = 1) /\ p = 1
BY SMT, KernelForm DEF KernForm, IrqForm

\* An interrupt comes in user mode, in a system call at low level and without
\* locks, or in cpu_idle.
LEMMA InterruptForm ==
  ASSUME NEW b \in Seq(Contexts), NEW x \in Contexts, NEW p, NEW n, NEW k, Form(b, x, TRUE, p, n, k),
         NEW z, z = SpContext("irq", p = 0)
  PROVE  /\ z \in Contexts /\ (p = 0 => n = 0)
         /\ Form(Append(b, x), z, FALSE, 1, IF p = 0 THEN n + 1 ELSE n, k)
<1>1. (p = 0) \in BOOLEAN
  OBVIOUS
<1>2. /\ z \in Contexts /\ z.kind = "irq" /\ z.pc = "go" /\ z.held = {} /\ z.spl = 2
      /\ z.doadjust = (p = 0)
  BY <1>1, NewContext
<1>3. Sane(z)
  BY <1>2, FS_EmptySet DEF Sane
<1>4. Tally(z)
  BY <1>3, Tallies
<1>5. ASSUME p = 0 => n = 0, p # 0 => p = 1 /\ n = 1, k = 0, Interrupted(Append(b, x), z)
      PROVE  IrqForm(Append(b, x), z, FALSE, 1, IF p = 0 THEN n + 1 ELSE n, k)
  BY SMT, <1>2, <1>3, <1>4, <1>5 DEF IrqForm, Tally
<1>6. CASE UserForm(b, x, TRUE, p, n, k)
  <2>1. Append(b, x) = <<User>>
    BY <1>6, UserContext DEF UserForm
  <2>2. p = 0 /\ n = 0 /\ k = 0
    BY <1>6 DEF UserForm
  <2>3. Interrupted(Append(b, x), z)
    BY <1>2, <2>1, <2>2 DEF Interrupted
  <2> QED
    BY <1>2, <1>5, <2>2, <2>3 DEF Form
<1>7. CASE KernForm(b, x, TRUE, p, n, k)
  <2>1. Append(b, x) = <<User, x>>
    <3>1. b = <<User>>
      BY <1>7 DEF KernForm
    <3> QED
      BY <3>1, TwoDeep
  <2>2. x.kind = "kern" /\ Sane(x) /\ Tally(x)
    BY <1>7, Tallies DEF KernForm
  <2>3. CASE n = 0
    <3>1. p = 0 /\ x.spl = 2 /\ Cardinality(x.held) = 0 /\ x.pc \notin {"spin", "own", "wait"} /\ k = CountedLocks(x)
      BY SMT, <1>7, <2>2, <2>3 DEF KernForm, Tally, Contexts
    <3>2. x.held = {}
      BY <2>2, <3>1 DEF Tally
    <3>3. x.pc = "go"
      BY SMT, <2>2, <3>1, <3>2 DEF Sane, Contexts
    <3>4. k = 0
      BY <2>2, <3>1, <3>3 DEF Tally
    <3>5. Interrupted(Append(b, x), z)
      BY <1>2, <2>1, <2>2, <3>1, <3>2, <3>3 DEF Interrupted, Quiet
    <3> QED
      BY <1>2, <1>5, <2>3, <3>1, <3>4, <3>5 DEF Form
  <2>4. CASE n # 0
    <3>1. x.pc = "wait" /\ x.held = {} /\ x.spl = 0
      BY <1>7, <2>4 DEF KernForm
    <3>2. p = 1 /\ n = 1 /\ k = 0 /\ p # 0
      BY SMT, <1>7, <2>2, <3>1 DEF KernForm, Tally
    <3>3. z.doadjust <=> x.pc = "go"
      BY <1>2, <3>1, <3>2
    <3>4. Interrupted(Append(b, x), z)
      BY <2>1, <2>2, <3>1, <3>3 DEF Interrupted, Quiet
    <3> QED
      BY <1>2, <1>5, <3>2, <3>4 DEF Form
  <2> QED
    BY <2>3, <2>4
<1> QED
  BY <1>6, <1>7 DEF Form, IrqForm

Entered(b, x, z, p, n, k) == p = 0 /\ n = 0 /\ Form(Append(b, x), z, TRUE, p, n, k)
\* A system call starts at low level, with nothing raised.
LEMMA SyscallForm ==
  ASSUME NEW b \in Seq(Contexts), NEW x \in Contexts, NEW i \in BOOLEAN, NEW p, NEW n, NEW k,
         Form(b, x, i, p, n, k), x.kind = "user",
         NEW z \in Contexts, z.kind = "kern", z.pc = "go", z.held = {}, z.spl = 2
  PROVE  Entered(b, x, z, p, n, k)
<1>1. UserForm(b, x, i, p, n, k)
  BY DEF Form, KernForm, IrqForm
<1>2. Sane(z)
  BY FS_EmptySet DEF Sane
<1>3. Tally(z)
  BY <1>2, Tallies
<1>4. Append(b, x) = <<User>> /\ p = 0 /\ n = 0 /\ k = 0
  BY <1>1, UserContext DEF UserForm
<1>5. KernForm(<<User>>, z, TRUE, 0, 0, 0)
  BY SMT, <1>2, <1>3 DEF KernForm, Tally
<1> QED
  BY <1>4, <1>5 DEF Form, Entered

\* The handler returns to what it interrupted, at the level it found.
LEMMA InterruptReturnForm ==
  ASSUME NEW b \in Seq(Contexts), NEW x \in Contexts, NEW i, NEW p, NEW n, NEW k, Form(b, x, i, p, n, k),
         x.kind = "irq", x.pc = "go", x.held = {}
  PROVE  /\ p = 1 /\ n = 1
         /\ \E d \in Seq(Contexts), z \in Contexts :
              /\ b = Append(d, z)
              /\ IF x.doadjust THEN Form(d, z, TRUE, 0, 0, k) ELSE Form(d, z, TRUE, 1, 1, k)
<1>1. IrqForm(b, x, i, p, n, k)
  BY UserContext DEF Form, KernForm, UserForm
<1>2. Tally(x)
  BY <1>1, Tallies DEF IrqForm
<1>3. p = 1 /\ n = 1 /\ k = 0
  BY SMT, <1>1, <1>2 DEF IrqForm, Tally
<1>4. CASE b = <<User>> /\ x.doadjust
  <2>1. Form(<<>>, User, TRUE, 0, 0, k)
    BY <1>3 DEF Form, UserForm
  <2> QED
    BY <1>3, <1>4, <2>1, UserContext
<1>5. ASSUME NEW y \in Contexts, b = <<User, y>>, Quiet(y), x.doadjust <=> y.pc = "go"
      PROVE  /\ <<User>> \in Seq(Contexts) /\ b = Append(<<User>>, y)
             /\ IF x.doadjust THEN Form(<<User>>, y, TRUE, 0, 0, k) ELSE Form(<<User>>, y, TRUE, 1, 1, k)
  <2>1. b = Append(<<User>>, y)
    BY <1>5, TwoDeep
  <2>2. y.kind = "kern" /\ y.held = {} /\ ((y.pc = "go" /\ y.spl = 2) \/ (y.pc = "wait" /\ y.spl = 0))
    BY <1>5 DEF Quiet
  <2>3. Sane(y)
    BY <2>2, FS_EmptySet DEF Sane
  <2>4. Tally(y)
    BY <2>3, Tallies
  <2>5. CASE y.pc = "go"
    <3>1. KernForm(<<User>>, y, TRUE, 0, 0, k)
      BY SMT, <1>3, <2>2, <2>3, <2>4, <2>5 DEF KernForm, Tally
    <3> QED
      BY <1>5, <2>1, <2>5, <3>1, UserContext DEF Form
  <2>6. CASE y.pc = "wait"
    <3>1. KernForm(<<User>>, y, TRUE, 1, 1, k)
      BY SMT, <1>3, <2>2, <2>3, <2>4, <2>6 DEF KernForm, Tally
    <3> QED
      BY <1>5, <2>1, <2>6, <3>1, UserContext DEF Form
  <2> QED
    BY <2>2, <2>5, <2>6
<1> QED
  BY <1>1, <1>3, <1>4, <1>5 DEF IrqForm, Interrupted

\* A system call returns at low level, with nothing raised.
LEMMA SyscallReturnForm ==
  ASSUME NEW b \in Seq(Contexts), NEW x \in Contexts, NEW i, NEW p, NEW n, NEW k, Form(b, x, i, p, n, k),
         x.kind = "kern", x.pc = "go", x.held = {}, x.spl = 2
  PROVE  b = Append(<<>>, User) /\ Form(<<>>, User, TRUE, p, n, k)
<1>1. KernForm(b, x, i, p, n, k)
  BY UserContext DEF Form, IrqForm, UserForm
<1>2. Tally(x)
  BY <1>1, Tallies DEF KernForm
<1>3. p = 0 /\ n = 0 /\ k = 0
  BY SMT, <1>1, <1>2 DEF KernForm, Tally
<1> QED
  BY <1>1, <1>3, UserContext DEF KernForm, Form, UserForm

\* The context on top of a processor's stack.
LEMMA CpuTop ==
  ASSUME SpInv, NEW c \in SpCpus
  PROVE  \E b \in Seq(Contexts) :
           /\ SpTop(c) \in Contexts /\ CpuAt(c, b, SpTop(c))
           /\ Form(b, SpTop(c), irq[c], t_curspl[c], t_iplhigh_count[c], c_spinlocks[c])
<1>1. PICK b \in Seq(Contexts), x \in Contexts : CpuAt(c, b, x)
  BY DEF SpInv, CpuOk
<1>2. SpTop(c) = x
  BY <1>1, TopOf DEF CpuAt
<1> QED
  BY <1>1, <1>2 DEF CpuAt

\* splraise on one processor.
LEMMA RaiseSets ==
  ASSUME SpInv, NEW c \in SpCpus, splraise(c)
  PROVE  /\ Sets(irq, irq', c, IF t_iplhigh_count[c] = 0 THEN FALSE ELSE irq[c], BOOLEAN)
         /\ Sets(t_iplhigh_count, t_iplhigh_count', c, t_iplhigh_count[c] + 1, Int)
<1>1. irq \in [SpCpus -> BOOLEAN] /\ t_iplhigh_count \in [SpCpus -> Int]
  BY DEF SpInv, SpTyped
<1>2. t_iplhigh_count[c] + 1 \in Int
  BY SMT, <1>1
<1>3. Sets(t_iplhigh_count, t_iplhigh_count', c, t_iplhigh_count[c] + 1, Int)
  BY <1>1, <1>2, SetsExcept DEF splraise
<1>4. Sets(irq, irq', c, IF t_iplhigh_count[c] = 0 THEN FALSE ELSE irq[c], BOOLEAN)
  <2>1. CASE t_iplhigh_count[c] = 0
    <3>1. irq' = [irq EXCEPT ![c] = FALSE]
      BY <2>1 DEF splraise
    <3>2. Sets(irq, irq', c, FALSE, BOOLEAN)
      BY <1>1, <3>1, SetsExcept
    <3> QED
      BY <2>1, <3>2
  <2>2. CASE t_iplhigh_count[c] # 0
    <3>1. irq' = irq
      BY <2>2 DEF splraise
    <3>2. Sets(irq, irq', c, irq[c], BOOLEAN)
      BY <1>1, <3>1, SetsSame
    <3> QED
      BY <2>2, <3>2
  <2> QED
    BY <2>1, <2>2
<1> QED
  BY <1>3, <1>4

\* spllower on one processor.
LEMMA LowerSets ==
  ASSUME SpInv, NEW c \in SpCpus, spllower(c)
  PROVE  /\ Sets(irq, irq', c, IF t_iplhigh_count[c] = 1 THEN TRUE ELSE irq[c], BOOLEAN)
         /\ Sets(t_iplhigh_count, t_iplhigh_count', c, t_iplhigh_count[c] - 1, Int)
<1>1. irq \in [SpCpus -> BOOLEAN] /\ t_iplhigh_count \in [SpCpus -> Int]
  BY DEF SpInv, SpTyped
<1>2. t_iplhigh_count[c] - 1 \in Int
  BY SMT, <1>1
<1>3. Sets(t_iplhigh_count, t_iplhigh_count', c, t_iplhigh_count[c] - 1, Int)
  BY <1>1, <1>2, SetsExcept DEF spllower
<1>4. Sets(irq, irq', c, IF t_iplhigh_count[c] = 1 THEN TRUE ELSE irq[c], BOOLEAN)
  <2>1. CASE t_iplhigh_count[c] = 1
    <3>1. irq' = [irq EXCEPT ![c] = TRUE]
      BY <2>1 DEF spllower
    <3>2. Sets(irq, irq', c, TRUE, BOOLEAN)
      BY <1>1, <3>1, SetsExcept
    <3> QED
      BY <2>1, <3>2
  <2>2. CASE t_iplhigh_count[c] # 1
    <3>1. irq' = irq
      BY <2>2 DEF spllower
    <3>2. Sets(irq, irq', c, irq[c], BOOLEAN)
      BY <1>1, <3>1, SetsSame
    <3> QED
      BY <2>2, <3>2
  <2> QED
    BY <2>1, <2>2
<1> QED
  BY <1>3, <1>4

\* The fields of one processor that a step leaves alone.
LEMMA Unset ==
  ASSUME SpInv, NEW c \in SpCpus
  PROVE  /\ irq' = irq => Sets(irq, irq', c, irq[c], BOOLEAN)
         /\ t_curspl' = t_curspl => Sets(t_curspl, t_curspl', c, t_curspl[c], {0, 1})
         /\ t_iplhigh_count' = t_iplhigh_count =>
              Sets(t_iplhigh_count, t_iplhigh_count', c, t_iplhigh_count[c], Int)
         /\ c_spinlocks' = c_spinlocks => Sets(c_spinlocks, c_spinlocks', c, c_spinlocks[c], Int)
         /\ irq[c] \in BOOLEAN /\ t_curspl[c] \in {0, 1} /\ t_iplhigh_count[c] \in Int /\ c_spinlocks[c] \in Int
BY SetsSame DEF SpInv, SpTyped

\* A step that changes what a processor does and not which locks it has.
LEMMA NoLockStep ==
  ASSUME SpInv, NEW c \in SpCpus, NEW b \in Seq(Contexts), NEW z \in Contexts, Moved(c, b, z),
         NEW i, NEW p, NEW n, NEW k, Form(b, z, i, p, n, k),
         Sets(irq, irq', c, i, BOOLEAN), Sets(t_curspl, t_curspl', c, p, {0, 1}),
         Sets(t_iplhigh_count, t_iplhigh_count', c, n, Int), Sets(c_spinlocks, c_spinlocks', c, k, Int),
         ~sp_panic', UNCHANGED <<splk_lock, splk_holder>>,
         \A l \in SpLocks : Owns(z, l) <=> Owns(SpTop(c), l),
         \A l \in SpLocks : Holds(z, l) <=> Holds(SpTop(c), l)
  PROVE  SpInv'
<1>1. Words' /\ Holders'
  BY LocksSame, HoldersSame
<1>2. splk_lock' \in [SpLocks -> {0, 1}] /\ splk_holder' \in [SpLocks -> SpCpus \cup {NoCpu}]
  BY DEF SpInv, SpTyped
<1> QED
  BY <1>1, <1>2, CpusStep

\* Every spinlock_acquire finds the lock elsewhere, and keeps the invariant.
LEMMA AcquireStep ==
  ASSUME SpInv, NEW c \in SpCpus, NEW l \in SpLocks, spinlock_acquire(c, l)
  PROVE  SpInv'
<1> DEFINE x == SpTop(c)
           z == [x EXCEPT !.pc = "spin", !.lk = l]
<1>1. PICK b \in Seq(Contexts) :
        /\ x \in Contexts /\ CpuAt(c, b, x)
        /\ Form(b, x, irq[c], t_curspl[c], t_iplhigh_count[c], c_spinlocks[c])
  BY CpuTop
<1>2. x.kind # "user" /\ x.pc = "go" /\ \A m \in x.held : m < l
  BY DEF spinlock_acquire, InKernel
<1>3. l \notin x.held
  BY SMT, <1>2, SpinlockAssumption
<1>4. SpSetTop(c, z) /\ splraise(c) /\ UNCHANGED <<splk_lock, splk_holder, t_curspl>>
  BY DEF spinlock_acquire
<1>5. irq[c] \in BOOLEAN /\ c_spinlocks[c] + 1 \in Int
  <2>1. irq[c] \in BOOLEAN /\ c_spinlocks[c] \in Int
    BY Unset
  <2> QED
    BY <2>1, SMT
<1>6. /\ z \in Contexts
      /\ Form(b, z, IF t_iplhigh_count[c] = 0 THEN FALSE ELSE irq[c], t_curspl[c], t_iplhigh_count[c] + 1,
              c_spinlocks[c] + 1)
  BY <1>1, <1>2, <1>3, <1>5, AcquireForm
<1>7. Sets(c_spinlocks, c_spinlocks', c, c_spinlocks[c] + 1, Int)
  BY <1>5, SetsExcept DEF spinlock_acquire, SpInv, SpTyped
<1>8. ~sp_panic'
  BY <1>3 DEF spinlock_acquire, SpInv, Holders, Holds
<1>9. \A m \in SpLocks : (Owns(z, m) <=> Owns(x, m)) /\ (Holds(z, m) <=> Holds(x, m))
  BY SMT, <1>1, <1>2 DEF Owns, Holds, Contexts
<1>10. Moved(c, b, z)
  BY <1>1, <1>4, <1>6, SetTopMoves
<1> HIDE DEF z
<1> QED
  BY <1>4, <1>6, <1>7, <1>8, <1>9, <1>10, RaiseSets, Unset, NoLockStep

\* A step of processor c on the word of lock l, which no other processor owns.
LEMMA WordsSet ==
  ASSUME SpInv, NEW c \in SpCpus, NEW b \in Seq(Contexts), NEW z \in Contexts, Moved(c, b, z),
         NEW l \in SpLocks, NEW w \in {0, 1}, splk_lock' = [splk_lock EXCEPT ![l] = w],
         \A m \in SpLocks \ {l} : Owns(z, m) <=> Owns(SpTop(c), m), Owns(z, l) <=> w = 1,
         \A d \in SpCpus \ {c} : ~Owns(SpTop(d), l)
  PROVE  Words'
<1>1. \A d \in SpCpus, m \in SpLocks : m # l => (Owns(SpTop(d)', m) <=> Owns(SpTop(d), m))
  BY Tops
<1>2. \A d \in SpCpus : Owns(SpTop(d)', l) <=> d = c /\ w = 1
  BY Tops
<1>3. splk_lock'[l] = w /\ \A m \in SpLocks : m # l => splk_lock'[m] = splk_lock[m]
  BY DEF SpInv, SpTyped
<1>4. ASSUME NEW m \in SpLocks
      PROVE  /\ splk_lock'[m] = 1 <=> \E d \in SpCpus : Owns(SpTop(d)', m)
             /\ \A d, e \in SpCpus : Owns(SpTop(d)', m) /\ Owns(SpTop(e)', m) => d = e
  <2>1. CASE m = l
    BY <1>2, <1>3, <2>1
  <2>2. CASE m # l
    BY <1>1, <1>3, <2>2 DEF SpInv, Words
  <2> QED
    BY <2>1, <2>2
<1> QED
  BY <1>4 DEF Words

\* A step of processor c on the holder of lock l, which no other processor holds.
LEMMA HoldersSet ==
  ASSUME SpInv, NEW c \in SpCpus, NEW b \in Seq(Contexts), NEW z \in Contexts, Moved(c, b, z),
         NEW l \in SpLocks, NEW w \in {c, NoCpu}, splk_holder' = [splk_holder EXCEPT ![l] = w],
         \A m \in SpLocks \ {l} : Holds(z, m) <=> Holds(SpTop(c), m), Holds(z, l) <=> w = c,
         \A d \in SpCpus \ {c} : ~Owns(SpTop(d), l)
  PROVE  Holders'
<1>1. \A d \in SpCpus, m \in SpLocks : m # l => (Holds(SpTop(d)', m) <=> Holds(SpTop(d), m))
  BY Tops
<1>2. \A d \in SpCpus : Holds(SpTop(d)', l) <=> d = c /\ w = c
  <2>1. \A d \in SpCpus \ {c} : ~Holds(SpTop(d)', l)
    BY Tops DEF Owns, Holds
  <2> QED
    BY <2>1, Tops
<1>3. splk_holder'[l] = w /\ \A m \in SpLocks : m # l => splk_holder'[m] = splk_holder[m]
  BY DEF SpInv, SpTyped
<1>4. ASSUME NEW m \in SpLocks, NEW d \in SpCpus PROVE splk_holder'[m] = d <=> Holds(SpTop(d)', m)
  <2>1. CASE m = l
    <3>1. splk_holder'[m] = d <=> d = c /\ w = c
      BY <1>3, <2>1, SpinlockAssumption
    <3> QED
      BY <1>2, <2>1, <3>1
  <2>2. CASE m # l
    BY <1>1, <1>3, <2>2 DEF SpInv, Holders
  <2> QED
    BY <2>1, <2>2
<1> QED
  BY <1>4 DEF Holders

\* The processor that finds the word 0 is the only owner.
LEMMA TestAndSetStep ==
  ASSUME SpInv, NEW c \in SpCpus, TestAndSet(c)
  PROVE  SpInv'
<1> DEFINE x == SpTop(c)
           l == x.lk
           z == [x EXCEPT !.pc = "own"]
<1>1. PICK b \in Seq(Contexts) :
        /\ x \in Contexts /\ CpuAt(c, b, x)
        /\ Form(b, x, irq[c], t_curspl[c], t_iplhigh_count[c], c_spinlocks[c])
  BY CpuTop
<1>2. /\ x.pc = "spin" /\ splk_lock[l] = 0 /\ SpSetTop(c, z) /\ splk_lock' = [splk_lock EXCEPT ![l] = 1]
      /\ UNCHANGED <<splk_holder, irq, t_curspl, t_iplhigh_count, c_spinlocks, sp_panic>>
  BY DEF TestAndSet
<1>3. irq[c] \in BOOLEAN
  BY Unset
<1>4. x.kind # "user"
  <2>1. x.pc # "go"
    BY <1>2
  <2> QED
    BY <1>1, <2>1, NotGo
<1>5. l \in SpLocks
  BY <1>1, <1>2, <1>4, KernelForm DEF Sane
<1>6. z \in Contexts /\ Form(b, z, irq[c], t_curspl[c], t_iplhigh_count[c], c_spinlocks[c])
  BY <1>1, <1>2, <1>3, OwnForm
<1>7. /\ \A m \in SpLocks \ {l} : Owns(z, m) <=> Owns(x, m)
      /\ Owns(z, l) /\ \A m \in SpLocks : Holds(z, m) <=> Holds(x, m)
  BY SMT, <1>1, <1>2 DEF Owns, Holds, Contexts
<1>8. Moved(c, b, z)
  BY <1>1, <1>2, <1>6, SetTopMoves
<1>9. \A d \in SpCpus : ~Owns(SpTop(d), l)
  <2>0. 0 # 1
    BY SMT
  <2>1. splk_lock[l] # 1
    BY <1>2, <2>0
  <2> QED
    BY <1>5, <2>1 DEF SpInv, Words
<1> HIDE DEF z, l
<1>10. Words'
  <2>1. 1 \in {0, 1} /\ (Owns(z, l) <=> 1 = 1)
    BY <1>7
  <2> QED
    <3>1. splk_lock' = [splk_lock EXCEPT ![l] = 1] /\ z \in Contexts
      BY <1>2, <1>6
    <3>2. \A m \in SpLocks \ {l} : Owns(z, m) <=> Owns(SpTop(c), m)
      BY <1>7
    <3>3. \A d \in SpCpus \ {c} : ~Owns(SpTop(d), l)
      BY <1>9
    <3> QED
      BY <1>5, <1>8, <2>1, <3>1, <3>2, <3>3, WordsSet
<1>11. Holders'
  BY <1>2, <1>6, <1>7, <1>8, HoldersSame
<1>12. splk_lock' \in [SpLocks -> {0, 1}] /\ splk_holder' \in [SpLocks -> SpCpus \cup {NoCpu}] /\ ~sp_panic'
  BY <1>2 DEF SpInv, SpTyped
<1> QED
  BY <1>2, <1>6, <1>8, <1>10, <1>11, <1>12, Unset, CpusStep

\* The owner enters its name.
LEMMA SetHolderStep ==
  ASSUME SpInv, NEW c \in SpCpus, SetHolder(c)
  PROVE  SpInv'
<1> DEFINE x == SpTop(c)
           l == x.lk
           z == [x EXCEPT !.pc = "go", !.lk = NoCpu, !.held = x.held \cup {x.lk}]
<1>1. PICK b \in Seq(Contexts) :
        /\ x \in Contexts /\ CpuAt(c, b, x)
        /\ Form(b, x, irq[c], t_curspl[c], t_iplhigh_count[c], c_spinlocks[c])
  BY CpuTop
<1>2. /\ x.pc = "own" /\ SpSetTop(c, z) /\ splk_holder' = [splk_holder EXCEPT ![l] = c]
      /\ UNCHANGED <<splk_lock, irq, t_curspl, t_iplhigh_count, c_spinlocks, sp_panic>>
  BY DEF SetHolder
<1>3. irq[c] \in BOOLEAN
  BY Unset
<1>4. x.kind # "user"
  <2>1. x.pc # "go"
    BY <1>2
  <2> QED
    BY <1>1, <2>1, NotGo
<1>5. l \in SpLocks
  BY <1>1, <1>2, <1>4, KernelForm DEF Sane
<1>6. z \in Contexts /\ Form(b, z, irq[c], t_curspl[c], t_iplhigh_count[c], c_spinlocks[c])
  BY <1>1, <1>2, <1>3, <1>5, HolderForm
<1>7. /\ \A m \in SpLocks : Owns(z, m) <=> Owns(x, m)
      /\ Owns(x, l) /\ Holds(z, l) /\ \A m \in SpLocks \ {l} : Holds(z, m) <=> Holds(x, m)
  BY SMT, <1>1, <1>2 DEF Owns, Holds, Contexts
<1>8. Moved(c, b, z)
  BY <1>1, <1>2, <1>6, SetTopMoves
<1>9. \A d \in SpCpus \ {c} : ~Owns(SpTop(d), l)
  BY <1>5, <1>7 DEF SpInv, Words
<1> HIDE DEF z, l
<1>10. Words'
  BY <1>2, <1>6, <1>7, <1>8, LocksSame
<1>11. Holders'
  <2>1. c \in {c, NoCpu} /\ (Holds(z, l) <=> c = c)
    BY <1>7
  <2> QED
    BY <1>2, <1>5, <1>6, <1>7, <1>8, <1>9, <2>1, HoldersSet
<1>12. splk_lock' \in [SpLocks -> {0, 1}] /\ splk_holder' \in [SpLocks -> SpCpus \cup {NoCpu}] /\ ~sp_panic'
  BY <1>2 DEF SpInv, SpTyped
<1> QED
  BY <1>2, <1>6, <1>8, <1>10, <1>11, <1>12, Unset, CpusStep

\* spinlock_release finds this processor as the holder.
LEMMA ReleaseStep ==
  ASSUME SpInv, NEW c \in SpCpus, NEW l \in SpLocks, spinlock_release(c, l)
  PROVE  SpInv'
<1> DEFINE x == SpTop(c)
           z == [x EXCEPT !.pc = "drop", !.lk = l]
<1>1. PICK b \in Seq(Contexts) :
        /\ x \in Contexts /\ CpuAt(c, b, x)
        /\ Form(b, x, irq[c], t_curspl[c], t_iplhigh_count[c], c_spinlocks[c])
  BY CpuTop
<1>2. /\ x.kind # "user" /\ x.pc = "go" /\ l \in x.held
      /\ SpSetTop(c, z) /\ splk_holder' = [splk_holder EXCEPT ![l] = NoCpu]
      /\ UNCHANGED <<splk_lock, irq, t_curspl, t_iplhigh_count>>
  BY DEF spinlock_release, InKernel
<1>3. irq[c] \in BOOLEAN /\ c_spinlocks[c] - 1 \in Int
  <2>1. irq[c] \in BOOLEAN /\ c_spinlocks[c] \in Int
    BY Unset
  <2> QED
    BY <2>1, SMT
<1>4. z \in Contexts /\ Form(b, z, irq[c], t_curspl[c], t_iplhigh_count[c], c_spinlocks[c] - 1)
  BY <1>1, <1>2, <1>3, ReleaseForm
<1>5. Sets(c_spinlocks, c_spinlocks', c, c_spinlocks[c] - 1, Int)
  BY <1>3, SetsExcept DEF spinlock_release, SpInv, SpTyped
<1>6. /\ \A m \in SpLocks : Owns(z, m) <=> Owns(x, m)
      /\ Owns(x, l) /\ Holds(x, l) /\ ~Holds(z, l) /\ \A m \in SpLocks \ {l} : Holds(z, m) <=> Holds(x, m)
  BY SMT, <1>1, <1>2 DEF Owns, Holds, Contexts
<1>7. Moved(c, b, z)
  BY <1>1, <1>2, <1>4, SetTopMoves
<1>8. \A d \in SpCpus \ {c} : ~Owns(SpTop(d), l)
  BY <1>6 DEF SpInv, Words
<1>9. ~sp_panic'
  <2>1. splk_holder[l] = c
    BY <1>6 DEF SpInv, Holders
  <2>2. Tally(x) /\ c_spinlocks[c] = CountedLocks(x)
    BY <1>1, <1>2, KernelForm DEF KernForm, IrqForm
  <2>3. x.held # {} /\ c_spinlocks[c] = Cardinality(x.held)
    BY <1>2, <2>2 DEF Tally
  <2>4. c_spinlocks[c] # 0
    BY <2>2, <2>3 DEF Tally
  <2> QED
    BY <2>1, <2>4 DEF spinlock_release, SpInv
<1> HIDE DEF z
<1>10. Words'
  BY <1>2, <1>4, <1>6, <1>7, LocksSame
<1>11. Holders'
  <2>1. NoCpu \in {c, NoCpu} /\ (Holds(z, l) <=> NoCpu = c)
    BY <1>6, SpinlockAssumption
  <2> QED
    BY <1>2, <1>4, <1>6, <1>7, <1>8, <2>1, HoldersSet
<1>12. splk_lock' \in [SpLocks -> {0, 1}] /\ splk_holder' \in [SpLocks -> SpCpus \cup {NoCpu}]
  BY <1>2 DEF SpInv, SpTyped
<1> QED
  BY <1>2, <1>4, <1>5, <1>7, <1>9, <1>10, <1>11, <1>12, Unset, CpusStep

\* The word goes to 0 when its only owner lets go.
LEMMA ReleaseWordStep ==
  ASSUME SpInv, NEW c \in SpCpus, ReleaseWord(c)
  PROVE  SpInv'
<1> DEFINE x == SpTop(c)
           l == x.lk
           z == [x EXCEPT !.pc = "go", !.lk = NoCpu, !.held = x.held \ {x.lk}]
<1>1. PICK b \in Seq(Contexts) :
        /\ x \in Contexts /\ CpuAt(c, b, x)
        /\ Form(b, x, irq[c], t_curspl[c], t_iplhigh_count[c], c_spinlocks[c])
  BY CpuTop
<1>2. /\ x.pc = "drop" /\ SpSetTop(c, z) /\ splk_lock' = [splk_lock EXCEPT ![l] = 0] /\ spllower(c)
      /\ UNCHANGED <<splk_holder, t_curspl, c_spinlocks, sp_panic>>
  BY DEF ReleaseWord
<1>3. irq[c] \in BOOLEAN
  BY Unset
<1>4. x.kind # "user"
  <2>1. x.pc # "go"
    BY <1>2
  <2> QED
    BY <1>1, <2>1, NotGo
<1>5. l \in x.held
  BY <1>1, <1>2, <1>4, KernelForm DEF Sane
<1>6. l \in SpLocks
  BY SMT, <1>1, <1>5 DEF Contexts
<1>7. z \in Contexts /\ Form(b, z, IF t_iplhigh_count[c] = 1 THEN TRUE ELSE irq[c], t_curspl[c],
                             t_iplhigh_count[c] - 1, c_spinlocks[c])
  BY <1>1, <1>2, <1>3, DropForm
<1>8. /\ \A m \in SpLocks \ {l} : Owns(z, m) <=> Owns(x, m)
      /\ Owns(x, l) /\ ~Owns(z, l) /\ \A m \in SpLocks : Holds(z, m) <=> Holds(x, m)
  BY SMT, <1>1, <1>2, <1>5 DEF Owns, Holds, Contexts
<1>9. Moved(c, b, z)
  BY <1>1, <1>2, <1>7, SetTopMoves
<1>10. \A d \in SpCpus \ {c} : ~Owns(SpTop(d), l)
  BY <1>6, <1>8 DEF SpInv, Words
<1> HIDE DEF z, l
<1>11. Words'
  <2>0. 0 # 1
    BY SMT
  <2>1. 0 \in {0, 1} /\ (Owns(z, l) <=> 0 = 1)
    BY <1>8, <2>0
  <2> QED
    BY <1>2, <1>6, <1>7, <1>8, <1>9, <1>10, <2>1, WordsSet
<1>12. Holders'
  BY <1>2, <1>7, <1>8, <1>9, HoldersSame
<1>13. splk_lock' \in [SpLocks -> {0, 1}] /\ splk_holder' \in [SpLocks -> SpCpus \cup {NoCpu}] /\ ~sp_panic'
  BY <1>2 DEF SpInv, SpTyped
<1> QED
  BY <1>2, <1>7, <1>9, <1>11, <1>12, <1>13, LowerSets, Unset, CpusStep

\* splhigh turns interrupts off, or finds them off.
LEMMA SplhighStep ==
  ASSUME SpInv, NEW c \in SpCpus, splhigh(c)
  PROVE  SpInv'
<1> DEFINE x == SpTop(c)
           z == [x EXCEPT !.spl = t_curspl[c]]
<1>1. PICK b \in Seq(Contexts) :
        /\ x \in Contexts /\ CpuAt(c, b, x)
        /\ Form(b, x, irq[c], t_curspl[c], t_iplhigh_count[c], c_spinlocks[c])
  BY CpuTop
<1>2. /\ x.kind # "user" /\ x.pc = "go" /\ x.spl = 2 /\ splx(c, 1) /\ SpSetTop(c, z)
      /\ UNCHANGED <<splk_lock, splk_holder, c_spinlocks, sp_panic>>
  BY DEF splhigh, InKernel, IPL_HIGH
<1>3. irq[c] \in BOOLEAN /\ t_curspl[c] \in {0, 1}
  BY Unset
<1>4. \A m \in SpLocks : (Owns(z, m) <=> Owns(x, m)) /\ (Holds(z, m) <=> Holds(x, m))
  BY SMT, <1>1, <1>3 DEF Owns, Holds, Contexts
<1>5. ~sp_panic'
  BY <1>2 DEF SpInv
<1>6. Sets(t_curspl, t_curspl', c, 1, {0, 1})
  <2>1. t_curspl' = [t_curspl EXCEPT ![c] = 1] /\ t_curspl \in [SpCpus -> {0, 1}]
    BY <1>2 DEF splx, SpInv, SpTyped
  <2> QED
    BY <2>1, SetsExcept
<1>7. CASE t_curspl[c] = 0
  <2>1. splraise(c)
    <3>1. t_curspl[c] < 1 /\ ~(t_curspl[c] > 1)
      BY SMT, <1>7
    <3> QED
      BY <1>2, <3>1 DEF splx
  <2>2. z = [x EXCEPT !.spl = 0]
    BY <1>7
  <2>3. z \in Contexts /\ Form(b, z, IF t_iplhigh_count[c] = 0 THEN FALSE ELSE irq[c], 1, t_iplhigh_count[c] + 1,
                               c_spinlocks[c])
    <3>1. x.kind # "user" /\ x.pc = "go" /\ x.spl = 2 /\ t_curspl[c] = 0
      BY <1>2, <1>3, <1>7
    <3>2. Form(b, x, irq[c], t_curspl[c], t_iplhigh_count[c], c_spinlocks[c]) /\ x \in Contexts
      BY <1>1
    <3> HIDE DEF x, z
    <3>3. z \in Contexts /\ RaisedForm(b, z, irq[c], t_iplhigh_count[c], c_spinlocks[c])
      BY <1>3, <3>1, <3>2, <2>2, SplRaiseForm
    <3> QED
      BY <3>3 DEF RaisedForm
  <2>4. Moved(c, b, z)
    BY <1>1, <1>2, <2>3, SetTopMoves
  <2> HIDE DEF z
  <2> QED
    <3>1. /\ Sets(irq, irq', c, IF t_iplhigh_count[c] = 0 THEN FALSE ELSE irq[c], BOOLEAN)
          /\ Sets(t_iplhigh_count, t_iplhigh_count', c, t_iplhigh_count[c] + 1, Int)
          /\ Sets(c_spinlocks, c_spinlocks', c, c_spinlocks[c], Int)
      BY <1>2, <2>1, RaiseSets, Unset
    <3>2. \A m \in SpLocks : Owns(z, m) <=> Owns(SpTop(c), m)
      BY <1>4
    <3>3. \A m \in SpLocks : Holds(z, m) <=> Holds(SpTop(c), m)
      BY <1>4
    <3>4. UNCHANGED <<splk_lock, splk_holder>>
      BY <1>2
    <3> HIDE DEF x
    <3> QED
      BY <1>5, <1>6, <2>3, <2>4, <3>1, <3>2, <3>3, <3>4, NoLockStep
<1>8. CASE t_curspl[c] = 1
  <2>1. UNCHANGED <<irq, t_iplhigh_count>>
    <3>1. ~(t_curspl[c] < 1) /\ ~(t_curspl[c] > 1)
      BY SMT, <1>8
    <3> QED
      BY <1>2, <3>1 DEF splx
  <2>2. z = [x EXCEPT !.spl = 1]
    BY <1>8
  <2>3. z \in Contexts /\ Form(b, z, irq[c], 1, t_iplhigh_count[c], c_spinlocks[c])
    <3>1. x.kind # "user" /\ x.pc = "go" /\ x.spl = 2 /\ t_curspl[c] = 1
      BY <1>2, <1>3, <1>8
    <3>2. Form(b, x, irq[c], t_curspl[c], t_iplhigh_count[c], c_spinlocks[c]) /\ x \in Contexts
      BY <1>1
    <3> HIDE DEF x, z
    <3> QED
      BY <1>3, <3>1, <3>2, <2>2, SplAgainForm
  <2>4. Moved(c, b, z)
    BY <1>1, <1>2, <2>3, SetTopMoves
  <2> HIDE DEF z
  <2> QED
    <3>1. /\ Sets(irq, irq', c, irq[c], BOOLEAN)
          /\ Sets(t_iplhigh_count, t_iplhigh_count', c, t_iplhigh_count[c], Int)
          /\ Sets(c_spinlocks, c_spinlocks', c, c_spinlocks[c], Int)
      BY <1>2, <2>1, Unset
    <3>2. \A m \in SpLocks : Owns(z, m) <=> Owns(SpTop(c), m)
      BY <1>4
    <3>3. \A m \in SpLocks : Holds(z, m) <=> Holds(SpTop(c), m)
      BY <1>4
    <3>4. UNCHANGED <<splk_lock, splk_holder>>
      BY <1>2
    <3> HIDE DEF x
    <3> QED
      BY <1>5, <1>6, <2>3, <2>4, <3>1, <3>2, <3>3, <3>4, NoLockStep
<1> QED
  BY <1>3, <1>7, <1>8

\* splx to what splhigh returned.
LEMMA SplRestoreStep ==
  ASSUME SpInv, NEW c \in SpCpus, SplRestore(c)
  PROVE  SpInv'
<1> DEFINE x == SpTop(c)
           z == [x EXCEPT !.spl = 2]
<1>1. PICK b \in Seq(Contexts) :
        /\ x \in Contexts /\ CpuAt(c, b, x)
        /\ Form(b, x, irq[c], t_curspl[c], t_iplhigh_count[c], c_spinlocks[c])
  BY CpuTop
<1>2. /\ x.kind # "user" /\ x.pc = "go" /\ x.spl # 2 /\ splx(c, x.spl) /\ SpSetTop(c, z)
      /\ UNCHANGED <<splk_lock, splk_holder, c_spinlocks, sp_panic>>
  BY DEF SplRestore, InKernel
<1>3. irq[c] \in BOOLEAN
  BY Unset
<1>4. \A m \in SpLocks : (Owns(z, m) <=> Owns(x, m)) /\ (Holds(z, m) <=> Holds(x, m))
  BY SMT, <1>1 DEF Owns, Holds, Contexts
<1>5. ~sp_panic'
  BY <1>2 DEF SpInv
<1>6. (x.spl = 0 \/ x.spl = 1) /\ t_curspl[c] = 1
  BY <1>1, <1>2, SplLevels
<1>7. Sets(t_curspl, t_curspl', c, x.spl, {0, 1})
  <2>1. t_curspl' = [t_curspl EXCEPT ![c] = x.spl] /\ t_curspl \in [SpCpus -> {0, 1}]
    BY <1>2 DEF splx, SpInv, SpTyped
  <2>2. x.spl \in {0, 1}
    BY <1>6
  <2> QED
    BY <2>1, <2>2, SetsExcept
<1>8. CASE x.spl = 0
  <2>1. spllower(c)
    <3>1. ~(t_curspl[c] < x.spl) /\ t_curspl[c] > x.spl
      BY SMT, <1>6, <1>8
    <3> QED
      BY <1>2, <3>1 DEF splx
  <2>0. z = [x EXCEPT !.spl = 2]
    OBVIOUS
  <2>2. z \in Contexts /\ Form(b, z, IF t_iplhigh_count[c] = 1 THEN TRUE ELSE irq[c], 0, t_iplhigh_count[c] - 1,
                               c_spinlocks[c])
    <3>1. x.kind # "user" /\ x.pc = "go" /\ x.spl = 0
      BY <1>2, <1>3, <1>8
    <3>2. Form(b, x, irq[c], t_curspl[c], t_iplhigh_count[c], c_spinlocks[c]) /\ x \in Contexts
      BY <1>1
    <3> HIDE DEF x, z
    <3>3. z \in Contexts /\ LoweredForm(b, z, irq[c], t_iplhigh_count[c], c_spinlocks[c])
      BY <1>3, <3>1, <3>2, <2>0, SplLowerForm
    <3> QED
      BY <3>3 DEF LoweredForm
  <2>3. Moved(c, b, z)
    BY <1>1, <1>2, <2>2, SetTopMoves
  <2> HIDE DEF z
  <2>4. Sets(t_curspl, t_curspl', c, 0, {0, 1})
    BY <1>7, <1>8
  <2> QED
    <3>1. /\ Sets(irq, irq', c, IF t_iplhigh_count[c] = 1 THEN TRUE ELSE irq[c], BOOLEAN)
          /\ Sets(t_iplhigh_count, t_iplhigh_count', c, t_iplhigh_count[c] - 1, Int)
          /\ Sets(c_spinlocks, c_spinlocks', c, c_spinlocks[c], Int)
      BY <1>2, <2>1, LowerSets, Unset
    <3>2. \A m \in SpLocks : Owns(z, m) <=> Owns(SpTop(c), m)
      BY <1>4
    <3>3. \A m \in SpLocks : Holds(z, m) <=> Holds(SpTop(c), m)
      BY <1>4
    <3>4. UNCHANGED <<splk_lock, splk_holder>>
      BY <1>2
    <3> HIDE DEF x
    <3> QED
      BY <1>5, <2>2, <2>3, <2>4, <3>1, <3>2, <3>3, <3>4, NoLockStep
<1>9. CASE x.spl = 1
  <2>1. UNCHANGED <<irq, t_iplhigh_count>>
    <3>1. ~(t_curspl[c] < x.spl) /\ ~(t_curspl[c] > x.spl)
      BY SMT, <1>6, <1>9
    <3> QED
      BY <1>2, <3>1 DEF splx
  <2>0. z = [x EXCEPT !.spl = 2]
    OBVIOUS
  <2>2. z \in Contexts /\ Form(b, z, irq[c], 1, t_iplhigh_count[c], c_spinlocks[c])
    <3>1. x.kind # "user" /\ x.pc = "go" /\ x.spl = 1
      BY <1>2, <1>3, <1>9
    <3>2. Form(b, x, irq[c], t_curspl[c], t_iplhigh_count[c], c_spinlocks[c]) /\ x \in Contexts
      BY <1>1
    <3> HIDE DEF x, z
    <3>3. z \in Contexts /\ KeptForm(b, z, irq[c], t_iplhigh_count[c], c_spinlocks[c])
      BY <1>3, <3>1, <3>2, <2>0, SplBackForm
    <3> QED
      BY <3>3 DEF KeptForm
  <2>3. Moved(c, b, z)
    BY <1>1, <1>2, <2>2, SetTopMoves
  <2> HIDE DEF z
  <2>4. Sets(t_curspl, t_curspl', c, 1, {0, 1})
    BY <1>7, <1>9
  <2> QED
    <3>1. /\ Sets(irq, irq', c, irq[c], BOOLEAN)
          /\ Sets(t_iplhigh_count, t_iplhigh_count', c, t_iplhigh_count[c], Int)
          /\ Sets(c_spinlocks, c_spinlocks', c, c_spinlocks[c], Int)
      BY <1>2, <2>1, Unset
    <3>2. \A m \in SpLocks : Owns(z, m) <=> Owns(SpTop(c), m)
      BY <1>4
    <3>3. \A m \in SpLocks : Holds(z, m) <=> Holds(SpTop(c), m)
      BY <1>4
    <3>4. UNCHANGED <<splk_lock, splk_holder>>
      BY <1>2
    <3> HIDE DEF x
    <3> QED
      BY <1>5, <2>2, <2>3, <2>4, <3>1, <3>2, <3>3, <3>4, NoLockStep
<1> QED
  BY <1>6, <1>8, <1>9

\* cpu_idle lets interrupts in, with no lock held.
LEMMA IdleStep ==
  ASSUME SpInv, NEW c \in SpCpus, cpu_idle(c)
  PROVE  SpInv'
<1> DEFINE x == SpTop(c)
           z == [x EXCEPT !.pc = "wait"]
<1>1. PICK b \in Seq(Contexts) :
        /\ x \in Contexts /\ CpuAt(c, b, x)
        /\ Form(b, x, irq[c], t_curspl[c], t_iplhigh_count[c], c_spinlocks[c])
  BY CpuTop
<1>2. /\ x.kind = "kern" /\ x.pc = "go" /\ c_spinlocks[c] = 0 /\ t_curspl[c] = 1 /\ SpSetTop(c, z)
      /\ irq' = [irq EXCEPT ![c] = TRUE]
      /\ UNCHANGED <<splk_lock, splk_holder, t_curspl, t_iplhigh_count, c_spinlocks, sp_panic>>
  BY DEF cpu_idle, InKernel, IPL_HIGH
<1>3. irq[c] \in BOOLEAN
  BY Unset
<1>4. \A m \in SpLocks : (Owns(z, m) <=> Owns(x, m)) /\ (Holds(z, m) <=> Holds(x, m))
  BY SMT, <1>1, <1>2 DEF Owns, Holds, Contexts
<1>5. ~sp_panic'
  BY <1>2 DEF SpInv
<1>6. z \in Contexts /\ Form(b, z, TRUE, t_curspl[c], t_iplhigh_count[c], c_spinlocks[c])
  BY <1>1, <1>2, <1>3, IdleForm
<1>7. Moved(c, b, z)
  BY <1>1, <1>2, <1>6, SetTopMoves
<1>8. Sets(irq, irq', c, TRUE, BOOLEAN)
  BY <1>2, SetsExcept DEF SpInv, SpTyped
<1> HIDE DEF z
<1> QED
  BY <1>2, <1>4, <1>5, <1>6, <1>7, <1>8, Unset, NoLockStep

\* The second half of cpu_irqonoff.
LEMMA IrqoffStep ==
  ASSUME SpInv, NEW c \in SpCpus, cpu_irqoff(c)
  PROVE  SpInv'
<1> DEFINE x == SpTop(c)
           z == [x EXCEPT !.pc = "go"]
<1>1. PICK b \in Seq(Contexts) :
        /\ x \in Contexts /\ CpuAt(c, b, x)
        /\ Form(b, x, irq[c], t_curspl[c], t_iplhigh_count[c], c_spinlocks[c])
  BY CpuTop
<1>2. /\ x.pc = "wait" /\ SpSetTop(c, z) /\ irq' = [irq EXCEPT ![c] = FALSE]
      /\ UNCHANGED <<splk_lock, splk_holder, t_curspl, t_iplhigh_count, c_spinlocks, sp_panic>>
  BY DEF cpu_irqoff
<1>3. irq[c] \in BOOLEAN
  BY Unset
<1>4. \A m \in SpLocks : (Owns(z, m) <=> Owns(x, m)) /\ (Holds(z, m) <=> Holds(x, m))
  BY SMT, <1>1, <1>2 DEF Owns, Holds, Contexts
<1>5. ~sp_panic'
  BY <1>2 DEF SpInv
<1>6. z \in Contexts /\ Form(b, z, FALSE, t_curspl[c], t_iplhigh_count[c], c_spinlocks[c])
  BY <1>1, <1>2, <1>3, IrqoffForm
<1>7. Moved(c, b, z)
  BY <1>1, <1>2, <1>6, SetTopMoves
<1>8. Sets(irq, irq', c, FALSE, BOOLEAN)
  BY <1>2, SetsExcept DEF SpInv, SpTyped
<1> HIDE DEF z
<1> QED
  BY <1>2, <1>4, <1>5, <1>6, <1>7, <1>8, Unset, NoLockStep

\* A context without locks owns and holds nothing.
LEMMA NoLocks ==
  ASSUME NEW z, z.held = {}, z.pc # "own"
  PROVE  \A l \in SpLocks : ~Owns(z, l) /\ ~Holds(z, l)
BY DEF Owns, Holds

\* An interrupt finds no lock in the context below, so the locks stay as they are.
LEMMA Bare ==
  ASSUME NEW b, NEW x \in Contexts, NEW p, NEW n, NEW k, Form(b, x, TRUE, p, n, k)
  PROVE  x.held = {} /\ x.pc # "own" /\ x.pc # "spin"
<1>1. CASE x = User
  BY <1>1, UserContext
<1>2. CASE KernForm(b, x, TRUE, p, n, k)
  <2>1. Tally(x)
    BY <1>2, Tallies DEF KernForm
  <2>2. CASE n = 0
    <3>1. Cardinality(x.held) = 0 /\ x.pc # "own" /\ x.pc # "spin"
      BY SMT, <1>2, <2>1, <2>2 DEF KernForm, Tally, Contexts
    <3> QED
      BY <2>1, <3>1 DEF Tally
  <2>3. CASE n # 0
    BY <1>2, <2>3 DEF KernForm
  <2> QED
    BY <2>2, <2>3
<1> QED
  BY <1>1, <1>2 DEF Form, UserForm, IrqForm

\* mips_trap with EX_IRQ.
LEMMA TakeInterruptStep ==
  ASSUME SpInv, NEW c \in SpCpus, TakeInterrupt(c)
  PROVE  SpInv'
<1> DEFINE x == SpTop(c)
           z == SpContext("irq", t_curspl[c] = 0)
           n == IF t_curspl[c] = 0 THEN t_iplhigh_count[c] + 1 ELSE t_iplhigh_count[c]
<1>1. PICK b \in Seq(Contexts) :
        /\ x \in Contexts /\ CpuAt(c, b, x)
        /\ Form(b, x, irq[c], t_curspl[c], t_iplhigh_count[c], c_spinlocks[c])
  BY CpuTop
<1>2. /\ irq[c] /\ SpPush(c, z) /\ irq' = [irq EXCEPT ![c] = FALSE]
      /\ t_curspl' = [t_curspl EXCEPT ![c] = 1] /\ t_iplhigh_count' = [t_iplhigh_count EXCEPT ![c] = n]
      /\ sp_panic' = (sp_panic \/ (t_curspl[c] = 0 /\ t_iplhigh_count[c] # 0))
      /\ UNCHANGED <<splk_lock, splk_holder, c_spinlocks>>
  BY DEF TakeInterrupt, IPL_HIGH, IPL_NONE
<1>3. irq[c] = TRUE /\ t_curspl[c] \in {0, 1} /\ t_iplhigh_count[c] \in Int
  BY <1>2, Unset
<1>4. Form(b, x, TRUE, t_curspl[c], t_iplhigh_count[c], c_spinlocks[c])
  BY <1>1, <1>3
<1>5. /\ z \in Contexts /\ (t_curspl[c] = 0 => t_iplhigh_count[c] = 0)
      /\ Form(Append(b, x), z, FALSE, 1, n, c_spinlocks[c])
  BY <1>1, <1>4, InterruptForm, ZenonT(30)
<1>6. z.held = {} /\ z.pc = "go"
  BY NewContext
<1>7. x.held = {} /\ x.pc # "own"
  BY <1>1, <1>4, Bare
<1>8. \A m \in SpLocks : (Owns(z, m) <=> Owns(x, m)) /\ (Holds(z, m) <=> Holds(x, m))
  <2>1. z.pc # "own"
    BY <1>6
  <2> QED
    BY <1>6, <1>7, <2>1, NoLocks
<1>9. Moved(c, Append(b, x), z) /\ Append(b, x) \in Seq(Contexts)
  BY <1>1, <1>2, <1>5, PushMoves
<1>10. ~sp_panic'
  BY <1>2, <1>5 DEF SpInv
<1>11. Sets(irq, irq', c, FALSE, BOOLEAN) /\ Sets(t_curspl, t_curspl', c, 1, {0, 1})
  BY <1>2, SetsExcept DEF SpInv, SpTyped
<1>12. Sets(t_iplhigh_count, t_iplhigh_count', c, n, Int)
  <2>1. n \in Int
    BY SMT, <1>3
  <2> QED
    BY <1>2, <2>1, SetsExcept DEF SpInv, SpTyped
<1>13. Sets(c_spinlocks, c_spinlocks', c, c_spinlocks[c], Int)
  BY <1>2, Unset
<1>14. UNCHANGED <<splk_lock, splk_holder>>
  BY <1>2
<1> HIDE DEF z, n
<1> QED
  BY <1>5, <1>8, <1>9, <1>10, <1>11, <1>12, <1>13, <1>14, NoLockStep

\* mips_trap with EX_SYS.
LEMMA SyscallStep ==
  ASSUME SpInv, NEW c \in SpCpus, SpSyscall(c)
  PROVE  SpInv'
<1> DEFINE x == SpTop(c)
           z == SpContext("kern", FALSE)
<1>1. PICK b \in Seq(Contexts) :
        /\ x \in Contexts /\ CpuAt(c, b, x)
        /\ Form(b, x, irq[c], t_curspl[c], t_iplhigh_count[c], c_spinlocks[c])
  BY CpuTop
<1>2. /\ x.kind = "user" /\ SpPush(c, z) /\ irq' = [irq EXCEPT ![c] = t_curspl[c] = 0]
      /\ sp_panic' = (sp_panic \/ t_curspl[c] # 0 \/ t_iplhigh_count[c] # 0)
      /\ UNCHANGED <<splk_lock, splk_holder, t_curspl, t_iplhigh_count, c_spinlocks>>
  BY DEF SpSyscall, IPL_NONE
<1>3. z \in Contexts /\ z.kind = "kern" /\ z.pc = "go" /\ z.held = {} /\ z.spl = 2
  BY NewContext
<1>4. irq[c] \in BOOLEAN
  BY Unset
<1> HIDE DEF z
<1>5. /\ t_curspl[c] = 0 /\ t_iplhigh_count[c] = 0
      /\ Form(Append(b, x), z, TRUE, t_curspl[c], t_iplhigh_count[c], c_spinlocks[c])
  <2>1. x.kind = "user" /\ x \in Contexts
    BY <1>1, <1>2
  <2>2. Form(b, x, irq[c], t_curspl[c], t_iplhigh_count[c], c_spinlocks[c])
    BY <1>1
  <2> HIDE DEF x
  <2>3. Entered(b, x, z, t_curspl[c], t_iplhigh_count[c], c_spinlocks[c])
    BY <1>3, <1>4, <2>1, <2>2, SyscallForm
  <2> QED
    BY <2>3 DEF Entered
<1>6. x.held = {} /\ x.pc = "go"
  <2>1. x.kind # "kern" /\ x.kind # "irq"
    BY <1>2
  <2>2. x = User
    BY <1>1, <2>1 DEF Form, UserForm, KernForm, IrqForm
  <2> QED
    BY <2>2, UserContext
<1>7. \A m \in SpLocks : (Owns(z, m) <=> Owns(x, m)) /\ (Holds(z, m) <=> Holds(x, m))
  <2>1. z.pc # "own" /\ x.pc # "own"
    BY <1>3, <1>6
  <2> QED
    BY <1>3, <1>6, <2>1, NoLocks
<1>8. Moved(c, Append(b, x), z) /\ Append(b, x) \in Seq(Contexts)
  BY <1>1, <1>2, <1>3, PushMoves
<1>9. ~sp_panic'
  BY <1>2, <1>5 DEF SpInv
<1>10. Sets(irq, irq', c, TRUE, BOOLEAN)
  <2>1. irq' = [irq EXCEPT ![c] = TRUE]
    BY <1>2, <1>5
  <2> QED
    BY <2>1, SetsExcept DEF SpInv, SpTyped
<1>11. UNCHANGED <<splk_lock, splk_holder>>
  BY <1>2
<1> QED
  BY <1>2, <1>3, <1>5, <1>7, <1>8, <1>9, <1>10, <1>11, Unset, NoLockStep

\* The return from a system call.
LEMMA SyscallReturnStep ==
  ASSUME SpInv, NEW c \in SpCpus, SpSyscallReturn(c)
  PROVE  SpInv'
<1> DEFINE x == SpTop(c)
<1>1. PICK b \in Seq(Contexts) :
        /\ x \in Contexts /\ CpuAt(c, b, x)
        /\ Form(b, x, irq[c], t_curspl[c], t_iplhigh_count[c], c_spinlocks[c])
  BY CpuTop
<1>2. /\ x.kind = "kern" /\ x.pc = "go" /\ x.held = {} /\ x.spl = 2 /\ SpPop(c)
      /\ irq' = [irq EXCEPT ![c] = TRUE]
      /\ UNCHANGED <<splk_lock, splk_holder, t_curspl, t_iplhigh_count, c_spinlocks, sp_panic>>
  BY DEF SpSyscallReturn, InKernel
<1>3. b = Append(<<>>, User) /\ Form(<<>>, User, TRUE, t_curspl[c], t_iplhigh_count[c], c_spinlocks[c])
  BY <1>1, <1>2, SyscallReturnForm
<1>4. Moved(c, <<>>, User)
  BY <1>1, <1>2, <1>3, UserContext, PopMoves
<1>5. \A m \in SpLocks : (Owns(User, m) <=> Owns(x, m)) /\ (Holds(User, m) <=> Holds(x, m))
  <2>1. User.pc # "own" /\ x.pc # "own" /\ User.held = {}
    BY <1>2, UserContext
  <2> QED
    BY <1>2, <2>1, NoLocks
<1>6. ~sp_panic'
  BY <1>2 DEF SpInv
<1>7. Sets(irq, irq', c, TRUE, BOOLEAN)
  BY <1>2, SetsExcept DEF SpInv, SpTyped
<1>8. UNCHANGED <<splk_lock, splk_holder>> /\ User \in Contexts /\ <<>> \in Seq(Contexts)
  BY <1>2, UserContext
<1> QED
  BY <1>2, <1>3, <1>4, <1>5, <1>6, <1>7, <1>8, Unset, NoLockStep

\* The return from a handler.
LEMMA InterruptReturnStep ==
  ASSUME SpInv, NEW c \in SpCpus, InterruptReturn(c)
  PROVE  SpInv'
<1> DEFINE x == SpTop(c)
<1>1. PICK b \in Seq(Contexts) :
        /\ x \in Contexts /\ CpuAt(c, b, x)
        /\ Form(b, x, irq[c], t_curspl[c], t_iplhigh_count[c], c_spinlocks[c])
  BY CpuTop
<1>2. /\ x.kind = "irq" /\ x.pc = "go" /\ x.held = {} /\ SpPop(c) /\ irq' = [irq EXCEPT ![c] = TRUE]
      /\ UNCHANGED <<splk_lock, splk_holder, c_spinlocks>>
  BY DEF InterruptReturn, InKernel
<1>3. t_curspl[c] = 1 /\ t_iplhigh_count[c] = 1
  BY <1>1, <1>2, InterruptReturnForm
<1>4. PICK d \in Seq(Contexts), z \in Contexts :
        /\ b = Append(d, z)
        /\ IF x.doadjust THEN Form(d, z, TRUE, 0, 0, c_spinlocks[c]) ELSE Form(d, z, TRUE, 1, 1, c_spinlocks[c])
  BY <1>1, <1>2, InterruptReturnForm
<1>5. Moved(c, d, z)
  BY <1>1, <1>2, <1>4, PopMoves
<1>6. z.held = {} /\ z.pc # "own"
  BY <1>4, Bare
<1>7. \A m \in SpLocks : (Owns(z, m) <=> Owns(x, m)) /\ (Holds(z, m) <=> Holds(x, m))
  <2>1. x.pc # "own"
    BY <1>2
  <2> QED
    BY <1>2, <1>6, <2>1, NoLocks
<1>8. Sets(irq, irq', c, TRUE, BOOLEAN) /\ Sets(c_spinlocks, c_spinlocks', c, c_spinlocks[c], Int)
  BY <1>2, SetsExcept, Unset DEF SpInv, SpTyped
<1>9. UNCHANGED <<splk_lock, splk_holder>>
  BY <1>2
<1>10. CASE x.doadjust
  <2>1. /\ t_iplhigh_count' = [t_iplhigh_count EXCEPT ![c] = t_iplhigh_count[c] - 1]
        /\ t_curspl' = [t_curspl EXCEPT ![c] = 0]
        /\ sp_panic' = (sp_panic \/ t_curspl[c] # 1 \/ t_iplhigh_count[c] # 1)
    BY <1>10 DEF InterruptReturn, IPL_NONE, IPL_HIGH
  <2>2. ~sp_panic'
    BY <1>3, <2>1 DEF SpInv
  <2>3. t_iplhigh_count[c] - 1 = 0 /\ 0 \in Int /\ 0 \in {0, 1}
    BY SMT, <1>3
  <2>4. Sets(t_iplhigh_count, t_iplhigh_count', c, 0, Int) /\ Sets(t_curspl, t_curspl', c, 0, {0, 1})
    BY <2>1, <2>3, SetsExcept DEF SpInv, SpTyped
  <2>5. Form(d, z, TRUE, 0, 0, c_spinlocks[c])
    BY <1>4, <1>10
  <2> QED
    BY <1>4, <1>5, <1>7, <1>8, <1>9, <2>2, <2>4, <2>5, NoLockStep
<1>11. CASE ~x.doadjust
  <2>1. UNCHANGED <<sp_panic, t_iplhigh_count, t_curspl>>
    BY <1>11 DEF InterruptReturn
  <2>2. ~sp_panic'
    BY <2>1 DEF SpInv
  <2>3. Sets(t_iplhigh_count, t_iplhigh_count', c, 1, Int) /\ Sets(t_curspl, t_curspl', c, 1, {0, 1})
    BY <1>3, <2>1, Unset
  <2>4. Form(d, z, TRUE, 1, 1, c_spinlocks[c])
    BY <1>4, <1>11
  <2> QED
    BY <1>4, <1>5, <1>7, <1>8, <1>9, <2>2, <2>3, <2>4, NoLockStep
<1> QED
  BY <1>10, <1>11

\* At the start every processor is in user mode and every lock is free.
LEMMA SpInitInv == SpinlockInit => SpInv
<1> SUFFICES ASSUME SpinlockInit PROVE SpInv
  BY SMT
<1>1. \A c \in SpCpus : /\ sp_ctx[c] = Append(<<>>, User) /\ irq[c] = TRUE /\ t_curspl[c] = 0
                        /\ t_iplhigh_count[c] = 0 /\ c_spinlocks[c] = 0
  BY UserContext DEF SpinlockInit, User, IPL_NONE
<1>2. SpTyped
  <2>1. \A c \in SpCpus : sp_ctx[c] \in Seq(Contexts)
    BY <1>1, UserContext
  <2>2. 0 \in Int /\ TRUE \in BOOLEAN
    BY SMT
  <2> QED
    BY <2>1, <2>2, UserContext DEF SpinlockInit, SpTyped, IPL_NONE, User
<1>3. ASSUME NEW c \in SpCpus PROVE CpuOk(c)
  <2>1. CpuAt(c, <<>>, User)
    BY <1>1 DEF CpuAt, Form, UserForm
  <2> QED
    BY <2>1, UserContext DEF CpuOk
<1>4. \A c \in SpCpus : SpTop(c) = User
  BY <1>1, UserContext, TopOf
<1>5. \A c \in SpCpus, l \in SpLocks : ~Owns(SpTop(c), l) /\ ~Holds(SpTop(c), l)
  <2>1. User.held = {} /\ User.pc # "own"
    BY UserContext
  <2> QED
    BY <1>4, <2>1, NoLocks
<1>6. \A l \in SpLocks : splk_lock[l] # 1
  <2>1. 0 # 1
    BY SMT
  <2> QED
    BY <2>1 DEF SpinlockInit
<1>7. Words
  BY <1>5, <1>6 DEF Words
<1>8. Holders
  BY <1>5, SpinlockAssumption DEF SpinlockInit, Holders
<1>9. ~sp_panic
  BY DEF SpinlockInit
<1> QED
  BY <1>2, <1>3, <1>7, <1>8, <1>9 DEF SpInv

\* Every step of every processor keeps the invariant.
LEMMA SpNextInv == SpInv /\ [SpinlockNext]_sp_vars => SpInv'
<1> SUFFICES ASSUME SpInv, [SpinlockNext]_sp_vars PROVE SpInv'
  BY SMT
<1>1. CASE UNCHANGED sp_vars
  <2>1. /\ splk_lock' = splk_lock /\ splk_holder' = splk_holder /\ irq' = irq /\ t_curspl' = t_curspl
        /\ t_iplhigh_count' = t_iplhigh_count /\ c_spinlocks' = c_spinlocks /\ sp_ctx' = sp_ctx
        /\ sp_panic' = sp_panic
    BY <1>1 DEF sp_vars
  <2>2. SpTyped' /\ ~sp_panic'
    BY <2>1 DEF SpInv, SpTyped
  <2>3. \A c \in SpCpus : CpuOk(c)'
    BY <2>1 DEF SpInv, CpuOk, CpuAt
  <2>4. Words' /\ Holders'
    BY <2>1 DEF SpInv, Words, Holders, SpTop
  <2> QED
    BY <2>2, <2>3, <2>4 DEF SpInv
<1>2. CASE SpinlockNext
  <2>1. PICK c \in SpCpus :
          \/ \E l \in SpLocks : spinlock_acquire(c, l) \/ spinlock_release(c, l)
          \/ TestAndSet(c) \/ SetHolder(c) \/ ReleaseWord(c) \/ splhigh(c) \/ SplRestore(c)
          \/ TakeInterrupt(c) \/ InterruptReturn(c) \/ SpSyscall(c) \/ SpSyscallReturn(c)
          \/ cpu_idle(c) \/ cpu_irqoff(c)
    BY <1>2 DEF SpinlockNext
  <2> QED
    BY <2>1, AcquireStep, ReleaseStep, TestAndSetStep, SetHolderStep, ReleaseWordStep, SplhighStep,
       SplRestoreStep, TakeInterruptStep, InterruptReturnStep, SyscallStep, SyscallReturnStep, IdleStep, IrqoffStep
<1> QED
  BY <1>1, <1>2

\* The locks of a processor are those of the context on top.
LEMMA HeldOnTop ==
  ASSUME SpInv, NEW c \in SpCpus
  PROVE  HeldBy(c) = SpTop(c).held
<1> DEFINE x == SpTop(c)
<1>1. PICK b \in Seq(Contexts) :
        /\ x \in Contexts /\ CpuAt(c, b, x)
        /\ Form(b, x, irq[c], t_curspl[c], t_iplhigh_count[c], c_spinlocks[c])
  BY CpuTop
<1>2. \A j \in 1..Len(b) : b[j].held = {}
  <2>1. CASE b = <<>>
    BY SMT, <2>1
  <2>2. CASE b = <<User>>
    <3>1. \A j \in 1..Len(b) : b[j] = User
      BY SMT, <2>2
    <3> QED
      BY <3>1, UserContext
  <2>3. ASSUME NEW y \in Contexts, b = <<User, y>>, Quiet(y) PROVE \A j \in 1..Len(b) : b[j].held = {}
    <3>1. \A j \in 1..Len(b) : b[j] = User \/ b[j] = y
      BY SMT, <2>3
    <3> QED
      BY <2>3, <3>1, UserContext DEF Quiet
  <2> QED
    BY <1>1, <2>1, <2>2, <2>3, ZenonT(30) DEF Form, UserForm, KernForm, IrqForm, Interrupted
<1>3. sp_ctx[c] = Append(b, x)
  BY <1>1 DEF CpuAt
<1>4. /\ Len(Append(b, x)) \in 1..Len(Append(b, x)) /\ Append(b, x)[Len(Append(b, x))] = x
      /\ \A j \in 1..Len(Append(b, x)) : Append(b, x)[j] = x \/ (j \in 1..Len(b) /\ Append(b, x)[j] = b[j])
  BY SMT, <1>1
<1>5. \A j \in 1..Len(sp_ctx[c]) : sp_ctx[c][j].held \in {x.held, {}}
  BY <1>2, <1>3, <1>4
<1>6. \E j \in 1..Len(sp_ctx[c]) : sp_ctx[c][j].held = x.held
  BY <1>3, <1>4
<1> HIDE DEF x
<1>7. HeldBy(c) = x.held
  BY <1>5, <1>6, ZenonT(30) DEF HeldBy
<1> QED
  BY <1>7 DEF x

\* A spinlock has one holder at a time, on one processor or another; interrupts are
\* off from before a processor spins until it has dropped its last lock, so that no
\* handler spins on a lock that the code below it holds; and none of the panics and
\* assertions of spinlock.c, spl.c and trap.c is met, for any number of processors
\* and locks and however system calls, interrupts, splhigh and cpu_idle nest.
THEOREM SpinlockSafe == SpinlockSpec => []SpinSafe
<1>1. SpInv => SpinSafe
  <2> SUFFICES ASSUME SpInv PROVE SpinSafe
    BY SMT
  <2>1. SpinExclusive
    <3> SUFFICES ASSUME NEW l \in SpLocks
                 PROVE  LET owners == {c \in SpCpus : l \in HeldBy(c) \/ (SpTop(c).pc = "own" /\ SpTop(c).lk = l)}
                        IN  Cardinality(owners) <= 1 /\ splk_lock[l] = Cardinality(owners)
      BY DEF SpinExclusive
    <3> DEFINE owners == {c \in SpCpus : l \in HeldBy(c) \/ (SpTop(c).pc = "own" /\ SpTop(c).lk = l)}
    <3>1. \A c \in SpCpus : c \in owners <=> Owns(SpTop(c), l)
      BY HeldOnTop DEF Owns
    <3>2. owners \subseteq SpCpus
      OBVIOUS
    <3>3. splk_lock[l] \in {0, 1}
      BY DEF SpInv, SpTyped
    <3> HIDE DEF owners
    <3>4. CASE splk_lock[l] = 1
      <4>1. PICK c \in SpCpus : Owns(SpTop(c), l)
        BY <3>4 DEF SpInv, Words
      <4>2. owners = {c}
        BY <3>1, <3>2, <4>1 DEF SpInv, Words
      <4>3. Cardinality(owners) = 1
        BY <4>2, FS_Singleton
      <4> QED
        BY SMT, <3>4, <4>3 DEF owners
    <3>5. CASE splk_lock[l] = 0
      <4>0. splk_lock[l] # 1
        BY SMT, <3>5
      <4>1. owners = {}
        BY <3>1, <3>2, <4>0 DEF SpInv, Words
      <4>2. Cardinality(owners) = 0
        BY <4>1, FS_EmptySet
      <4> QED
        BY SMT, <3>5, <4>2 DEF owners
    <3> QED
      BY <3>3, <3>4, <3>5 DEF owners
  <2>2. IrqOffWhileHeld
    <3> SUFFICES ASSUME NEW c \in SpCpus
                 PROVE  /\ HeldBy(c) # {} \/ SpTop(c).pc \in {"spin", "own"} => ~irq[c]
                        /\ SpTop(c).kind # "user" => (irq[c] => t_iplhigh_count[c] = 0 \/ SpTop(c).pc = "wait")
      BY DEF IrqOffWhileHeld
    <3>1. PICK b \in Seq(Contexts) :
            /\ SpTop(c) \in Contexts /\ CpuAt(c, b, SpTop(c))
            /\ Form(b, SpTop(c), irq[c], t_curspl[c], t_iplhigh_count[c], c_spinlocks[c])
      BY CpuTop
    <3>2. ASSUME irq[c]
          PROVE  SpTop(c).held = {} /\ SpTop(c).pc # "own" /\ SpTop(c).pc # "spin"
      <4>1. irq[c] = TRUE
        BY <3>2, Unset
      <4> QED
        BY <3>1, <4>1, Bare
    <3>3. ASSUME irq[c], SpTop(c).kind # "user"
          PROVE  t_iplhigh_count[c] = 0 \/ SpTop(c).pc = "wait"
      <4>1. \/ KernForm(b, SpTop(c), irq[c], t_curspl[c], t_iplhigh_count[c], c_spinlocks[c])
            \/ IrqForm(b, SpTop(c), irq[c], t_curspl[c], t_iplhigh_count[c], c_spinlocks[c])
        BY <3>1, <3>3, KernelForm
      <4> QED
        BY <3>3, <4>1 DEF KernForm, IrqForm
    <3> QED
      BY <3>2, <3>3, HeldOnTop
  <2>3. NoSpinPanic
    BY DEF SpInv, NoSpinPanic
  <2> QED
    BY <2>1, <2>2, <2>3 DEF SpinSafe
<1> QED
  BY <1>1, SpInitInv, SpNextInv, PTL DEF SpinlockSpec
=============================================================================
