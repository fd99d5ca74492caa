-------------------------------- MODULE Lock --------------------------------
(***************************************************************************)
(* The sleep lock and the condition variable of kern/thread/synch.c, as    *)
(* compiled with USE_SEMAPHORE_FOR_LOCK: the lock is a semaphore of count  *)
(* one plus an owner field under its own spinlock lk_lock; the condition   *)
(* variable is a wait channel under the spinlock cv_lock.                  *)
(*                                                                         *)
(* Sections under sem_lock or lk_lock never sleep and are single steps.    *)
(* cv_wait keeps cv_lock from before lock_release until it is on the       *)
(* channel, so cv_lock is a variable and cv_wait is split around it.       *)
(***************************************************************************)
EXTENDS Semaphore

CONSTANT NoThread         \* the NULL owner

ASSUME LockAssumption ==
  /\ NoThread \notin Threads
  /\ InitialCount = 1     \* lock_create: sem_create(lock->lk_name, 1)

VARIABLES lk_owner,       \* lock->lk_owner
          cv_lock,        \* the thread that holds cv->cv_lock, or NoThread
          cv_wchan,       \* cv->cv_wchan, oldest sleeper first
          pc              \* where each thread is in the lock and cv calls

lock_vars == <<sem_vars, lk_owner, cv_lock, cv_wchan, pc>>

\* "idle": no call, no lock.  "acquire": in lock_acquire, at P.  "passed": P
\* returned, lk_owner not set yet.  "held": the lock is held.  "cv_locked": in
\* cv_wait with cv_lock.  "cv_released": the lock given up, cv_lock still held.
\* "cv_asleep": on cv_wchan.  "cv_woken": runnable again, inside wchan_sleep.
LockPcs == {"idle", "acquire", "passed", "held",
            "cv_locked", "cv_released", "cv_asleep", "cv_woken"}

Goto(t, l) == pc' = [pc EXCEPT ![t] = l]

lock_create == sem_create /\ lk_owner = NoThread

cv_create == cv_lock = NoThread /\ cv_wchan = <<>>

LockInit == lock_create /\ cv_create /\ pc = [t \in Threads |-> "idle"]
-----------------------------------------------------------------------------
lock_acquire(t) ==
  /\ pc[t] = "idle"
  /\ Goto(t, "acquire")
  /\ UNCHANGED <<sem_vars, lk_owner, cv_lock, cv_wchan>>

\* Mutant of AcquireP: P written with if in place of while, so that a woken
\* thread does not retest the count a newcomer may have taken.
AcquirePOnce(t) ==
  /\ pc[t] = "acquire"
  /\ \/ PPass(t) /\ Goto(t, "passed")
     \/ sem_pc[t] = "out" /\ PBlock(t) /\ UNCHANGED pc
     \/ /\ sem_pc[t] = "woken" /\ sem_count = 0
        /\ sem_pc' = [sem_pc EXCEPT ![t] = "out"]
        /\ Goto(t, "passed")
        /\ UNCHANGED <<sem_count, sem_wchan>>
  /\ UNCHANGED <<lk_owner, cv_lock, cv_wchan>>

\* P(lock->lk_sem), before lk_lock is taken.
AcquireP(t) ==
  /\ pc[t] = "acquire"
  /\ \/ PPass(t) /\ Goto(t, "passed")
     \/ PBlock(t) /\ UNCHANGED pc
  /\ UNCHANGED <<lk_owner, cv_lock, cv_wchan>>

\* Under lk_lock: KASSERT(lk_owner == NULL), then the caller is the owner.
AcquireOwn(t) ==
  /\ pc[t] = "passed"
  /\ lk_owner' = t
  /\ Goto(t, "held")
  /\ UNCHANGED <<sem_vars, cv_lock, cv_wchan>>

\* Mutant of DropLock: the owner field is cleared and V forgotten.
DropLockNoV(t) ==
  /\ lk_owner' = NoThread
  /\ UNCHANGED sem_vars

\* lock_release under lk_lock; V does not sleep, so it is part of the step.
DropLock(t) ==
  /\ lk_owner' = NoThread
  /\ V

lock_release(t) ==
  /\ pc[t] = "held"
  /\ DropLock(t)
  /\ Goto(t, "idle")
  /\ UNCHANGED <<cv_lock, cv_wchan>>
-----------------------------------------------------------------------------
\* Mutant of cv_wait: lock_release before spinlock_acquire(&cv->cv_lock).
CvWaitUnlocked(t) ==
  /\ pc[t] = "held"
  /\ Goto(t, "cv_locked")
  /\ UNCHANGED <<sem_vars, lk_owner, cv_lock, cv_wchan>>

\* cv_wait up to spinlock_acquire(&cv->cv_lock).
cv_wait(t) ==
  /\ pc[t] = "held"
  /\ cv_lock = NoThread
  /\ cv_lock' = t
  /\ Goto(t, "cv_locked")
  /\ UNCHANGED <<sem_vars, lk_owner, cv_wchan>>

\* lock_release(lock) inside cv_wait.
CvRelease(t) ==
  /\ pc[t] = "cv_locked"
  /\ DropLock(t)
  /\ Goto(t, "cv_released")
  /\ UNCHANGED <<cv_lock, cv_wchan>>

\* wchan_sleep: on the channel, and cv_lock dropped, in one step.
CvSleep(t) ==
  /\ pc[t] = "cv_released"
  /\ cv_wchan' = Append(cv_wchan, t)
  /\ cv_lock' = NoThread
  /\ Goto(t, "cv_asleep")
  /\ UNCHANGED <<sem_vars, lk_owner>>

\* Woken: wchan_sleep retakes cv_lock, cv_wait drops it and calls lock_acquire.
CvReacquire(t) ==
  /\ pc[t] = "cv_woken"
  /\ cv_lock = NoThread
  /\ Goto(t, "acquire")
  /\ UNCHANGED <<sem_vars, lk_owner, cv_lock, cv_wchan>>

cv_signal(t) ==
  /\ pc[t] = "held"
  /\ cv_lock = NoThread
  /\ IF cv_wchan = <<>>
     THEN UNCHANGED <<cv_wchan, pc>>
     ELSE /\ cv_wchan' = Tail(cv_wchan)
          /\ Goto(Head(cv_wchan), "cv_woken")
  /\ UNCHANGED <<sem_vars, lk_owner, cv_lock>>

cv_broadcast(t) ==
  /\ pc[t] = "held"
  /\ cv_lock = NoThread
  /\ cv_wchan' = <<>>
  /\ pc' = [u \in Threads |->
              IF \E i \in 1..Len(cv_wchan) : cv_wchan[i] = u THEN "cv_woken" ELSE pc[u]]
  /\ UNCHANGED <<sem_vars, lk_owner, cv_lock>>
-----------------------------------------------------------------------------
\* What a thread inside a call does next, without being asked again.
Inside(t) ==
  AcquireP(t) \/ AcquireOwn(t) \/ CvRelease(t) \/ CvSleep(t) \/ CvReacquire(t)

LockNext == \E t \in Threads :
  \/ lock_acquire(t) \/ lock_release(t)
  \/ cv_wait(t) \/ cv_signal(t) \/ cv_broadcast(t)
  \/ Inside(t)

\* A runnable thread is run (round robin), and critical sections end.
LockFairness == \A t \in Threads :
  /\ WF_lock_vars(Inside(t))
  /\ WF_lock_vars(lock_release(t))

LockSpec == LockInit /\ [][LockNext]_lock_vars

LockFairSpec == LockSpec /\ LockFairness
-----------------------------------------------------------------------------
\* Type invariant: the semaphore of a lock never counts beyond one.
LockTypeOK ==
  /\ SemTypeOK
  /\ sem_count \in {0, 1}
  /\ lk_owner \in Threads \cup {NoThread}
  /\ cv_lock \in Threads \cup {NoThread}
  /\ cv_wchan \in Seq(Threads)
  /\ pc \in [Threads -> LockPcs]

PastP(t) == pc[t] \in {"passed", "held", "cv_locked"}

\* lock_acquire (synch.c:199-238): at most one thread is past P and has not
\* released, and KASSERT(lock->lk_owner == NULL) holds whenever P returns.
MutualExclusion ==
  /\ \A t, u \in Threads : PastP(t) /\ PastP(u) => t = u
  /\ \A t \in Threads : pc[t] = "passed" => lk_owner = NoThread

\* lock_acquire, lock_release: while a thread is asleep in lock_acquire, the
\* lock is held or some awake thread is about to test the semaphore.
NoStrandedSleeper ==
  sem_wchan # <<>> => \E t \in Threads : PastP(t) \/ sem_pc[t] = "woken"

\* The lock and cv calls implement the monitor: cv_wait's release of the lock
\* and its start of waiting cannot be separated by a cv_signal or broadcast.
Released == {t \in Threads : pc[t] = "cv_released"}

M == INSTANCE Monitor WITH
  owner <- lk_owner,
  waiters <- IF Released = {} THEN cv_wchan
             ELSE Append(cv_wchan, CHOOSE t \in Released : TRUE)

IsMonitor == M!MonitorSpec

\* lock_acquire: when threads contend for the lock, some thread gets it.
LockProgress ==
  (\E t \in Threads : pc[t] \in {"acquire", "passed"})
    ~> (\E t \in Threads : pc[t] = "held")
=============================================================================
