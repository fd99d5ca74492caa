----------------------------- MODULE Semaphore -----------------------------
(***************************************************************************)
(* The counting semaphore of kern/thread/synch.c and the wait channel of   *)
(* kern/thread/thread.c it sleeps on.                                      *)
(*                                                                         *)
(* Everything P and V do between spinlock_acquire(&sem->sem_lock) and the  *)
(* matching release, or the release inside wchan_sleep, is one step: the   *)
(* spinlock excludes every other P and V, and thread_switch drops it only  *)
(* once the sleeper is on the channel.                                     *)
(***************************************************************************)
EXTENDS Naturals, Sequences, FiniteSets

CONSTANTS Threads,        \* the kernel threads that share the semaphore
          InitialCount,   \* the initial_count argument of sem_create
          MaxCount        \* bound on sem_count: V is not called beyond it

ASSUME SemaphoreAssumption ==
  /\ IsFiniteSet(Threads)
  /\ InitialCount \in Nat
  /\ MaxCount \in Nat

VARIABLES sem_count,      \* sem->sem_count
          sem_wchan,      \* sem->sem_wchan: the sleeping threads, oldest first
          sem_pc          \* where each thread is with respect to P

sem_vars == <<sem_count, sem_wchan, sem_pc>>

\* "out": not inside P.  "asleep": on the wait channel, in wchan_sleep.
\* "woken": made runnable by a V, but yet to run and retest sem_count.
SemPcs == {"out", "asleep", "woken"}

sem_create ==
  /\ sem_count = InitialCount
  /\ sem_wchan = <<>>
  /\ sem_pc = [t \in Threads |-> "out"]
-----------------------------------------------------------------------------
\* threadlist_addtail on the channel; the thread runs no more until woken.
wchan_sleep(t) ==
  /\ sem_wchan' = Append(sem_wchan, t)
  /\ sem_pc' = [sem_pc EXCEPT ![t] = "asleep"]

\* threadlist_remhead; the oldest sleeper, if there is one, becomes runnable.
wchan_wakeone ==
  IF sem_wchan = <<>>
  THEN UNCHANGED <<sem_wchan, sem_pc>>
  ELSE /\ sem_wchan' = Tail(sem_wchan)
       /\ sem_pc' = [sem_pc EXCEPT ![Head(sem_wchan)] = "woken"]

\* The loop test of P with a count to take: P returns.
PPass(t) ==
  /\ sem_pc[t] \in {"out", "woken"}
  /\ sem_count > 0
  /\ sem_count' = sem_count - 1
  /\ sem_pc' = [sem_pc EXCEPT ![t] = "out"]
  /\ UNCHANGED sem_wchan

\* Mutant of PBlock: a woken thread is put back on the channel's list without
\* being marked asleep, as if thread_switch had skipped the state change.
PBlockAwake(t) ==
  /\ sem_pc[t] \in {"out", "woken"}
  /\ sem_count = 0
  /\ sem_wchan' = Append(sem_wchan, t)
  /\ UNCHANGED <<sem_count, sem_pc>>

\* The loop test of P at zero: the thread goes (back) to sleep.
PBlock(t) ==
  /\ sem_pc[t] \in {"out", "woken"}
  /\ sem_count = 0
  /\ wchan_sleep(t)
  /\ UNCHANGED sem_count

\* Mutant of V: the wakeup only when the count leaves zero, the optimisation
\* that strands the second sleeper when two Vs precede the first retest.
VWakeOnlyFromZero ==
  /\ sem_count' = sem_count + 1
  /\ IF sem_count = 0 THEN wchan_wakeone ELSE UNCHANGED <<sem_wchan, sem_pc>>

V ==
  /\ sem_count' = sem_count + 1
  /\ wchan_wakeone

\* A V by any thread or interrupt handler.
SemPost ==
  /\ sem_count < MaxCount
  /\ V

SemNext ==
  \/ \E t \in Threads : PPass(t) \/ PBlock(t)
  \/ SemPost

\* A thread that was woken is on a run queue, and the round-robin queue runs
\* every thread on it; nothing obliges anybody to call P or V.
SemFairness == \A t \in Threads :
  WF_sem_vars(sem_pc[t] = "woken" /\ (PPass(t) \/ PBlock(t)))

SemSpec == sem_create /\ [][SemNext]_sem_vars

SemFairSpec == SemSpec /\ SemFairness
-----------------------------------------------------------------------------
\* Type invariant of the semaphore.
SemTypeOK ==
  /\ sem_count \in Nat
  /\ sem_wchan \in Seq(Threads)
  /\ sem_pc \in [Threads -> SemPcs]

\* P and V (synch.c): the channel lists exactly the sleeping threads, each
\* once.  A thread listed twice would be made runnable while it runs; one that
\* sleeps unlisted is never woken.
ChannelListsSleepers ==
  /\ \A t \in Threads :
       sem_pc[t] = "asleep" <=> \E i \in 1..Len(sem_wchan) : sem_wchan[i] = t
  /\ \A i, j \in 1..Len(sem_wchan) : sem_wchan[i] = sem_wchan[j] => i = j

Woken == {t \in Threads : sem_pc[t] = "woken"}

\* P's retest loop and V's single wchan_wakeone (synch.c:88-135): while anybody
\* sleeps, every unit of the count has a woken thread on its way to retest, so
\* no V is lost however many callers barge in between the V and the retest.
NoLostWakeup == sem_wchan # <<>> => sem_count <= Cardinality(Woken)

\* V then P (synch.c): a count that sleepers are waiting for is taken or the
\* channel drains; the semaphore does not stay open with threads asleep on it.
WakeupIsConsumed ==
  (sem_count > 0 /\ sem_wchan # <<>>) ~> (sem_count = 0 \/ sem_wchan = <<>>)
=============================================================================
