------------------------------ MODULE Monitor ------------------------------
(***************************************************************************)
(* What include/synch.h promises of a lock and its condition variable: a   *)
(* monitor with Mesa semantics.  Taking the lock is one step, cv_wait gives *)
(* it up and starts waiting in one step, cv_signal wakes the longest       *)
(* waiter, cv_broadcast all of them, and a woken thread competes for the   *)
(* lock like any other.                                                    *)
(***************************************************************************)
EXTENDS Sequences, Integers

CONSTANTS Threads, NoThread

VARIABLES owner,     \* the thread that holds the lock, or NoThread
          waiters    \* the threads in cv_wait, longest waiting first

monitor_vars == <<owner, waiters>>

MonitorInit == owner = NoThread /\ waiters = <<>>

Acquire(t) ==
  /\ owner = NoThread
  /\ \A i \in 1..Len(waiters) : waiters[i] # t
  /\ owner' = t
  /\ UNCHANGED waiters

Release(t) ==
  /\ owner = t
  /\ owner' = NoThread
  /\ UNCHANGED waiters

Wait(t) ==
  /\ owner = t
  /\ owner' = NoThread
  /\ waiters' = Append(waiters, t)

Signal(t) ==
  /\ owner = t
  /\ waiters # <<>>
  /\ waiters' = Tail(waiters)
  /\ UNCHANGED owner

Broadcast(t) ==
  /\ owner = t
  /\ waiters' = <<>>
  /\ UNCHANGED owner

MonitorNext == \E t \in Threads :
  Acquire(t) \/ Release(t) \/ Wait(t) \/ Signal(t) \/ Broadcast(t)

MonitorSpec == MonitorInit /\ [][MonitorNext]_monitor_vars
=============================================================================
