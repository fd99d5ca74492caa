----------------------------- MODULE SynchTests -----------------------------
(***************************************************************************)
(* The kernel's tests of semaphores, locks, condition variables and wait   *)
(* channels: kern/test/semunit.c, synchtest.c and tt3.c, run by the menu   *)
(* thread with the threads they fork.                                      *)
(*                                                                         *)
(* A thread is the sequence of calls it still makes.  Semaphores are those *)
(* of synch.c: a count and the queue of sleepers, retested after a wakeup. *)
(* Locks and condition variables are the monitors of module Monitor, which *)
(* module Lock shows the code to implement.  clocksleep(1) is taken at the *)
(* tests' word: the others have run as far as they can.                    *)
(***************************************************************************)
EXTENDS Integers, Sequences, FiniteSets, SequencesExt, TLC

CONSTANTS SsThreads,            \* how many threads a test forks (NTHREADS)
          LockLoops, CvLoops,   \* NLOCKLOOPS, NCVLOOPS (and NLOOPS of cvtest2)
          NCVS,                 \* the lock and cv pairs of cvtest2
          SleepIters, NWAITCHANS, WakerWakes, Computes, \* of tt3
          SemMax                \* (unsigned)-1

Menu == 0
Workers == 1..(SsThreads + 2)
SsAll == {Menu} \cup Workers
SemNames == {"sem", "done", "gate", "exit", "waker"}

VARIABLES ss_test,      \* the test being run
          ss_prog,      \* per thread: the calls still to make
          ss_asleep,    \* the threads asleep
          ss_count,     \* sem_count by semaphore
          ss_wchan,     \* the sleepers of each semaphore, oldest first
          ss_owner,     \* the owner of each lock, or -1
          ss_cv,        \* the sleepers of each condition variable or wait channel
          ss_val,       \* testval1, testval2, testval3; wakerdone; waiters_running
          ss_flags,     \* of the menu thread: in an interrupt, holding a spinlock
          ss_out,       \* what was printed, where a test is about its order
          ss_verdict    \* "run", "assert" (a KASSERT or crash in the kernel), "fail"
ss_vars == <<ss_test, ss_prog, ss_asleep, ss_count, ss_wchan, ss_owner, ss_cv,
             ss_val, ss_flags, ss_out, ss_verdict>>
-----------------------------------------------------------------------------
\* A call: the operation, a semaphore or a word, a number.
C(op, s, n) == <<[op |-> op, s |-> s, n |-> n]>>
DoP(s) == C("P", s, 0)
DoV(s) == C("V", s, 0)
Acquire(l) == C("acquire", "", l)
Release(l) == C("release", "", l)
Times(n, calls) == FlattenSeq([i \in 1..n |-> calls])
Fork(s, n) == C("fork", s, n)
Destroy(s) == C("destroy", s, 0)
Expect(s, n) == C("expect", s, n)             \* KASSERT(sem_count == n)
ExpectRunning(n) == C("running", "", n)       \* KASSERT(waiters_running == n)
clocksleep == C("clocksleep", "", 0)
Panic == C("panic", "", 0)

\* synchtest.c: the semaphore test.
semtestthread(n) == DoP("sem") \o C("print", "begin", n) \o C("print", "end", n) \o DoV("done")

\* Mutant of semtest: the threads are all let go before one is waited for.
SemtestBurst ==
  Times(2, DoP("sem")) \o FlattenSeq([i \in 1..SsThreads |-> Fork("semtestthread", i)])
  \o Times(SsThreads, DoV("sem")) \o Times(SsThreads, DoP("done")) \o Times(2, DoV("sem"))

\* Mutant of semtest: one of the two units is not given back.
SemtestKeeps ==
  Times(2, DoP("sem")) \o FlattenSeq([i \in 1..SsThreads |-> Fork("semtestthread", i)])
  \o Times(SsThreads, DoV("sem") \o DoP("done")) \o DoV("sem")

semtest ==
  Times(2, DoP("sem")) \o FlattenSeq([i \in 1..SsThreads |-> Fork("semtestthread", i)])
  \o Times(SsThreads, DoV("sem") \o DoP("done")) \o Times(2, DoV("sem"))

\* synchtest.c: the lock test.
locktestthread(n) ==
  Times(LockLoops, Acquire(1) \o C("set", "testval1", n) \o C("set", "testval2", n * n)
                   \o C("set", "testval3", n % 3) \o C("match", "", n) \o Release(1))
  \o DoV("done")
locktest == FlattenSeq([i \in 1..SsThreads |-> Fork("locktestthread", i)])
            \o Times(SsThreads, DoP("done"))

\* synchtest.c: the cv test; the threads take turns downwards.
cvtestthread(n) ==
  Times(CvLoops, Acquire(1) \o C("await", "testval1", n) \o C("print", "turn", n)
                 \o C("down", "testval1", 0) \o C("broadcast", "", 1) \o Release(1))
  \o DoV("done")
cvtest == C("set", "testval1", SsThreads)
          \o FlattenSeq([i \in 1..SsThreads |-> Fork("cvtestthread", i)])
          \o Times(SsThreads, DoP("done"))

\* Mutant of sleepthread: the gate is opened before the lock is taken.
SleepthreadEarly ==
  Times(CvLoops, FlattenSeq([i \in 1..NCVS |->
    DoV("gate") \o Acquire(i) \o C("wait", "", i) \o Release(i)])) \o DoV("exit")

\* synchtest.c: one thread sleeps on each pair in turn and another wakes it.
sleepthread ==
  Times(CvLoops, FlattenSeq([i \in 1..NCVS |->
    Acquire(i) \o DoV("gate") \o C("wait", "", i) \o Release(i)])) \o DoV("exit")
wakethread ==
  Times(CvLoops, FlattenSeq([i \in 1..NCVS |->
    DoP("gate") \o Acquire(i) \o C("signal", "", i) \o Release(i)])) \o DoV("exit")
cvtest2 == Fork("sleepthread", 1) \o Fork("wakethread", 2) \o Times(2, DoP("exit"))
           \o Destroy("exit") \o Destroy("gate")

\* tt3.c: sleepers on wait channels, a waker, threads that compute.
sleepalot_thread == Times(SleepIters, C("wchan_sleep", "", 0)) \o DoV("done")
waker_thread == DoP("waker") \o C("done?", "", 0)
WakerTurn == DoV("waker") \o Times(WakerWakes, C("wchan_wakeall", "", 0)) \o waker_thread
compute_thread == DoV("done")
finish == Times(SsThreads + Computes, DoP("done")) \o DoP("waker") \o C("set", "wakerdone", 1)
          \o DoV("waker") \o DoP("done")
runtest3 == FlattenSeq([i \in 1..SsThreads |-> Fork("sleepalot_thread", i)])
            \o Fork("waker_thread", SsThreads + 1)
            \o Times(Computes, Fork("compute_thread", SsThreads + 2)) \o finish

\* semunit.c.  makesem sets the count; the waiters count themselves.
makesem(n) == C("makesem", "sem", n)
waiter == DoP("sem") \o C("waiterdone", "", 0)
makewaiter(i) == C("waiterup", "", 0) \o Fork("waiter", i) \o clocksleep
InInterrupt(on, calls) == IF on THEN C("irq", "", 1) \o calls \o C("irq", "", 0) ELSE calls
semu1 == makesem(1) \o Expect("sem", 1) \o Destroy("sem")
semu4 == makesem(0) \o C("decrement", "", 0) \o Expect("sem", SemMax) \o Destroy("sem")
semu5 == makesem(SemMax - 1) \o Expect("sem", SemMax - 1) \o Destroy("sem")
semu6 == makesem(0) \o makewaiter(1) \o Destroy("sem") \o Panic
semu7 == makesem(0) \o C("spin", "", 1) \o Times(3, DoV("sem")) \o C("spin", "", 0) \o Destroy("sem")
do_semu89(irq) == makesem(0) \o InInterrupt(irq, DoV("sem")) \o Expect("sem", 1) \o Destroy("sem")
do_semu1011(irq) ==
  makesem(0) \o makewaiter(1) \o ExpectRunning(1) \o InInterrupt(irq, DoV("sem")) \o clocksleep
  \o Expect("sem", 0) \o ExpectRunning(0) \o Destroy("sem")
semu1213(irq) ==
  makesem(0) \o makewaiter(1) \o makewaiter(2) \o ExpectRunning(2)
  \o InInterrupt(irq, DoV("sem")) \o clocksleep \o Expect("sem", 0) \o ExpectRunning(1)
  \o DoV("sem") \o clocksleep \o ExpectRunning(0) \o Destroy("sem")
semu14 == makesem(0) \o C("decrement", "", 0) \o DoV("sem") \o Expect("sem", 0) \o Panic
semu16 == makesem(1) \o C("spin", "", 1) \o DoP("sem") \o C("spin", "", 0) \o Destroy("sem")
semu17_sub == Expect("sem", 0) \o DoP("sem")
semu17 == makesem(0) \o Fork("semu17_sub", 1) \o clocksleep \o C("sleeping", "", 1)
          \o DoV("sem") \o clocksleep \o Destroy("sem")
semu18 == makesem(1) \o Expect("sem", 1) \o DoP("sem") \o Expect("sem", 0)
semu19_sub == clocksleep \o DoV("sem")
semu19 == makesem(0) \o Fork("semu19_sub", 1) \o Expect("sem", 0) \o DoP("sem") \o Expect("sem", 0)
semu20 == makesem(0) \o C("irq", "", 1) \o DoP("sem") \o Panic
semu21 == makesem(1) \o C("irq", "", 1) \o DoP("sem") \o Panic

TestOf ==
  [semtest |-> semtest, locktest |-> locktest, cvtest |-> cvtest, cvtest2 |-> cvtest2,
   runtest3 |-> runtest3, semu1 |-> semu1, semu5 |-> semu5, semu4 |-> semu4, semu6 |-> semu6, semu7 |-> semu7,
   semu8 |-> do_semu89(FALSE), semu9 |-> do_semu89(TRUE), semu10 |-> do_semu1011(FALSE),
   semu11 |-> do_semu1011(TRUE), semu12 |-> semu1213(FALSE), semu13 |-> semu1213(TRUE),
   semu14 |-> semu14, semu16 |-> semu16, semu17 |-> semu17, semu18 |-> semu18,
   semu19 |-> semu19, semu20 |-> semu20, semu21 |-> semu21]

\* The tests whose last call is meant to be the kernel's last.
MeantToCrash == {"semu6", "semu14", "semu20", "semu21"}

ThreadOf(s, n) ==
  CASE s = "semtestthread" -> semtestthread(n) [] s = "locktestthread" -> locktestthread(n)
    [] s = "cvtestthread" -> cvtestthread(n) [] s = "sleepthread" -> sleepthread
    [] s = "wakethread" -> wakethread [] s = "sleepalot_thread" -> sleepalot_thread
    [] s = "waker_thread" -> waker_thread [] s = "compute_thread" -> compute_thread
    [] s = "waiter" -> waiter [] s = "semu17_sub" -> semu17_sub [] OTHER -> semu19_sub
-----------------------------------------------------------------------------
Call(t) == Head(ss_prog[t])
Return(t) == ss_prog' = [ss_prog EXCEPT ![t] = Tail(@)]
SsRuns(t, op) == ss_verdict = "run" /\ ss_prog[t] # <<>> /\ t \notin ss_asleep /\ Call(t).op = op
SsAssert(ok) == ss_verdict' = IF ok THEN "run" ELSE "assert"

\* P: not in an interrupt; a count is taken, or the thread sleeps, which it may
\* not do with a spinlock held.
SsP(t) ==
  /\ SsRuns(t, "P")
  /\ LET s == Call(t).s
         irq == t = Menu /\ ss_flags.irq
         spin == t = Menu /\ ss_flags.spin
         take == ss_count[s] > 0 IN
     /\ SsAssert(~irq /\ (spin => take))
     /\ ss_count' = IF take THEN [ss_count EXCEPT ![s] = @ - 1] ELSE ss_count
     /\ ss_wchan' = IF take THEN ss_wchan ELSE [ss_wchan EXCEPT ![s] = Append(@, t)]
     /\ ss_asleep' = IF take THEN ss_asleep ELSE ss_asleep \cup {t}
     /\ IF take THEN Return(t) ELSE UNCHANGED ss_prog
  /\ UNCHANGED <<ss_test, ss_owner, ss_cv, ss_val, ss_flags, ss_out>>

\* V: the count may not wrap; the oldest sleeper runs again.
SsV(t) ==
  /\ SsRuns(t, "V")
  /\ LET s == Call(t).s
         q == ss_wchan[s]
         up == (ss_count[s] + 1) % (SemMax + 1) IN
     /\ ss_count' = [ss_count EXCEPT ![s] = up]
     /\ SsAssert(up > 0)
     /\ ss_wchan' = IF q = <<>> THEN ss_wchan ELSE [ss_wchan EXCEPT ![s] = Tail(q)]
     /\ ss_asleep' = IF q = <<>> THEN ss_asleep ELSE ss_asleep \ {Head(q)}
  /\ Return(t)
  /\ UNCHANGED <<ss_test, ss_owner, ss_cv, ss_val, ss_flags, ss_out>>

SsLock(t) ==
  /\ \/ SsRuns(t, "acquire") /\ ss_owner[Call(t).n] = -1 /\ ss_owner' = [ss_owner EXCEPT ![Call(t).n] = t]
     \/ SsRuns(t, "release") /\ ss_owner' = [ss_owner EXCEPT ![Call(t).n] = -1]
  /\ Return(t)
  /\ UNCHANGED <<ss_test, ss_asleep, ss_count, ss_wchan, ss_cv, ss_val, ss_flags, ss_out, ss_verdict>>

\* cv_wait: the lock is given up and the thread sleeps in one step, then the lock
\* is acquired again; cvtestthread waits until it is its turn.
SsWait(t) ==
  /\ \/ SsRuns(t, "wait")
     \/ SsRuns(t, "await") /\ ss_val[Call(t).s] # Call(t).n
  /\ LET c == IF Call(t).op = "wait" THEN Call(t).n ELSE 1
         rest == IF Call(t).op = "wait" THEN Tail(ss_prog[t]) ELSE ss_prog[t] IN
     /\ ss_prog' = [ss_prog EXCEPT ![t] = Acquire(c) \o rest]
     /\ ss_owner' = [ss_owner EXCEPT ![c] = -1]
     /\ ss_cv' = [ss_cv EXCEPT ![c] = Append(@, t)]
     /\ ss_asleep' = ss_asleep \cup {t}
  /\ UNCHANGED <<ss_test, ss_count, ss_wchan, ss_val, ss_flags, ss_out, ss_verdict>>

SsAwaited(t) ==
  /\ SsRuns(t, "await") /\ ss_val[Call(t).s] = Call(t).n /\ Return(t)
  /\ UNCHANGED <<ss_test, ss_asleep, ss_count, ss_wchan, ss_owner, ss_cv, ss_val, ss_flags, ss_out, ss_verdict>>

\* cv_signal, cv_broadcast, wchan_wakeall; wchan_sleep on a random channel.
SsWake(t) ==
  /\ \/ SsRuns(t, "signal") \/ SsRuns(t, "broadcast") \/ SsRuns(t, "wchan_wakeall")
  /\ \E c \in IF Call(t).op = "wchan_wakeall" THEN 1..NWAITCHANS ELSE {Call(t).n} :
       LET q == ss_cv[c]
           n == IF Call(t).op = "signal" /\ q # <<>> THEN 1 ELSE Len(q) IN
       /\ ss_cv' = [ss_cv EXCEPT ![c] = SubSeq(q, n + 1, Len(q))]
       /\ ss_asleep' = ss_asleep \ {q[i] : i \in 1..n}
  /\ Return(t)
  /\ UNCHANGED <<ss_test, ss_count, ss_wchan, ss_owner, ss_val, ss_flags, ss_out, ss_verdict>>

SsSleep(t) ==
  /\ SsRuns(t, "wchan_sleep")
  /\ \E c \in 1..NWAITCHANS : ss_cv' = [ss_cv EXCEPT ![c] = Append(@, t)]
  /\ ss_asleep' = ss_asleep \cup {t}
  /\ Return(t)
  /\ UNCHANGED <<ss_test, ss_count, ss_wchan, ss_owner, ss_val, ss_flags, ss_out, ss_verdict>>

\* thread_fork of thread n of the test.
SsFork(t) ==
  /\ SsRuns(t, "fork")
  /\ ss_prog' = [ss_prog EXCEPT ![t] = Tail(@), ![Call(t).n] = ThreadOf(Call(t).s, Call(t).n)]
  /\ UNCHANGED <<ss_test, ss_asleep, ss_count, ss_wchan, ss_owner, ss_cv, ss_val, ss_flags, ss_out, ss_verdict>>

\* clocksleep(1): every other thread is asleep, sleeping on the clock or gone.
SsClocksleep(t) ==
  /\ SsRuns(t, "clocksleep")
  /\ \A u \in SsAll \ {t} : u \in ss_asleep \/ ss_prog[u] = <<>>
  /\ Return(t)
  /\ UNCHANGED <<ss_test, ss_asleep, ss_count, ss_wchan, ss_owner, ss_cv, ss_val, ss_flags, ss_out, ss_verdict>>

\* The test variables, the flags of the thread, and what is printed.
Set(v, n) == [ss_val EXCEPT ![v] = n]
SsData(t) ==
  /\ \E op \in {"set", "down", "waiterup", "waiterdone", "irq", "spin", "print", "decrement", "makesem"} : SsRuns(t, op)
  /\ LET c == Call(t) IN
     /\ ss_val' = CASE c.op = "set" -> Set(c.s, c.n)
                    [] c.op = "down" -> Set(c.s, 1 + ((ss_val[c.s] + SsThreads - 2) % SsThreads))
                    [] c.op = "waiterup" -> Set("running", ss_val.running + 1)
                    [] c.op = "waiterdone" -> Set("running", ss_val.running - 1)
                    [] OTHER -> ss_val
     /\ ss_flags' = IF c.op \in {"irq", "spin"} THEN [ss_flags EXCEPT ![c.op] = (c.n = 1)] ELSE ss_flags
     /\ ss_out' = IF c.op = "print" THEN Append(ss_out, <<c.s, c.n>>) ELSE ss_out
     /\ ss_count' = CASE c.op = "decrement" -> [ss_count EXCEPT !["sem"] = (@ + SemMax) % (SemMax + 1)]
                      [] c.op = "makesem" -> [ss_count EXCEPT !["sem"] = c.n]
                      [] OTHER -> ss_count
     /\ SsAssert(c.op = "waiterdone" => ss_val.running > 0)
  /\ Return(t)
  /\ UNCHANGED <<ss_test, ss_asleep, ss_wchan, ss_owner, ss_cv>>

\* The checks of the tests, and sem_destroy with wchan_destroy's KASSERT.
SsCheck(t) ==
  /\ \E op \in {"expect", "running", "sleeping", "destroy", "match", "panic"} : SsRuns(t, op)
  /\ LET c == Call(t)
         ok == CASE c.op = "expect" -> ss_count[c.s] = c.n
                 [] c.op = "running" -> ss_val.running = c.n
                 [] c.op = "sleeping" -> c.n \in ss_asleep
                 [] c.op = "match" -> ss_val.testval1 = c.n /\ ss_val.testval2 = c.n * c.n
                                      /\ ss_val.testval3 = c.n % 3
                 [] OTHER -> FALSE IN
     ss_verdict' = CASE c.op = "destroy" -> IF ss_wchan[c.s] = <<>> THEN "run" ELSE "assert"
                     [] c.op # "destroy" /\ ok -> "run"
                     [] OTHER -> "fail"
  /\ Return(t)
  /\ UNCHANGED <<ss_test, ss_asleep, ss_count, ss_wchan, ss_owner, ss_cv, ss_val, ss_flags, ss_out>>

\* waker_thread between P and V of wakersem: out if it is done, else another turn.
SsWaker(t) ==
  /\ SsRuns(t, "done?")
  /\ ss_prog' = [ss_prog EXCEPT ![t] = IF ss_val.wakerdone = 1 THEN DoV("waker") \o DoV("done") ELSE WakerTurn]
  /\ UNCHANGED <<ss_test, ss_asleep, ss_count, ss_wchan, ss_owner, ss_cv, ss_val, ss_flags, ss_out, ss_verdict>>

\* inititems and setup.
SynchTestsInit ==
  /\ ss_test \in DOMAIN TestOf
  /\ ss_prog = [t \in SsAll |-> IF t = Menu THEN TestOf[ss_test] ELSE <<>>]
  /\ ss_asleep = {} /\ ss_wchan = [s \in SemNames |-> <<>>]
  /\ ss_count = [s \in SemNames |-> CASE s = "sem" -> 2 [] s = "waker" -> 1 [] OTHER -> 0]
  /\ ss_owner = [l \in 1..NCVS |-> -1]
  /\ ss_cv = [c \in 1..(NCVS + NWAITCHANS) |-> <<>>]
  /\ ss_val = [testval1 |-> 0, testval2 |-> 0, testval3 |-> 0, wakerdone |-> 0, running |-> 0]
  /\ ss_flags = [irq |-> FALSE, spin |-> FALSE] /\ ss_out = <<>> /\ ss_verdict = "run"

SynchTestsNext == \E t \in SsAll :
  \/ SsP(t) \/ SsV(t) \/ SsLock(t) \/ SsWait(t) \/ SsAwaited(t) \/ SsWake(t) \/ SsSleep(t)
  \/ SsFork(t) \/ SsClocksleep(t) \/ SsData(t) \/ SsCheck(t) \/ SsWaker(t)
SynchTestsSpec == SynchTestsInit /\ [][SynchTestsNext]_ss_vars
-----------------------------------------------------------------------------
\* Whether a thread can make its next call.
CanRun(t) ==
  /\ ss_prog[t] # <<>> /\ t \notin ss_asleep
  /\ Call(t).op = "acquire" => ss_owner[Call(t).n] = -1
  /\ Call(t).op = "clocksleep" => \A u \in SsAll \ {t} : u \in ss_asleep \/ ss_prog[u] = <<>>

\* "If this hangs, it's broken": no test comes to a state in which nobody can run
\* and a thread has calls left, whatever the interleaving; the tests that end in a
\* crash end in the crash they announce, the others without a failed check.
TestsRunThrough ==
  /\ ss_verdict = "run" /\ ~(\E t \in SsAll : CanRun(t)) =>
       /\ \A t \in SsAll : ss_prog[t] = <<>>
       /\ ss_test \notin MeantToCrash
  /\ ss_verdict # "fail"
  /\ ss_verdict = "assert" => ss_test \in MeantToCrash

\* Semaphores handed out one at a time print one thread at a time, and the
\* condition variable gives the turns in reverse order, as the tests print.
TestsInOrder ==
  /\ ss_test = "semtest" => \A i \in DOMAIN ss_out : i % 2 = 0 => ss_out[i] = <<"end", ss_out[i - 1][2]>>
  /\ ss_test = "cvtest" => \A i \in DOMAIN ss_out : ss_out[i][2] = SsThreads - ((i - 1) % SsThreads)

\* "so we can run it again": a test that has returned leaves the semaphores as
\* inititems made them, no lock held and nobody asleep.
TestsCleanUp ==
  (ss_test \in {"semtest", "locktest", "cvtest", "runtest3"} /\ ss_prog[Menu] = <<>>) =>
    /\ ss_count["sem"] = 2 /\ ss_count["done"] = 0 /\ ss_count["waker"] = 1
    /\ ss_asleep = {} /\ \A l \in 1..NCVS : ss_owner[l] = -1

\* The kernel's synchronisation tests pass on right primitives in every
\* interleaving: they end, in the order they print, and can be run again.
TestsSound == TestsRunThrough /\ TestsInOrder /\ TestsCleanUp
=============================================================================
