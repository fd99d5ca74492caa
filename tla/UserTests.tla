----------------------------- MODULE UserTests -----------------------------
(***************************************************************************)
(* The test programs that exercise fork, waitpid and the semaphores of     *)
(* semfs from user level: userland/testbin/forktest, bigfork, usemtest,    *)
(* multiexec, parallelvm and schedpong.                                    *)
(*                                                                         *)
(* The first two grow a tree of processes, each of which waits for its own *)
(* children.  In the others one process and its children keep in step with *)
(* semaphores; such a process is the sequence of calls it still makes, and *)
(* a semaphore is that of module Semfs: a read takes what is there and     *)
(* sleeps for the rest.  In schedpong each child directs a group of        *)
(* children of its own.                                                    *)
(***************************************************************************)
EXTENDS Integers, Sequences, FiniteSets, FiniteSetsExt, SequencesExt, TLC

CONSTANTS BRANCHES,                         \* forks of forktest's test and bigfork's dotest
          UtJobs,                           \* NUMJOBS, njobs, NJOBS
          ONCELOOPS, TWICELOOPS, THRICELOOPS,
          numthinkers, numgrinders, numponggroups, PONGLOOPS,
          ponggroupsize                     \* at least 2

NoFork == -1      \* what fork returns to a parent that gets no child
IsChild == 0      \* and to the child

VARIABLES ft_prog,     \* "forktest", "forktest -w" or "bigfork"
          ft_procs,    \* per process: parent, pids, failures, whether its line is due, state
          ft_letters,  \* characters printed
          ft_failed    \* forks that failed
ft_vars == <<ft_prog, ft_procs, ft_letters, ft_failed>>

VARIABLES ut_prog,     \* one of UtProgs
          ut_calls,    \* per process: the calls still to make; the parent is 0
          ut_up,       \* the children forked
          ut_sem,      \* the counts of the semaphores
          ut_asleep,   \* processes asleep in a read, by semaphore
          ut_said,     \* who has spoken (usemtest), or gone past the start
          ut_fail,     \* children that were not there to wait for, or failed
          ut_bad,      \* schedpong: processes that ended in exit(1)
          ut_file      \* schedpong: the groups with an end time in the results file
sp_vars == <<ut_bad, ut_file>>
ut_vars == <<ut_prog, ut_calls, ut_up, ut_sem, ut_asleep, ut_said, ut_fail, sp_vars>>
-----------------------------------------------------------------------------
\* forktest and bigfork.  A process is named by the forks it was the child of,
\* as bigfork's "me" is.
FtRoot == 1
ChildAt(p, stage) == p + 2^(stage - 1)
Stage(p) == Len(ft_procs[p].pids)
Alive(p) == p \in DOMAIN ft_procs /\ ft_procs[p].state = "run"

\* dofork at the next stage.
ForkTestFork(p) ==
  /\ Alive(p) /\ ~ft_procs[p].due /\ ~ft_procs[p].waits /\ Stage(p) < BRANCHES
  /\ LET kid == ChildAt(p, Stage(p) + 1)
         me == ft_procs[p] IN
     \/ /\ ft_procs' = (kid :> [me EXCEPT !.parent = p, !.pids = Append(@, IsChild), !.due = TRUE])
                       @@ [ft_procs EXCEPT ![p].pids = Append(@, kid), ![p].due = TRUE]
        /\ UNCHANGED ft_failed
     \/ /\ ft_procs' = [ft_procs EXCEPT ![p].pids = Append(@, NoFork), ![p].due = TRUE]
        /\ ft_failed' = ft_failed + 1
  /\ UNCHANGED <<ft_prog, ft_letters>>

\* Mutant of WaitOrder: the pids are waited for in the order of the forks.
WaitOrderSame(pids) == pids

\* dowait is called with the pids in the reverse order of the forks.
WaitOrder(pids) == Reverse(pids)

\* The stage's letter or line; after the last one the waits begin.
putchar(p) ==
  /\ Alive(p) /\ ft_procs[p].due
  /\ ft_procs' = [ft_procs EXCEPT ![p] =
       IF Stage(p) < BRANCHES THEN [@ EXCEPT !.due = FALSE]
       ELSE [@ EXCEPT !.due = FALSE, !.waits = TRUE, !.pids = WaitOrder(@)]]
  /\ ft_letters' = ft_letters + 1
  /\ UNCHANGED <<ft_prog, ft_failed>>

exit(p, code) == [ft_procs EXCEPT ![p].state = "done", ![p].failures = code]

\* dowait: a failed fork is passed over (bigfork counts it), a child exits, a
\* parent waits and takes the child's count; waitpid fails for anyone else's.
ForkTestWait(p) ==
  /\ Alive(p) /\ ft_procs[p].waits /\ ft_procs[p].pids # <<>>
  /\ LET pids == ft_procs[p].pids
         q == Head(pids)
         bad == ft_procs[p].failures
         left == [ft_procs EXCEPT ![p].pids = Tail(pids)] IN
     \/ /\ q = NoFork
        /\ ft_procs' = IF ft_prog = "bigfork" THEN [left EXCEPT ![p].failures = bad + 1] ELSE left
     \/ /\ q = IsChild
        /\ ft_procs' = exit(p, IF ft_prog = "bigfork" THEN bad ELSE 0)
     \/ /\ q > 0 /\ ft_prog = "forktest -w" /\ ft_procs' = left
     \/ /\ q > 0 /\ ft_prog # "forktest -w"
        /\ IF q \in DOMAIN ft_procs /\ ft_procs[q].parent = p
           THEN /\ ft_procs[q].state = "done"
                /\ ft_procs' = [r \in DOMAIN ft_procs \ {q} |->
                                  IF r = p THEN [left[p] EXCEPT !.failures = bad + ft_procs[q].failures]
                                  ELSE ft_procs[r]]
           ELSE ft_procs' = [left EXCEPT ![p].failures = NoFork]   \* ESRCH or ECHILD
  /\ UNCHANGED <<ft_prog, ft_letters, ft_failed>>

test ==
  /\ ft_prog \in {"forktest", "forktest -w", "bigfork"}
  /\ ft_procs = FtRoot :> [parent |-> 0, pids |-> <<>>, failures |-> 0,
                           due |-> FALSE, waits |-> FALSE, state |-> "run"]
  /\ ft_letters = 0 /\ ft_failed = 0
ForkTestNext == \E p \in DOMAIN ft_procs : ForkTestFork(p) \/ putchar(p) \/ ForkTestWait(p)
-----------------------------------------------------------------------------
\* usemtest, multiexec and parallelvm.
UtCall(op, s, n) == <<[op |-> op, s |-> s, n |-> n]>>
semP(s, n) == UtCall("P", s, n)
semV(s, n) == UtCall("V", s, n)
ForkJob(j) == UtCall("fork", "", j)
WaitJob(j) == UtCall("wait", "", j)
Say(j) == UtCall("say", "", j)
Jobs(Calls(_)) == FlattenSeq([j \in 1..UtJobs |-> Calls(j)])
Loop(n, calls) == FlattenSeq([i \in 1..n |-> calls])
Gosem(j) == <<"g", j>>
Waitsem(j) == <<"w", j>>
s1 == <<"1", 0>>
s2 == <<"2", 0>>
LOOPS == ONCELOOPS + 2 * TWICELOOPS + 3 * THRICELOOPS

\* Mutant of child_plain: the parent is told before the word is said.
ChildEarly(j) == Loop(LOOPS, semP(Gosem(j), 1) \o semV(Waitsem(j), 1) \o Say(j))

child_plain(j) == Loop(LOOPS, semP(Gosem(j), 1) \o Say(j) \o semV(Waitsem(j), 1))

\* The parent prompts job j n times.
Prompt(j, n) == Loop(n, semV(Gosem(j), 1) \o semP(Waitsem(j), 1))
baseparent ==
  LET Once(j) == Prompt(j, 1)
      Twice(j) == Prompt(j, 2)
      Thrice(j) == Prompt(j, 3)
  IN  Loop(ONCELOOPS, Jobs(Once)) \o Loop(TWICELOOPS, Jobs(Twice)) \o Loop(THRICELOOPS, Jobs(Thrice))
concparent == LET Once(j) == Prompt(j, 1) IN Loop(LOOPS, Jobs(Once))
basetest == Jobs(ForkJob) \o baseparent \o Jobs(WaitJob)
conctest == Jobs(ForkJob) \o concparent \o Jobs(WaitJob)

\* A child of multiexec or parallelvm -w is ready, waits for the start and runs.
Starter(j) == semV(s1, 1) \o semP(s2, 1) \o Say(j)
\* Mutant of spawn: the start is given to one child.
SpawnOne(n) == semP(s1, n) \o semV(s2, 1) \o FlattenSeq([j \in 1..n |-> WaitJob(j)])

\* The parent's side after the forks, with n children.
spawn(n) == semP(s1, n) \o semV(s2, n) \o FlattenSeq([j \in 1..n |-> WaitJob(j)])
makeprocs(wait) ==
  Jobs(ForkJob) \o (IF wait THEN semP(s1, UtJobs) \o semV(s2, UtJobs) ELSE <<>>) \o Jobs(WaitJob)

-----------------------------------------------------------------------------
\* schedpong: group 0 thinks, group 1 grinds, the others play pong.
SpGroups == 0..(numponggroups + 1)
SpSize(g) == CASE g = 0 -> numthinkers [] g = 1 -> numgrinders [] OTHER -> ponggroupsize
Director(g) == 100 * (g + 1)
Task(g, id) == Director(g) + 1 + id
SpTasks(g) == {Task(g, id) : id \in 0..(SpSize(g) - 1)}
ForGroups(Calls(_)) == FlattenSeq([i \in 1..(numponggroups + 2) |-> Calls(i - 1)])
startsem == <<"start", 0>>
sems(g, id) == <<"pong", 10 * g + id>>
SpSems == {startsem} \cup {sems(g, id) : g \in SpGroups \ {0, 1}, id \in 0..(ponggroupsize - 1)}
P(s) == semP(s, 1)
V(s) == semV(s, 1)
Vn(s, n) == semV(s, n)
waitstart == P(startsem)


\* In order: id 0 does not wait in the first go, but does in the last.
pong_cyclic(g, id) ==
  FlattenSeq([i \in 1..PONGLOOPS |->
    (IF i > 1 \/ id > 0 THEN P(sems(g, id)) ELSE <<>>)
    \o Say(Task(g, id)) \o V(sems(g, (id + 1) % ponggroupsize))])
  \o IF id = 0 THEN P(sems(g, id)) ELSE <<>>

\* Back and forth: the ids in the middle go twice as often, by turns up and down.
pong_reciprocating(g, id) ==
  LET last == ponggroupsize - 1
      n == IF id \in {0, last} THEN PONGLOOPS ELSE 2 * PONGLOOPS
      next(i) == CASE id = 0 -> 1
                   [] id = last -> last - 1
                   [] OTHER -> IF i % 2 = 1 THEN id + 1 ELSE id - 1
  IN  FlattenSeq([i \in 1..n |->
        (IF i > 1 \/ id > 0 THEN P(sems(g, id)) ELSE <<>>)
        \o Say(Task(g, id)) \o V(sems(g, next(i)))])
      \o IF id = 0 THEN P(sems(g, id)) ELSE <<>>

pong(g, id) == waitstart \o pong_cyclic(g, id) \o pong_reciprocating(g, id) \o pong_cyclic(g, id)

\* A thinker loops; a grinder finds no sbrk and exits with success.
think(g, id) == waitstart \o Say(Task(g, id))
grind(g, id) == waitstart \o Say(Task(g, id))

\* The director of a group forks its tasks, waits for them and stores the end time.
putresult(g) == UtCall("put", "", g)
getresult(g) == UtCall("get", "", g)
runtaskgroup(g) ==
  LET fork(i) == ForkJob(Task(g, i - 1))
      wait(i) == WaitJob(Task(g, i - 1))
      each(Calls(_)) == FlattenSeq([i \in 1..SpSize(g) |-> Calls(i)])
  IN  each(fork) \o each(wait) \o putresult(g)

\* The main process: the directors are forked, the tasks started, all of it waited
\* for, and the end times read unless a director failed.
forkem(g) == ForkJob(Director(g))
waitall == (LET wait(g) == WaitJob(Director(g)) IN ForGroups(wait)) \o UtCall("check", "", 0)
calcresult(g) == IF SpSize(g) > 0 \/ g > 1 THEN getresult(g) ELSE <<>>
runit ==
  ForGroups(forkem)
  \o Vn(startsem, numthinkers + numgrinders + numponggroups * ponggroupsize)
  \o waitall \o ForGroups(calcresult)

SpProcs == {0} \cup UNION {{Director(g)} \cup SpTasks(g) : g \in SpGroups}
SpCalls(p) ==
  IF p = 0 THEN runit
  ELSE LET g == (p \div 100) - 1
           id == (p % 100) - 1
       IN  CASE id = -1 -> runtaskgroup(g)
             [] id >= 0 /\ g = 0 -> think(g, id)
             [] id >= 0 /\ g = 1 -> grind(g, id)
             [] OTHER -> pong(g, id)
-----------------------------------------------------------------------------
ParentOf(prog) ==
  CASE prog = "basetest" -> basetest
    [] prog = "conctest" -> conctest
    [] prog = "multiexec" -> Jobs(ForkJob) \o spawn(UtJobs)
    [] prog = "parallelvm" -> makeprocs(FALSE)
    [] prog = "parallelvm -w" -> makeprocs(TRUE)
ChildOfTest(prog, j) ==
  CASE prog \in {"basetest", "conctest"} -> child_plain(j)
    [] prog = "parallelvm" -> Say(j)
    [] OTHER -> Starter(j)
-----------------------------------------------------------------------------
UtProgs == {"basetest", "conctest", "multiexec", "parallelvm", "parallelvm -w", "schedpong"}
UtAll == DOMAIN ut_calls
UtNext(p) == Head(ut_calls[p])
UtRuns(p, op) ==
  /\ p = 0 \/ p \in ut_up
  /\ ut_calls[p] # <<>> /\ UtNext(p).op = op
  /\ \A s \in DOMAIN ut_asleep : p \notin ut_asleep[s]
UtReturn(p) == [ut_calls EXCEPT ![p] = Tail(@)]

\* A read of a semaphore takes what there is and waits for the rest.
UtP(p) ==
  /\ UtRuns(p, "P")
  /\ LET s == UtNext(p).s
         n == UtNext(p).n
         got == Min({n, ut_sem[s]}) IN
     /\ ut_sem' = [ut_sem EXCEPT ![s] = @ - got]
     /\ IF got = n THEN ut_calls' = UtReturn(p) /\ UNCHANGED ut_asleep
        ELSE /\ ut_calls' = [ut_calls EXCEPT ![p][1].n = n - got]
             /\ ut_asleep' = [ut_asleep EXCEPT ![s] = @ \cup {p}]
  /\ UNCHANGED <<ut_prog, ut_up, ut_said, ut_fail, sp_vars>>

\* A write wakes one reader for one unit, all of them for more, and none when
\* there was a unit already.
UtV(p) ==
  /\ UtRuns(p, "V")
  /\ LET s == UtNext(p).s
         n == UtNext(p).n
         q == ut_asleep[s] IN
     /\ ut_sem' = [ut_sem EXCEPT ![s] = @ + n]
     /\ IF ut_sem[s] > 0 \/ n = 0 \/ q = {} THEN UNCHANGED ut_asleep
        ELSE \E woken \in SUBSET q :
               /\ IF n = 1 THEN Cardinality(woken) = 1 ELSE woken = q
               /\ ut_asleep' = [ut_asleep EXCEPT ![s] = @ \ woken]
  /\ ut_calls' = UtReturn(p)
  /\ UNCHANGED <<ut_prog, ut_up, ut_said, ut_fail, sp_vars>>

\* fork may fail: usemtest gives up, multiexec goes on with the children it has,
\* parallelvm counts a failure and stands in for the child at the start, a process
\* of schedpong exits with 1.
UtFork(p) ==
  /\ UtRuns(p, "fork")
  /\ LET j == UtNext(p).n IN
     \/ /\ ut_up' = ut_up \cup {j} /\ ut_calls' = UtReturn(p) /\ UNCHANGED ut_bad
     \/ /\ UNCHANGED ut_up
        /\ ut_bad' = IF ut_prog = "schedpong" THEN ut_bad \cup {p} ELSE ut_bad
        /\ ut_calls' = [ut_calls EXCEPT ![p] =
             CASE ut_prog \in {"basetest", "conctest", "schedpong"} -> <<>>
               [] ut_prog = "multiexec" -> spawn(j - 1)
               [] ut_prog = "parallelvm" -> Tail(@)
               [] OTHER -> semV(s1, 1) \o Tail(@)]
  /\ UNCHANGED <<ut_prog, ut_sem, ut_asleep, ut_said, ut_fail, ut_file>>

\* waitpid for job j, whose status tells whether it failed, or the failure noted
\* for a fork that failed.
UtWait(p) ==
  /\ UtRuns(p, "wait")
  /\ LET j == UtNext(p).n IN
     /\ j \in ut_up => ut_calls[j] = <<>>
     /\ ut_fail' = ut_fail + (IF j \notin ut_up \/ j \in ut_bad THEN 1 ELSE 0)
  /\ ut_calls' = UtReturn(p)
  /\ UNCHANGED <<ut_prog, ut_up, ut_sem, ut_asleep, ut_said, sp_vars>>

UtSay(p) ==
  /\ UtRuns(p, "say")
  /\ ut_said' = Append(ut_said, UtNext(p).n)
  /\ ut_calls' = UtReturn(p)
  /\ UNCHANGED <<ut_prog, ut_up, ut_sem, ut_asleep, ut_fail, sp_vars>>

\* The results file: each director writes at the place of its group; main exits
\* with 1 when it reads past the end of the file.
UtPut(p) ==
  /\ UtRuns(p, "put")
  /\ ut_file' = ut_file \cup {UtNext(p).n}
  /\ ut_calls' = UtReturn(p)
  /\ UNCHANGED <<ut_prog, ut_up, ut_sem, ut_asleep, ut_said, ut_fail, ut_bad>>

UtReturnIf(p, ok) ==
  IF ok THEN ut_calls' = UtReturn(p) /\ UNCHANGED ut_bad
  ELSE ut_calls' = [ut_calls EXCEPT ![p] = <<>>] /\ ut_bad' = ut_bad \cup {p}

UtGet(p) ==
  /\ UtRuns(p, "get")
  /\ UtReturnIf(p, \E g \in ut_file : g >= UtNext(p).n)
  /\ UNCHANGED <<ut_prog, ut_up, ut_sem, ut_asleep, ut_said, ut_fail, ut_file>>

\* The end of waitall: a failure ends the test.
UtCheck(p) ==
  /\ UtRuns(p, "check")
  /\ UtReturnIf(p, ut_fail = 0)
  /\ UNCHANGED <<ut_prog, ut_up, ut_sem, ut_asleep, ut_said, ut_fail, ut_file>>

usem_init ==
  LET all == {s1, s2} \cup ({"g", "w"} \X (1..UtJobs)) \cup SpSems IN
  ut_sem = [s \in all |-> 0] /\ ut_asleep = [s \in all |-> {}]
SemTestInit ==
  /\ ut_prog \in UtProgs
  /\ ut_calls = IF ut_prog = "schedpong" THEN [p \in SpProcs |-> SpCalls(p)]
                ELSE [p \in 0..UtJobs |-> IF p = 0 THEN ParentOf(ut_prog) ELSE ChildOfTest(ut_prog, p)]
  /\ ut_up = {} /\ usem_init /\ ut_said = <<>> /\ ut_fail = 0 /\ ut_bad = {} /\ ut_file = {}
SemTestNext ==
  \E p \in UtAll : UtP(p) \/ UtV(p) \/ UtFork(p) \/ UtWait(p) \/ UtSay(p) \/ UtPut(p) \/ UtGet(p) \/ UtCheck(p)

\* One program runs at a time.
UserTestsInit == test /\ SemTestInit
UserTestsNext ==
  \/ ForkTestNext /\ ut_prog = "basetest" /\ ut_calls[0] = ParentOf(ut_prog) /\ UNCHANGED ut_vars
  \/ SemTestNext /\ ft_procs[FtRoot].pids = <<>> /\ ft_letters = 0 /\ ft_prog = "bigfork" /\ UNCHANGED ft_vars
UserTestsSpec == UserTestsInit /\ [][UserTestsNext]_<<ft_vars, ut_vars>>
-----------------------------------------------------------------------------
FtDone == ft_procs[FtRoot].waits /\ ft_procs[FtRoot].pids = <<>>
\* "These must be called in reverse order to avoid waiting improperly": every
\* process waits only for its own children, so no waitpid fails; when the first
\* process is done no other is left, it has printed the letters the banner
\* promises unless a fork failed, and bigfork's count is that of the failed forks.
TreeWaited ==
  /\ \A p \in DOMAIN ft_procs : ft_procs[p].failures # NoFork
  /\ FtDone /\ ft_prog # "forktest -w" =>
       /\ DOMAIN ft_procs = {FtRoot}
       /\ ft_failed = 0 => ft_letters = 2^(BRANCHES + 1) - 2
       /\ ft_prog = "bigfork" => ft_procs[FtRoot].failures = ft_failed

\* What usemtest prints, in order.
Words ==
  LET Row(k) == FlattenSeq([j \in 1..UtJobs |-> [i \in 1..k |-> j]]) IN
  IF ut_prog = "conctest" THEN Loop(LOOPS, Row(1))
  ELSE Loop(ONCELOOPS, Row(1)) \o Loop(TWICELOOPS, Row(2)) \o Loop(THRICELOOPS, Row(3))
\* The order of a pong group.
PongWords(g) ==
  LET n == ponggroupsize
      up == [i \in 1..n |-> Task(g, i - 1)]
      down == [i \in 1..(n - 2) |-> Task(g, n - 1 - i)]
  IN  Loop(PONGLOOPS, up) \o Loop(PONGLOOPS, up \o down) \o Loop(PONGLOOPS, up)

\* The semaphores keep parent and children in step: usemtest's words come out in
\* the order of the prompts; in multiexec and parallelvm -w no child runs before
\* all are forked and ready; in schedpong no task runs before the start, and the
\* players of a pong group run one at a time, in the order of the game.
InStep ==
  /\ ut_prog \in {"basetest", "conctest"} => IsPrefix(ut_said, Words)
  /\ ut_prog \in {"multiexec", "parallelvm -w"} /\ ut_said # <<>> =>
       \A j \in 1..UtJobs : j \in ut_up => \A i \in DOMAIN ut_calls[j] : ut_calls[j][i].op # "V"
  /\ ut_prog = "schedpong" =>
       /\ ut_said # <<>> => \A i \in DOMAIN ut_calls[0] : ut_calls[0][i].op \notin {"fork", "V"}
       /\ \A g \in SpGroups \ {0, 1} :
            IsPrefix(SelectSeq(ut_said, LAMBDA p : p \in SpTasks(g)), PongWords(g))

\* None of the programs hangs: when nobody can make a call, everybody is done, but
\* for the tasks of a director that could not fork them all; the parent has missed
\* exactly the children that could not be forked; schedpong fails when a director
\* did and else has the end times of all the groups.
NobodyHangs ==
  LET waits(p) == UtNext(p).op = "wait" /\ UtNext(p).n \in ut_up /\ ut_calls[UtNext(p).n] # <<>>
      canrun(p) == \E op \in {"P", "V", "fork", "say", "wait", "put", "get", "check"} : UtRuns(p, op) /\ ~waits(p)
      jobs == IF ut_prog = "schedpong" THEN {Director(g) : g \in SpGroups} ELSE 1..UtJobs
      gaveup == ut_prog \in {"basetest", "conctest", "schedpong"} /\ ~ jobs \subseteq ut_up
      left == UNION {SpTasks(g) : g \in {g \in SpGroups : Director(g) \in ut_bad}}
  IN  (~\E p \in UtAll : canrun(p)) /\ ~gaveup =>
        /\ \A p \in (ut_up \cup {0}) \ left : ut_calls[p] = <<>>
        /\ ut_prog \in {"parallelvm", "parallelvm -w"} => ut_fail = UtJobs - Cardinality(ut_up)
        /\ ut_prog = "schedpong" =>
             IF ut_bad = {} THEN ut_file = SpGroups ELSE 0 \in ut_bad /\ ut_fail = Cardinality(ut_bad) - 1
=============================================================================
