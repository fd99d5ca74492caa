------------------------------ MODULE SbrkTest ------------------------------
(***************************************************************************)
(* sbrktest (userland/testbin/sbrktest), the test of sbrk.                 *)
(*                                                                         *)
(* sbrk itself is external (this kernel has no such call); it is modelled  *)
(* as the tests use it, in pages, once as it should be and once with each  *)
(* of four faults: a page that stays valid after it is freed, a shrink     *)
(* that loses the page below, a break returned new instead of old, a fork  *)
(* that does not copy the heap.                                            *)
(*                                                                         *)
(* A test is the sequence of steps it takes; a step that depends on what   *)
(* sbrk answered puts the rest of the test in its place.  After a fork two *)
(* processes run, in any order.                                            *)
(***************************************************************************)
EXTENDS Integers, Sequences, FiniteSets, FiniteSetsExt, SequencesExt, TLC

CONSTANTS SbPages,     \* the pages a process may have
          SbNum,       \* pages in tests 3, 4 and 11 (6 and 256 in the code)
          SbForkNum,   \* pages in test 15 (12)
          SbStep, SbClamp, SbLoops, \* the stress test: r % SbStep, the clamp, the turns
          MaxSbTests     \* tests on the command line

ASSUME SbrkAssumption == SbForkNum >= 2 /\ SbStep <= SbClamp /\ SbForkNum + 5 <= SbPages

SbFaults == {"none", "stays", "loses", "newbreak", "nocopy"}

VARIABLES sb_fault, sb_par, sb_kid, sb_left, sb_test, sb_verdict
sb_vars == <<sb_fault, sb_par, sb_kid, sb_left, sb_test, sb_verdict>>

\* A process: its break, the contents of its pages (numbered from 1), the page at
\* which the test's heap begins, and the rest of the test.
SbProc(brk, pages, base, prog) == [brk |-> brk, pages |-> pages, base |-> base, prog |-> prog]
NoKid == SbProc(0, <<>>, 0, <<>>)
-----------------------------------------------------------------------------
\* The steps.
Sbrk(n) == <<"sbrk", n>>
SbMark(i) == <<"mark", i>>
SbCheck(i) == <<"check", i>>
SbAt(i) == <<"at", i>>               \* errx unless sbrk(0) is i pages above the start
SbOldBreak(n) == <<"old", n>>        \* dosbrk(n), errx unless it returns the old break
SbTouch == <<"touch", 0>>            \* a store past the break, which should be fatal
SbEach(S(_), n) == [i \in 1..n |-> S(i - 1)]
SbMarkCheck(n) == FlattenSeq(SbEach(LAMBDA i : <<SbMark(i), SbCheck(i)>>, n))
\* Mutant of SbDown: nothing is looked at between the frees.
SbDownBlind(n) == [k \in 1..n |-> Sbrk(-1)]
SbDown(n) == FlattenSeq([k \in 1..n |-> <<Sbrk(-1)>> \o SbEach(SbCheck, n - k)])

sbrktest1 == <<Sbrk(1), SbMark(0), SbCheck(0)>>
sbrktest2 == <<SbOldBreak(1), SbMark(0), SbCheck(0), SbOldBreak(-1), SbAt(0)>>
sbrktest3 == <<SbOldBreak(SbNum)>> \o SbMarkCheck(SbNum) \o <<SbOldBreak(-SbNum), SbAt(0)>>
sbrktest4 == <<SbOldBreak(SbNum)>> \o SbMarkCheck(SbNum) \o SbDown(SbNum) \o <<SbAt(0)>>
sbrktest5 == <<SbTouch>>
sbrktest6 == <<Sbrk(1), SbTouch>>
sbrktest7 == <<Sbrk(1), Sbrk(-1), SbTouch>>
sbrktest8 == <<Sbrk(2 * SbNum), Sbrk(-SbNum), SbTouch>>
sbrktest9 == <<<<"huge", 2 * SbPages>>>>
sbrktest9b(size) == SbEach(SbMark, size) \o SbEach(SbCheck, size) \o <<Sbrk(-size), Sbrk(size), Sbrk(-size)>>
sbrktest10 == <<<<"fill", 0>>>>
sbrktest10b(n) == FlattenSeq([k \in 1..n |-> <<SbCheck(n - k), Sbrk(-1)>>])
              \o <<SbAt(0), Sbrk(1), SbMark(0), SbCheck(0), Sbrk(-1)>>
sbrktest11 == <<Sbrk(SbNum)>> \o SbEach(SbMark, SbNum) \o SbEach(SbCheck, SbNum)
sbrktest12 == <<<<"fork", 12>>, Sbrk(1), SbMark(0), SbCheck(0), <<"wait", 0>>>>
sbrktest13 == <<Sbrk(1), SbMark(0), SbCheck(0), <<"fork", 13>>, SbCheck(0), <<"wait", 0>>>>
sbrktest14 == <<Sbrk(1), SbMark(0), SbCheck(0), <<"fork", 14>>, <<"wait", 0>>, SbCheck(0)>>

\* Mutant of sbrktest15: the parent counts the pages the child gave back.
Test15Shared ==
  LET n == SbForkNum IN
  <<Sbrk(n), Sbrk(-1), Sbrk(2)>> \o SbEach(SbMark, n + 1) \o
  <<<<"fork", 15>>, <<"wait", 0>>, Sbrk(1)>> \o SbEach(SbCheck, n + 2) \o <<Sbrk(-(n + 2))>>

sbrktest15 ==
  LET n == SbForkNum IN
  <<Sbrk(n)>> \o SbEach(SbMark, n) \o SbEach(SbCheck, n) \o
  <<Sbrk(-1)>> \o SbEach(SbCheck, n - 1) \o
  <<Sbrk(2), SbMark(n - 1), SbMark(n)>> \o SbEach(SbCheck, n + 1) \o
  <<<<"fork", 15>>, Sbrk(4)>> \o [i \in 1..4 |-> SbMark(n + i)] \o SbEach(SbCheck, n + 5) \o
  <<<<"wait", 0>>>> \o SbEach(SbCheck, n + 5) \o <<Sbrk(-(n + 5))>>

\* What the child of each forking test does before it exits.
ChildOf(t) ==
  LET n == SbForkNum + 1 IN
  CASE t = 12 -> <<Sbrk(1), SbMark(0), SbCheck(0)>>
    [] t = 13 -> <<SbCheck(0)>>
    [] t = 14 -> <<SbCheck(0), Sbrk(-1)>>
    [] OTHER -> SbEach(SbCheck, n) \o <<Sbrk(-3)>> \o SbEach(SbCheck, n - 3) \o
                <<Sbrk(2), SbMark(n - 3), SbMark(n - 2)>> \o SbEach(SbCheck, n - 1) \o <<Sbrk(-(n - 1))>>

\* tests 16 to 21: one turn of the stress test with num pages held.
stresstest == <<<<"stress", 0>>>>

SbrkTests == <<sbrktest1, sbrktest2, sbrktest3, sbrktest4, sbrktest5, sbrktest6, sbrktest7, sbrktest8, sbrktest9, sbrktest10,
           sbrktest11, sbrktest12, sbrktest13, sbrktest14, sbrktest15, stresstest>>
-----------------------------------------------------------------------------
\* External: sbrk of n pages.  The new contents of a page are 0; the fault decides
\* what happens to the pages of a shrink and what is returned.
SbrkFits(p, n) == p.brk + n >= 0 /\ p.brk + n <= SbPages
AfterSbrk(p, n) ==
  LET b == p.brk + n
      kept == IF n < 0 /\ sb_fault = "stays" THEN DOMAIN p.pages ELSE {i \in DOMAIN p.pages : i <= b} IN
  [p EXCEPT !.brk = b,
            !.pages = [i \in kept \cup (p.brk + 1)..b |->
                        IF n < 0 /\ sb_fault = "loses" /\ i = b THEN 0
                        ELSE IF i \in DOMAIN p.pages /\ i <= p.brk THEN p.pages[i] ELSE 0]]
SbReturned(p, n) == IF sb_fault = "newbreak" THEN p.brk + n ELSE p.brk

\* markpage and checkpage (and the light forms) of page i of the test's heap.
markpage(p, i) == [p EXCEPT !.pages[p.base + i + 1] = i + 1]
checkpage(p, i) == p.base + i + 1 \in DOMAIN p.pages /\ p.pages[p.base + i + 1] = i + 1

\* One step of a process: the processes it may become, or the word it ends with.
SbRest(p) == [p EXCEPT !.prog = Tail(@)]
SbBecomes(p) == {[p |-> p, end |-> "no"]}
SbEnds(p, word) == {[p |-> p, end |-> word]}

\* The turns of stresstest: pages is drawn, and the sign from a bit of the draw.
StressTurn(p, num) ==
  {LET neg == (pages <= num /\ bit = 0) \/ num + pages > SbClamp
       next == AfterSbrk(p, IF neg THEN -pages ELSE pages)
       now == IF neg THEN num - pages ELSE num + pages
       marked == [next EXCEPT !.pages = [i \in DOMAIN @ |->
                    IF i > p.base + num THEN i - p.base ELSE @[i]]] IN
   [p |-> [marked EXCEPT !.prog = <<<<"stress", now>>>>],
    end |-> IF \E j \in 0..(now - 1) : ~checkpage(marked, j) THEN "FAILED" ELSE "no"]
     : pages \in 0..(SbStep - 1), bit \in {0, 1}}

SbrkStep(p) ==
  LET op == Head(p.prog)[1]
      n == Head(p.prog)[2]
      next == AfterSbrk(SbRest(p), n) IN
  CASE op \in {"sbrk", "old"} /\ ~SbrkFits(p, n) -> SbEnds(p, "sbrk")
    [] op = "sbrk" /\ SbrkFits(p, n) -> SbBecomes(next)
    [] op = "old" /\ SbrkFits(p, n) ->
         IF SbReturned(p, n) = p.brk THEN SbBecomes(next) ELSE SbEnds(p, "FAILED")
    [] op = "mark" -> SbBecomes(markpage(SbRest(p), n))
    [] op = "check" -> IF checkpage(p, n) THEN SbBecomes(SbRest(p)) ELSE SbEnds(p, "FAILED")
    [] op = "at" -> IF p.brk = p.base + n THEN SbBecomes(SbRest(p)) ELSE SbEnds(p, "FAILED")
    [] op = "touch" -> SbEnds(p, IF p.brk + 1 \in DOMAIN p.pages THEN "FAILED" ELSE "crash")
    [] op = "huge" -> IF SbrkFits(p, n)
                      THEN SbBecomes([AfterSbrk(p, n) EXCEPT !.prog = sbrktest9b(n)])
                      ELSE SbBecomes([p EXCEPT !.prog = <<<<"huge", n \div 2>>>>])
    [] op = "fill" -> IF SbrkFits(p, 1)
                      THEN SbBecomes(markpage([AfterSbrk(p, 1) EXCEPT !.prog = <<<<"fill", n + 1>>>>], n))
                      ELSE SbBecomes([p EXCEPT !.prog = sbrktest10b(n)])
    [] op = "stress" -> IF sb_left = 0 THEN SbBecomes(AfterSbrk(SbRest(p), -n)) ELSE StressTurn(p, n)
    [] OTHER -> {}
-----------------------------------------------------------------------------
\* setup and dotest: a test of the command line begins at the present break.
dotest(t) ==
  /\ sb_verdict = "no" /\ sb_par.prog = <<>> /\ Len(sb_test) < MaxSbTests
  /\ sb_par' = [sb_par EXCEPT !.base = sb_par.brk, !.prog = SbrkTests[t]]
  /\ sb_test' = Append(sb_test, t)
  /\ sb_left' = IF t = 16 THEN SbLoops ELSE 0
  /\ UNCHANGED <<sb_fault, sb_kid, sb_verdict>>

\* The parent takes a step; the child, as long as there is one, at any time.
ParentStep ==
  /\ sb_verdict = "no" /\ sb_par.prog # <<>>
  /\ \E x \in SbrkStep(sb_par) : sb_par' = x.p /\ sb_verdict' = x.end
  /\ sb_left' = IF sb_left = 0 THEN 0 ELSE sb_left - 1
  /\ UNCHANGED <<sb_fault, sb_kid, sb_test>>

ChildStep ==
  /\ sb_verdict = "no" /\ sb_kid.prog # <<>>
  /\ \E x \in SbrkStep(sb_kid) : /\ sb_kid' = IF x.p.prog = <<>> THEN NoKid ELSE x.p
                             /\ sb_verdict' = x.end
  /\ UNCHANGED <<sb_fault, sb_par, sb_left, sb_test>>

\* dofork: the child has a copy of the heap.
dofork ==
  /\ sb_verdict = "no" /\ sb_par.prog # <<>> /\ Head(sb_par.prog)[1] = "fork"
  /\ sb_kid' = SbProc(sb_par.brk,
                    IF sb_fault = "nocopy" THEN [i \in DOMAIN sb_par.pages |-> 0] ELSE sb_par.pages,
                    sb_par.base, ChildOf(Head(sb_par.prog)[2]))
  /\ sb_par' = SbRest(sb_par)
  /\ UNCHANGED <<sb_fault, sb_left, sb_test, sb_verdict>>

\* dowait: the child has exited.
dowait ==
  /\ sb_verdict = "no" /\ sb_par.prog # <<>> /\ Head(sb_par.prog)[1] = "wait"
  /\ sb_kid = NoKid
  /\ sb_par' = SbRest(sb_par)
  /\ UNCHANGED <<sb_fault, sb_kid, sb_left, sb_test, sb_verdict>>

SbrkTestInit ==
  /\ sb_fault \in SbFaults
  /\ sb_par = NoKid /\ sb_kid = NoKid /\ sb_left = 0 /\ sb_test = <<>> /\ sb_verdict = "no"
SbrkTestNext == dofork \/ dowait \/ ParentStep \/ ChildStep \/ \E t \in DOMAIN SbrkTests : dotest(t)
SbrkTestSpec == SbrkTestInit /\ [][SbrkTestNext]_sb_vars
-----------------------------------------------------------------------------
\* A right sbrk fails no test, whatever the tests before it left on the heap and
\* however parent and child interleave; the program ends early only where tests 5
\* to 8 mean it to crash, or where sbrk refused the memory.
SbrkTestRight ==
  (sb_fault = "none" /\ sb_verdict # "no") =>
    \/ sb_verdict = "crash" /\ Last(sb_test) \in 5..8
    \/ sb_verdict = "sbrk" /\ Len(sb_test) > 1

SbPassed(t) == sb_verdict = "no" /\ sb_par.prog = <<>> /\ sb_test # <<>> /\ Last(sb_test) = t
LooksFor(fault) ==
  CASE fault = "stays" -> 5..8
    [] fault = "loses" -> {4, 15}
    [] fault = "newbreak" -> {2, 3, 4}
    [] fault = "nocopy" -> {13, 14, 15}
    [] OTHER -> 5..8

\* A faulty sbrk does not get past the tests that look for its fault; a break that stays
\* is caught by tests 5 and 6.
SbrkTestCatches ==
  /\ \A t \in LooksFor(sb_fault) : ~SbPassed(t)
  /\ (sb_fault = "stays" /\ sb_verdict = "crash") => Last(sb_test) \in {5, 6}
=============================================================================
