------------------------------- MODULE Psort -------------------------------
(***************************************************************************)
(* The parallel sort of userland/testbin/psort: a parent that forks        *)
(* numprocs children for each phase, waits for them and checks what they   *)
(* left, and children that work on files.                                  *)
(*                                                                         *)
(* A file is a sequence of keys; sizes count keys.  A write is one step of *)
(* a child where children share the file (the keys and the output); what a *)
(* child does to files of its own is one step.  stat is not a system call  *)
(* of this kernel, so getsize ends in lseek and leaves its file open.      *)
(***************************************************************************)
EXTENDS Integers, Sequences, FiniteSets, SequencesExt, FiniteSetsExt

CONSTANTS numprocs, numkeys, WORKNUM, RANDOM_MAX, \* the program's parameters
          PsKeys,       \* the keys tried: between 0 and RANDOM_MAX, both excluded
          CATBUF,       \* keys /bin/cat copies at a time
          PS_OPEN_MAX   \* descriptors a process has left

Kids == 0..(numprocs - 1)
Phases == <<"keys", "toss", "sort", "merge", "assemble", "validate", "succeeded">>

VARIABLES ps_phase,  \* index in Phases; 0 once the program has given up
          ps_kid,    \* ps_kid[i]: [pc: "run", "exit" or "bad"; done: work finished]
          ps_keys, ps_bins, ps_merged, ps_output, ps_valid,   \* the files
          ps_sum,    \* checksum of the keys
          ps_fds,    \* descriptors the parent has left open
          ps_nofork  \* history: a fork failed

ps_files == <<ps_keys, ps_bins, ps_merged, ps_output, ps_valid>>
ps_vars == <<ps_phase, ps_kid, ps_files, ps_sum, ps_fds, ps_nofork>>
Phase == IF ps_phase = 0 THEN "failed" ELSE Phases[ps_phase]
-----------------------------------------------------------------------------
\* One turn of the partition of sortints, on positions from 0.
Partition(s, pivotval) ==
  LET x == s.v[s.read + 1] IN
  CASE x < pivotval -> [s EXCEPT !.v[s.front + 1] = x, !.front = @ + 1, !.read = @ + 1]
    [] x = pivotval -> [s EXCEPT !.read = @ + 1, !.count = @ + 1]
    [] x > pivotval -> [s EXCEPT !.v[s.end] = x, !.v[s.read + 1] = s.v[s.end], !.end = @ - 1]

RECURSIVE Partitioned(_, _)
Partitioned(s, pivotval) == IF s.read < s.end THEN Partitioned(Partition(s, pivotval), pivotval) ELSE s

\* Mutant of sortints: two elements are taken for sorted.
RECURSIVE SortintsShort(_)
SortintsShort(v) ==
  LET num == Len(v)
      pivotval == v[num \div 2 + 1]
      s == Partitioned([v |-> v, front |-> 0, read |-> 0, end |-> num, count |-> 0], pivotval) IN
  IF num < 3 THEN v
  ELSE SortintsShort(SubSeq(s.v, 1, s.front))
       \o [i \in 1..s.count |-> pivotval]
       \o SortintsShort(Reverse(SubSeq(s.v, s.end + 1, num)))

\* sortints: partition around the middle element, the pivots in between, the
\* upper part turned round, and both parts sorted.
RECURSIVE sortints(_)
sortints(v) ==
  LET num == Len(v)
      pivotval == v[num \div 2 + 1]
      s == Partitioned([v |-> v, front |-> 0, read |-> 0, end |-> num, count |-> 0], pivotval) IN
  IF num < 2 THEN v
  ELSE sortints(SubSeq(s.v, 1, s.front))
       \o [i \in 1..s.count |-> pivotval]
       \o sortints(Reverse(SubSeq(s.v, s.end + 1, num)))

\* mergebins: the smallest of the heads, the first of equal ones, again and again.
RECURSIVE mergebins(_)
mergebins(ins) ==
  LET ready == {i \in DOMAIN ins : ins[i] # <<>>}
      smallest == Min({Head(ins[i]) : i \in ready})
      place == Min({i \in ready : Head(ins[i]) = smallest}) IN
  IF ready = {} THEN <<>> ELSE <<smallest>> \o mergebins([ins EXCEPT ![place] = Tail(@)])

\* checksum_file adds up bytes: a key has two of them, of four values each.
checksum_file(f) == FoldSeq(LAMBDA k, sum : sum + (k % 4) + (k \div 4), 0, f)

\* A write at a position: what lies between the end and the position is zero.
WriteAt(f, pos, data) ==
  <<>> \o [i \in 1..Max({Len(f), pos + Len(data)}) |->
     IF i > pos /\ i <= pos + Len(data) THEN data[i - pos] ELSE IF i <= Len(f) THEN f[i] ELSE 0]

Size(f) == Len(f)
Sizes(fs) == MapThenSumSet(LAMBDA i : Len(fs[i]), DOMAIN fs)
-----------------------------------------------------------------------------
keys_per == numkeys \div numprocs
seekmyplace(me) == me * keys_per

\* Mutant of getmykeys: the last process takes no remainder.
MykeysEven(me) == keys_per

getmykeys(me) == IF me < numprocs - 1 THEN keys_per ELSE numkeys - me * keys_per

KeysToDo(me) == Min({WORKNUM, getmykeys(me) - ps_kid[me].done})

Running(me, p) == Phase = p /\ ps_kid[me].pc = "run"
\* A child's exit: the descriptors it needs besides the parent's must be there.
Ends(me, good) == ps_kid' = [ps_kid EXCEPT ![me].pc = IF good THEN "exit" ELSE "bad"]
FdsFor(n) == ps_fds + n <= PS_OPEN_MAX

\* genkeys_sub: one write of the loop, or the exit.
genkeys_sub(me) ==
  /\ Running(me, "keys")
  /\ UNCHANGED <<ps_phase, ps_bins, ps_merged, ps_output, ps_valid, ps_sum, ps_fds, ps_nofork>>
  /\ IF KeysToDo(me) = 0 \/ ~FdsFor(1)
     THEN Ends(me, FdsFor(1)) /\ UNCHANGED ps_keys
     ELSE /\ \E vals \in [1..KeysToDo(me) -> PsKeys] :
               ps_keys' = WriteAt(ps_keys, seekmyplace(me) + ps_kid[me].done, vals)
          /\ ps_kid' = [ps_kid EXCEPT ![me].done = @ + KeysToDo(me)]

pivot == RANDOM_MAX \div numprocs

\* bin: the keys of this child go into its bins by value.  A key past the last
\* bin fails an assertion, and a short read ends the child as well.
bin(me) ==
  LET mine == SubSeq(ps_keys, seekmyplace(me) + 1, seekmyplace(me) + getmykeys(me))
      ok == /\ FdsFor(numprocs + 1) /\ Len(mine) = getmykeys(me)
            /\ \A i \in DOMAIN mine : mine[i] \div pivot < numprocs IN
  /\ Running(me, "toss") /\ Ends(me, ok)
  /\ ps_bins' = IF ok THEN [ps_bins EXCEPT ![me] = [b \in Kids |-> SelectSeq(mine, LAMBDA k : k \div pivot = b)]]
                      ELSE ps_bins
  /\ UNCHANGED <<ps_phase, ps_keys, ps_merged, ps_output, ps_valid, ps_sum, ps_fds, ps_nofork>>

\* sortbins: every bin of this child, if it fits the workspace.
sortbins(me) ==
  LET ok == FdsFor(numprocs + 1) /\ \A b \in Kids : Size(ps_bins[me][b]) <= WORKNUM IN
  /\ Running(me, "sort") /\ Ends(me, ok)
  /\ ps_bins' = IF ok THEN [ps_bins EXCEPT ![me] = [b \in Kids |-> sortints(ps_bins[me][b])]] ELSE ps_bins
  /\ UNCHANGED <<ps_phase, ps_keys, ps_merged, ps_output, ps_valid, ps_sum, ps_fds, ps_nofork>>

MergeMine(me) ==
  /\ Running(me, "merge") /\ Ends(me, FdsFor(numprocs + 1))
  /\ ps_merged' = [ps_merged EXCEPT ![me] = mergebins([i \in Kids |-> ps_bins[i][me]])]
  /\ UNCHANGED <<ps_phase, ps_keys, ps_bins, ps_output, ps_valid, ps_sum, ps_fds, ps_nofork>>

\* assemble: /bin/cat copies this child's merged bin behind the ones before it.
assemble(me) ==
  LET mypos == MapThenSumSet(LAMBDA i : Size(ps_merged[i]), 0..(me - 1))
      done == ps_kid[me].done
      chunk == SubSeq(ps_merged[me], done + 1, Min({Len(ps_merged[me]), done + CATBUF})) IN
  /\ Running(me, "assemble")
  /\ UNCHANGED <<ps_phase, ps_keys, ps_bins, ps_merged, ps_valid, ps_sum, ps_fds, ps_nofork>>
  /\ IF chunk = <<>> \/ ~FdsFor(me + 2)
     THEN Ends(me, FdsFor(me + 2)) /\ UNCHANGED ps_output
     ELSE /\ ps_output' = WriteAt(ps_output, mypos + done, chunk)
          /\ ps_kid' = [ps_kid EXCEPT ![me].done = @ + Len(chunk)]

\* dovalidate: the smallest and the largest key of this child's share.
dovalidate(me) ==
  LET mine == SubSeq(ps_output, seekmyplace(me) + 1, seekmyplace(me) + getmykeys(me))
      ok == /\ FdsFor(1) /\ Len(mine) = getmykeys(me)
            /\ \A i \in DOMAIN mine : mine[i] > 0 /\ mine[i] < RANDOM_MAX IN
  /\ Running(me, "validate") /\ Ends(me, ok)
  /\ ps_valid' = [ps_valid EXCEPT ![me] = <<Min(Range(mine) \cup {RANDOM_MAX}), Max(Range(mine) \cup {0})>>]
  /\ UNCHANGED <<ps_phase, ps_keys, ps_bins, ps_merged, ps_output, ps_sum, ps_fds, ps_nofork>>
-----------------------------------------------------------------------------
\* doforkall: a child for every share, unless its fork fails.
doforkall ==
  \E forked \in SUBSET Kids :
    /\ ps_kid' = [i \in Kids |-> [pc |-> IF i \in forked THEN "run" ELSE "bad", done |-> 0]]
    /\ ps_nofork' = (ps_nofork \/ forked # Kids)

\* validate: prev_largest keeps the value it starts with.
validate ==
  \A i \in Kids : /\ Len(ps_valid[i]) = 2
                  /\ LET smallest == ps_valid[i][1]
                         largest == ps_valid[i][2]
                         prev_largest == 1 IN
                     smallest >= 1 /\ largest < RANDOM_MAX /\ smallest <= largest /\ smallest >= prev_largest

\* What the parent checks when the children of a phase are done, and the files
\* getsize leaves open.
Checked ==
  CASE Phase = "keys" -> Size(ps_keys) = numkeys
    [] Phase \in {"toss", "sort"} -> MapThenSumSet(LAMBDA i : Sizes(ps_bins[i]), Kids) = numkeys
    [] Phase = "merge" -> Sizes(ps_merged) = numkeys
    [] Phase = "assemble" -> Size(ps_output) = numkeys /\ checksum_file(ps_output) = ps_sum
    [] Phase = "validate" -> validate
LeftOpen ==
  CASE Phase \in {"toss", "sort"} -> numprocs * numprocs
    [] Phase \in {"merge", "validate"} -> numprocs
    [] OTHER -> 1

\* The parent waits for every child, checks, and starts the next phase.
NextPhase ==
  /\ ps_phase \in 1..(Len(Phases) - 1) /\ \A i \in Kids : ps_kid[i].pc # "run"
  /\ UNCHANGED <<ps_keys, ps_valid, ps_output>>
  /\ IF /\ \A i \in Kids : ps_kid[i].pc = "exit"
        /\ FdsFor(LeftOpen + 1) /\ Checked
     THEN /\ ps_phase' = ps_phase + 1
          /\ ps_fds' = ps_fds + LeftOpen
          /\ ps_sum' = IF Phase = "keys" THEN checksum_file(ps_keys) ELSE ps_sum
          \* the bins and the merged bins are removed after their last use
          /\ ps_bins' = IF Phase = "merge" THEN [i \in Kids |-> [b \in Kids |-> <<>>]] ELSE ps_bins
          /\ ps_merged' = IF Phase = "assemble" THEN [i \in Kids |-> <<>>] ELSE ps_merged
          /\ IF Phase = "validate" THEN UNCHANGED <<ps_kid, ps_nofork>> ELSE doforkall
     ELSE /\ ps_phase' = 0
          /\ UNCHANGED <<ps_kid, ps_bins, ps_merged, ps_sum, ps_fds, ps_nofork>>

PsortInit ==
  /\ ps_phase = 1 /\ ps_kid = [i \in Kids |-> [pc |-> "run", done |-> 0]]
  /\ ps_keys = <<>> /\ ps_output = <<>>
  /\ ps_bins = [i \in Kids |-> [b \in Kids |-> <<>>]]
  /\ ps_merged = [i \in Kids |-> <<>>] /\ ps_valid = [i \in Kids |-> <<>>]
  /\ ps_sum = 0 /\ ps_fds = 0 /\ ps_nofork = FALSE

PsortNext ==
  \/ NextPhase
  \/ \E me \in Kids : \/ genkeys_sub(me) \/ bin(me) \/ sortbins(me) \/ MergeMine(me)
                      \/ assemble(me) \/ dovalidate(me)

PsortSpec == PsortInit /\ [][PsortNext]_ps_vars
-----------------------------------------------------------------------------
SameKeys(s, t) == Len(s) = Len(t) /\ \A k \in Range(s) \cup Range(t) :
  Cardinality({i \in DOMAIN s : s[i] = k}) = Cardinality({i \in DOMAIN t : t[i] = k})

\* When psort says it succeeded, its output holds the keys it generated, in
\* order, whatever order the children wrote the shared files in.  The program
\* does not check the order itself: validate compares every share with 1.
PsortSorts ==
  Phase = "succeeded" =>
    SameKeys(ps_output, ps_keys) /\ \A i \in 1..(numkeys - 1) : ps_output[i] <= ps_output[i + 1]

\* psort gives up on a kernel that did everything right only for a key beyond
\* the last bin (RANDOM_MAX is not a multiple of numprocs), a bin larger than the
\* workspace, or descriptors that getsize used up.
PsortNoFalseAlarm ==
  Phase = "failed" =>
    \/ ps_nofork
    \/ \E i \in DOMAIN ps_keys : ps_keys[i] >= pivot * numprocs
    \/ \E i, b \in Kids : Size(ps_bins[i][b]) > WORKNUM
    \/ ~FdsFor(numprocs * numprocs + 1)

\* psort's verdict is right both ways, however its processes interleave on the
\* files they share.
PsortRight == PsortSorts /\ PsortNoFalseAlarm
=============================================================================
