----------------------------- MODULE UserMalloc -----------------------------
(***************************************************************************)
(* malloc and free of the C library (userland/lib/libc/stdlib/malloc.c)    *)
(* under malloctest (userland/testbin/malloctest).                         *)
(*                                                                         *)
(* Addresses, sizes and the offsets in a header count words from the base  *)
(* of the heap.  A heap is a record: the headers by address, the top, and  *)
(* the words the program wrote.  sbrk is external: it gives memory up to   *)
(* MaxHeap.  The walks are functions; a check that would end the program   *)
(* with errx makes the result NoHeap.                                      *)
(***************************************************************************)
EXTENDS Integers, Sequences, SequencesExt, FiniteSets, FiniteSetsExt, TLC

CONSTANTS MBLOCKSIZE,      \* 8 bytes in the code: a header, and the unit of allocation
          UmPage, MaxHeap, \* PAGE_SIZE, and what sbrk will give in all
          UmSlots,         \* ptrs[] of test567
          UmSizes,         \* sizes[] of test567
          SMALLSIZE, MEDIUMSIZE, BIGSIZE, HUGESIZE, OVERHEAD

NULL == -1
NoHeap == [corrupt |-> TRUE, hdr |-> <<>>, top |-> 0, mem |-> <<>>]
DEADBEEF == 99

M_NEXT(h, a) == a + h.hdr[a].next
M_PREV(h, a) == a - h.hdr[a].prev
M_SIZE(h, a) == h.hdr[a].next - MBLOCKSIZE
M_DATA(a) == a + MBLOCKSIZE

RoundUp(n, unit) == unit * ((n + unit - 1) \div unit)

\* The headers from the base up, as the loop of malloc meets them; it stops with
\* the heap corrupt at a previous-block size that is wrong.
RECURSIVE Walk(_, _, _)
Walk(h, a, rightprev) ==
  IF a = h.top THEN <<>>
  ELSE IF a > h.top \/ a \notin DOMAIN h.hdr THEN <<NULL>>
  ELSE IF h.hdr[a].prev # rightprev THEN <<NULL>>
  ELSE <<a>> \o Walk(h, M_NEXT(h, a), h.hdr[a].next)
UmBlocks(h) == Walk(h, 0, 0)
Corrupt(h) == Contains(UmBlocks(h), NULL)

\* External: sbrk.
__malloc_sbrk(h, n) == [h EXCEPT !.top = @ + n]
CanSbrk(h, n) == h.top + n <= MaxHeap

\* __malloc_split: a free block above the first size words, if at least a header
\* and a unit are left over.
__malloc_split(h, a, size) ==
  LET old == M_SIZE(h, a)
      next == M_NEXT(h, a)
      new == a + size + MBLOCKSIZE
      below == [h.hdr EXCEPT ![a].next = size + MBLOCKSIZE]
      with == (new :> [prev |-> size + MBLOCKSIZE, next |-> old - size, inuse |-> FALSE]) @@ below IN
  IF old - size < 2 * MBLOCKSIZE THEN h
  ELSE [h EXCEPT !.hdr = IF next # h.top THEN [with EXCEPT ![next].prev = old - size] ELSE with]

\* malloc, when a block fits: it is split and taken.
Taken(h, a, size) ==
  [h |-> [__malloc_split(h, a, size) EXCEPT !.hdr[a].inuse = TRUE], p |-> M_DATA(a)]

\* malloc, when none does: the heap grows by whole pages, the top block with it if
\* it is free, and the block made is split.  NULL if sbrk fails.
Extended(h, last, size, more) ==
  IF ~CanSbrk(h, more) THEN [h |-> h, p |-> NULL]
  ELSE [h |-> __malloc_split([__malloc_sbrk(h, more) EXCEPT
                !.hdr[last].next = @ + more, !.hdr[last].inuse = TRUE], last, size),
        p |-> M_DATA(last)]
HeapGrown(h, prev, size, more) ==
  IF ~CanSbrk(h, more) THEN [h |-> h, p |-> NULL]
  ELSE [h |-> __malloc_split([__malloc_sbrk(h, more) EXCEPT !.hdr =
                (h.top :> [prev |-> prev, next |-> more, inuse |-> TRUE]) @@ @], h.top, size),
        p |-> M_DATA(h.top)]

\* malloc, given the blocks the loop met: first fit, or the heap grows.
FirstFit(h, bs, size) ==
  IF \E i \in DOMAIN bs : ~h.hdr[bs[i]].inuse /\ M_SIZE(h, bs[i]) >= size
  THEN Taken(h, bs[Min({i \in DOMAIN bs : ~h.hdr[bs[i]].inuse /\ M_SIZE(h, bs[i]) >= size})], size)
  ELSE IF bs = <<>> THEN HeapGrown(h, 0, size, RoundUp(MBLOCKSIZE + size, UmPage))
  ELSE IF h.hdr[Last(bs)].inuse
  THEN HeapGrown(h, h.hdr[Last(bs)].next, size, RoundUp(MBLOCKSIZE + size, UmPage))
  ELSE Extended(h, Last(bs), size, RoundUp(size - M_SIZE(h, Last(bs)), UmPage))

\* malloc: the result is the heap and the address.
malloc(h, n) ==
  IF Corrupt(h) THEN [h |-> NoHeap, p |-> NULL]
  ELSE FirstFit(h, UmBlocks(h), RoundUp(n, MBLOCKSIZE))

__malloc_deadbeef(h, a, n) ==
  [h EXCEPT !.mem = [w \in a..(a + n - 1) |-> DEADBEEF] @@ @]

\* Mutant of __malloc_trymerge: the block above the merged one keeps its old
\* previous-block size.
MergeForgets(h, a, next) ==
  IF h.hdr[a].inuse \/ h.hdr[next].inuse THEN h
  ELSE __malloc_deadbeef([h EXCEPT !.hdr = [x \in DOMAIN h.hdr \ {next} |->
         IF x = a THEN [h.hdr[a] EXCEPT !.next = @ + h.hdr[next].next] ELSE h.hdr[x]]], next, MBLOCKSIZE)

\* __malloc_trymerge: two free neighbours become one block.
__malloc_trymerge(h, a, next) ==
  LET size == h.hdr[a].next + h.hdr[next].next
      above == M_NEXT(h, next)
      hdr == [x \in DOMAIN h.hdr \ {next} |->
                CASE x = a -> [h.hdr[a] EXCEPT !.next = size]
                  [] x = above -> [h.hdr[above] EXCEPT !.prev = size]
                  [] OTHER -> h.hdr[x]] IN
  IF h.hdr[a].next # h.hdr[next].prev THEN NoHeap
  ELSE IF h.hdr[a].inuse \/ h.hdr[next].inuse THEN h
  ELSE __malloc_deadbeef([h EXCEPT !.hdr = <<>> @@ hdr], next, MBLOCKSIZE)

\* Mutant of free: the block is wiped as far as the end of its header's neighbour.
FreeWipesMore(h, p) ==
  LET a == p - MBLOCKSIZE
      wiped == __malloc_deadbeef([h EXCEPT !.hdr[a].inuse = FALSE], p, M_SIZE(h, a) + 2 * MBLOCKSIZE)
      up == IF M_NEXT(h, a) # h.top THEN __malloc_trymerge(wiped, a, M_NEXT(h, a)) ELSE wiped IN
  IF a # 0 THEN __malloc_trymerge(up, M_PREV(up, a), a) ELSE up

\* Mutant of free: nothing is merged with the block below.
FreeOneWay(h, p) ==
  LET a == p - MBLOCKSIZE
      wiped == __malloc_deadbeef([h EXCEPT !.hdr[a].inuse = FALSE], p, M_SIZE(h, a)) IN
  IF M_NEXT(h, a) # h.top THEN __malloc_trymerge(wiped, a, M_NEXT(h, a)) ELSE wiped

\* free: the block is wiped and merged with the block above and the one below.
MergedUp(h, a) ==
  IF M_NEXT(h, a) # h.top THEN __malloc_trymerge(h, a, M_NEXT(h, a)) ELSE h
MergedDown(h, a) ==
  IF a # 0 /\ ~h.corrupt THEN __malloc_trymerge(h, M_PREV(h, a), a) ELSE h
free(h, p) ==
  IF p = NULL THEN h
  ELSE IF p - MBLOCKSIZE \notin DOMAIN h.hdr \/ ~h.hdr[p - MBLOCKSIZE].inuse THEN NoHeap
  ELSE MergedDown(MergedUp(__malloc_deadbeef([h EXCEPT !.hdr[p - MBLOCKSIZE].inuse = FALSE],
                                             p, M_SIZE(h, p - MBLOCKSIZE)),
                           p - MBLOCKSIZE), p - MBLOCKSIZE)

-----------------------------------------------------------------------------
\* markblock and checkblock: every word of a block holds its bias.
markblock(h, p, n, bias) == [h EXCEPT !.mem = [w \in p..(p + n - 1) |-> bias] @@ @]
checkblock(h, p, n, bias) == \A w \in p..(p + n - 1) : h.mem[w] = bias

\* The tests, each from a heap with nothing allocated: whether it passes.
Marked(x, n) == x.p # NULL /\ checkblock(markblock(x.h, x.p, n, 0), x.p, n, 0)
test1(h) == Marked(malloc(h, BIGSIZE), BIGSIZE)

\* The largest size, halving from HUGESIZE, that can be had; then again.
RECURSIVE Halving(_, _)
Halving(h, n) == IF malloc(h, n).p # NULL THEN n ELSE Halving(h, n \div 2)
HadAgain(x, size) ==
  Marked(x, size) /\ malloc(free(markblock(x.h, x.p, size, 0), x.p), size).p # NULL
HadTwice(h, size) == HadAgain(malloc(h, size), size)
test2(h) == HadTwice(h, Halving(h, HUGESIZE))

\* As many small blocks as there are, more that must fail, all freed last first.
RECURSIVE Fill(_, _, _)
Fill(h, list, x) ==
  IF x.p = NULL THEN [h |-> h, list |-> list]
  ELSE LET marked == markblock(x.h, x.p, SMALLSIZE, x.p) IN
       Fill(marked, <<x.p>> \o list, malloc(marked, SMALLSIZE))
RECURSIVE FreeAll(_, _)
FreeAll(h, list) ==
  IF list = <<>> THEN h
  ELSE IF ~checkblock(h, Head(list), SMALLSIZE, Head(list)) THEN NoHeap
  ELSE FreeAll(free(h, Head(list)), Tail(list))
NoRoom(full) ==
  /\ \A n \in {SMALLSIZE, MEDIUMSIZE, BIGSIZE} : malloc(full.h, n).p = NULL
  /\ malloc(FreeAll(full.h, full.list), MEDIUMSIZE).p # NULL
test3(h) == NoRoom(Fill(h, <<>>, malloc(h, SMALLSIZE)))

\* Coalescing: two blocks freed make room for one at the place of the first.
TwoMakeOne(h, x, y, overhead) ==
  /\ x # NULL /\ y # NULL /\ x # y
  /\ y > x => /\ overhead >= 0 /\ overhead <= OVERHEAD
               /\ malloc(free(free(h, x), y), SMALLSIZE + MEDIUMSIZE + overhead).p = x
SecondBlock(x, y) == TwoMakeOne(y.h, x, y.p, y.p - (x + SMALLSIZE))
FirstBlock(x) == SecondBlock(x.p, malloc(x.h, MEDIUMSIZE))
test4(h) == FirstBlock(malloc(h, SMALLSIZE))

-----------------------------------------------------------------------------
VARIABLES um_heap, um_ptrs, um_size, um_failed,
          um_tests   \* the answer of tests 1 to 4, "no" before they run
um_vars == <<um_heap, um_ptrs, um_size, um_failed, um_tests>>

\* __malloc_init, and the start of test567.
UserMallocInit ==
  /\ um_heap = [corrupt |-> FALSE, hdr |-> <<>>, top |-> 0, mem |-> <<>>]
  /\ um_ptrs = [s \in UmSlots |-> NULL] /\ um_size = [s \in UmSlots |-> 0]
  /\ um_failed = FALSE /\ um_tests = "no"

\* One turn of test567: a slot is filled and marked, or checked and freed.
test567(s) ==
  /\ ~um_failed /\ ~um_heap.corrupt /\ um_tests = "no"
  /\ IF um_ptrs[s] = NULL
     THEN \E n \in UmSizes : \E x \in {malloc(um_heap, n)} :
            /\ um_ptrs' = [um_ptrs EXCEPT ![s] = x.p]
            /\ um_size' = [um_size EXCEPT ![s] = n]
            /\ um_failed' = (x.p = NULL)
            /\ um_heap' = IF x.p = NULL THEN x.h ELSE markblock(x.h, x.p, n, s)
     ELSE IF ~checkblock(um_heap, um_ptrs[s], um_size[s], s)
     THEN um_failed' = TRUE /\ UNCHANGED <<um_heap, um_ptrs, um_size>>
     ELSE /\ um_heap' = free(um_heap, um_ptrs[s])
          /\ um_ptrs' = [um_ptrs EXCEPT ![s] = NULL]
          /\ um_size' = [um_size EXCEPT ![s] = 0]
          /\ UNCHANGED um_failed
  /\ UNCHANGED um_tests

\* main's menu: the other tests, when the stress test has freed all it had.
dotest1234 ==
  /\ um_tests = "no" /\ ~um_heap.corrupt /\ \A s \in UmSlots : um_ptrs[s] = NULL
  /\ um_tests' = IF test1(um_heap) /\ test2(um_heap) /\ test3(um_heap) /\ test4(um_heap)
                 THEN "passed" ELSE "failed"
  /\ UNCHANGED <<um_heap, um_ptrs, um_size, um_failed>>

UserMallocNext == dotest1234 \/ \E s \in UmSlots : test567(s)
UserMallocSpec == UserMallocInit /\ [][UserMallocNext]_um_vars
-----------------------------------------------------------------------------
\* The blocks tile the heap from its base to its top, each knowing the size of
\* the one below it, and no two free blocks are neighbours: split, merge and
\* growing the heap keep the chain malloc and free walk in both directions.
HeapTiles ==
  /\ ~um_heap.corrupt /\ ~Corrupt(um_heap)
  /\ LET bs == UmBlocks(um_heap) IN
     /\ DOMAIN um_heap.hdr = {bs[i] : i \in DOMAIN bs}
     /\ \A i \in 1..(Len(bs) - 1) : um_heap.hdr[bs[i]].inuse \/ um_heap.hdr[bs[i + 1]].inuse

\* Nothing malloc or free does to the heap touches a block that is allocated:
\* it lies within a block marked in use, and every word of it still holds what
\* the program wrote.
DataIntact ==
  \A s \in UmSlots : um_ptrs[s] # NULL =>
    /\ um_heap.hdr[um_ptrs[s] - MBLOCKSIZE].inuse
    /\ M_SIZE(um_heap, um_ptrs[s] - MBLOCKSIZE) >= um_size[s]
    /\ checkblock(um_heap, um_ptrs[s], um_size[s], s)

\* The tests of malloctest pass from every heap the stress test can leave behind
\* it, however the blocks were split and merged on the way.
MalloctestPasses == um_tests # "failed"
=============================================================================
