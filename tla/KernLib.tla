------------------------------ MODULE KernLib ------------------------------
(***************************************************************************)
(* The kernel's own library: resizable arrays (kern/lib/array.c), bitmaps  *)
(* (bitmap.c), data movement with a uio (uio.c) and copies to and from     *)
(* user space (kern/vm/copyinout.c), with the tests the kernel menu runs   *)
(* on the first two (arraytest.c, bitmaptest.c).                           *)
(*                                                                         *)
(* kl_part says which of them a behaviour uses.  Each is driven by any     *)
(* sequence of legal calls, beside the abstract value it stands for: a     *)
(* sequence, a set, the memory a transfer should leave.  kmalloc may fail  *)
(* and a user page may be missing.                                         *)
(***************************************************************************)
EXTENDS Integers, Sequences, FiniteSets, FiniteSetsExt, SequencesExt, Functions, TLC

CONSTANTS ArValues, MaxArray,     \* what arrays hold; the longest array
          MinMax,                 \* the first size array_preallocate takes (4)
          TESTSIZE,               \* of arraytest and bitmaptest
          BITS_PER_WORD, MaxBits,
          UioLens,                \* the lengths of the iovecs of a transfer
          UioSizes, ZEROS,        \* the sizes its calls ask for; zeros of uiomovezeros (16)
          USERSPACETOP, AddrTop   \* addresses 0..AddrTop-1; the user's come first

Junk == 0                         \* a word of fresh or stale memory

VARIABLES kl_part, ar, ar_seq, bm, bm_set, bm_got, um, cp, kl_test
kl_vars == <<kl_part, ar, ar_seq, bm, bm_set, bm_got, um, cp, kl_test>>
-----------------------------------------------------------------------------
(* Arrays: num elements in v, which has room for max.  Elements past num keep *)
(* what was there.                                                            *)
array_init == [num |-> 0, max |-> 0, v |-> <<>>]

\* The doubling of array_preallocate.
NewMax(max, num) == Min({m \in {max} \cup {MinMax * 2^k : k \in 0..5} \cup {max * 2^k : k \in 0..5} : m >= num})

array_preallocate(a, num) ==
  IF num <= a.max THEN a
  ELSE LET m == NewMax(a.max, num) IN
       [a EXCEPT !.max = m, !.v = [i \in 1..m |-> IF i <= a.num THEN a.v[i] ELSE Junk]]

array_setsize(a, num) == [array_preallocate(a, num) EXCEPT !.num = num]
array_get(a, i) == a.v[i + 1]
array_set(a, i, x) == [a EXCEPT !.v[i + 1] = x]
array_add(a, x) == array_set(array_setsize(a, a.num + 1), a.num, x)

\* Mutant of array_remove: the element before the hole moves too.
RemoveWide(a, index) ==
  [a EXCEPT !.num = @ - 1, !.v = [i \in 1..a.max |-> IF i >= index /\ i < a.num THEN a.v[i + 1] ELSE a.v[i]]]

array_remove(a, index) ==
  [a EXCEPT !.num = @ - 1, !.v = [i \in 1..a.max |-> IF i > index /\ i < a.num THEN a.v[i + 1] ELSE a.v[i]]]

\* Any legal sequence of calls.  ar_seq is the sequence meant, Junk where
\* nothing was stored yet.
ArrayCall ==
  /\ kl_part = "array"
  /\ \/ \E x \in ArValues :
          /\ ar.num < MaxArray
          /\ ar' = array_add(ar, x) /\ ar_seq' = Append(ar_seq, x)
     \/ \E i \in 0..(ar.num - 1), x \in ArValues :
          ar' = array_set(ar, i, x) /\ ar_seq' = [ar_seq EXCEPT ![i + 1] = x]
     \/ \E i \in 0..(ar.num - 1) :
          ar' = array_remove(ar, i) /\ ar_seq' = RemoveAt(ar_seq, i + 1)
     \/ \E n \in 0..MaxArray :
          /\ ar' = array_setsize(ar, n)
          /\ ar_seq' = [i \in 1..n |-> IF i <= Len(ar_seq) THEN ar_seq[i] ELSE Junk]
     \/ ar.num = 0 /\ ar' = array_init /\ ar_seq' = <<>>     \* array_destroy, array_create
  /\ UNCHANGED <<kl_part, bm, bm_set, bm_got, um, cp, kl_test>>

\* arraytest: testa on an array that may hold stale words, twice, then the
\* checks of its KASSERTs.  The array's element i is i + 1 here.
ArFilled[n \in 0..TESTSIZE] == IF n = 0 THEN array_init ELSE array_add(ArFilled[n - 1], n)
Reversed(a) == [a EXCEPT !.v = [i \in DOMAIN a.v |-> IF i <= TESTSIZE THEN TESTSIZE - i + 1 ELSE a.v[i]]]
testa(a0) ==
  LET Adds[n \in 0..TESTSIZE] == IF n = 0 THEN a0 ELSE array_add(Adds[n - 1], n)
      a1 == Adds[TESTSIZE]
      half == TESTSIZE \div 2
      a2 == array_setsize(Reversed(a1), half)
      a3 == array_remove(a2, 1)
      a4 == array_setsize(a3, 2)
      a5 == array_setsize(array_setsize(array_set(a4, 1, Junk), 2), TESTSIZE * 10) IN
  [array |-> a5, passes |->
    /\ a0.num = 0 /\ \A n \in 1..TESTSIZE : Adds[n].num = n
    /\ \A i \in 0..(TESTSIZE - 1) : array_get(a1, i) = i + 1
    /\ \A i \in 0..(half - 1) : array_get(a2, i) = TESTSIZE - i
    /\ \A i \in 1..(half - 2) : array_get(a3, i) = TESTSIZE - i - 1
    /\ array_get(a4, 0) = TESTSIZE /\ array_get(a4, 1) = TESTSIZE - 2
    /\ array_get(a5, 0) = TESTSIZE /\ array_get(a5, 1) = Junk]

\* Mutant of arraytest: the array is not emptied between the two runs of testa.
ArraytestKeeps ==
  LET first == testa(array_init) IN first.passes /\ testa(first.array).passes

arraytest ==
  LET first == testa(array_init) IN
  first.passes /\ testa(array_setsize(first.array, 0)).passes
arraytest2 ==
  LET a1 == array_setsize(array_setsize(ArFilled[TESTSIZE], 0), TESTSIZE)
      Sets[n \in 0..TESTSIZE] == IF n = 0 THEN a1 ELSE array_set(Sets[n - 1], n - 1, 3 * n)
      a2 == array_remove(Sets[TESTSIZE], 1)
      a3 == array_setsize(a2, TESTSIZE * 2) IN
  /\ \A i \in 0..(TESTSIZE - 1) : array_get(Sets[TESTSIZE], i) = 3 * (i + 1)
  /\ a2.num = TESTSIZE - 1
  /\ \A a \in {a2, a3} : array_get(a, 0) = 3 /\ \A i \in 1..(TESTSIZE - 2) : array_get(a, i) = 3 * (i + 2)
-----------------------------------------------------------------------------
(* Bitmaps: words of BITS_PER_WORD bits, a word being the set of its bits set. *)
DIVROUNDUP(a, b) == (a + b - 1) \div b

\* Mutant of bitmap_create: the leftover bits of the last word stay clear.
CreateLoose(nbits) == [nbits |-> nbits, v |-> [ix \in 0..(DIVROUNDUP(nbits, BITS_PER_WORD) - 1) |-> {}]]

bitmap_create(nbits) ==
  LET words == DIVROUNDUP(nbits, BITS_PER_WORD) IN
  [nbits |-> nbits,
   v |-> [ix \in 0..(words - 1) |->
            IF ix = words - 1 /\ words > nbits \div BITS_PER_WORD
            THEN (nbits - ix * BITS_PER_WORD)..(BITS_PER_WORD - 1) ELSE {}]]
bitmap_isset(b, i) == (i % BITS_PER_WORD) \in b.v[i \div BITS_PER_WORD]
bitmap_mark(b, i) == [b EXCEPT !.v[i \div BITS_PER_WORD] = @ \cup {i % BITS_PER_WORD}]
bitmap_unmark(b, i) == [b EXCEPT !.v[i \div BITS_PER_WORD] = @ \ {i % BITS_PER_WORD}]

\* bitmap_alloc: the first clear bit of the first word that has one; -1 is ENOSPC.
bitmap_alloc(b) ==
  LET open == {ix \in DOMAIN b.v : b.v[ix] # 0..(BITS_PER_WORD - 1)} IN
  IF open = {} THEN -1
  ELSE Min(open) * BITS_PER_WORD + Min((0..(BITS_PER_WORD - 1)) \ b.v[Min(open)])

BitmapCall ==
  /\ kl_part = "bitmap"
  /\ \/ \E i \in (0..(bm.nbits - 1)) \ bm_set :
          bm' = bitmap_mark(bm, i) /\ bm_set' = bm_set \cup {i} /\ bm_got' = -1
     \/ \E i \in bm_set :
          bm' = bitmap_unmark(bm, i) /\ bm_set' = bm_set \ {i} /\ bm_got' = -1
     \/ LET i == bitmap_alloc(bm) IN
          /\ bm_got' = IF i = -1 THEN -2 ELSE IF i \in bm_set THEN bm.nbits ELSE i
          /\ bm_set' = bm_set \cup ({i} \ {-1})
          /\ bm' = IF i = -1 THEN bm ELSE bitmap_mark(bm, i)
  /\ UNCHANGED <<kl_part, ar, ar_seq, um, cp, kl_test>>

\* bitmaptest, for one value of its random data: mark, check, invert, check, and
\* take the bits that are left.
bitmaptest(data) ==
  LET all == 0..(TESTSIZE - 1)
      MarkAll[n \in 0..TESTSIZE] == IF n = 0 THEN bitmap_create(TESTSIZE)
                                    ELSE IF n - 1 \in data THEN bitmap_mark(MarkAll[n - 1], n - 1)
                                    ELSE MarkAll[n - 1]
      Invert[n \in 0..TESTSIZE] == IF n = 0 THEN MarkAll[TESTSIZE]
                                   ELSE IF n - 1 \in data THEN bitmap_unmark(Invert[n - 1], n - 1)
                                   ELSE bitmap_mark(Invert[n - 1], n - 1)
      Take[n \in 0..TESTSIZE] == IF n = 0 THEN Invert[TESTSIZE]
                                 ELSE IF bitmap_alloc(Take[n - 1]) = -1 THEN Take[n - 1]
                                 ELSE bitmap_mark(Take[n - 1], bitmap_alloc(Take[n - 1]))
      got == {bitmap_alloc(Take[n]) : n \in 0..TESTSIZE} \ {-1} IN
  /\ \A i \in all : ~bitmap_isset(bitmap_create(TESTSIZE), i)
  /\ \A i \in all : bitmap_isset(MarkAll[TESTSIZE], i) <=> i \in data
  /\ \A i \in all : bitmap_isset(Invert[TESTSIZE], i) <=> i \notin data
  /\ got = data /\ \A i \in all : bitmap_isset(Take[TESTSIZE], i)
-----------------------------------------------------------------------------
(* The kernel menu runs the tests; bitmaptest draws its data. *)
TestCall ==
  /\ kl_part = "tests" /\ kl_test = "none"
  /\ \E passed \in {arraytest, arraytest2} \cup
                    {bitmaptest(data) : data \in SUBSET (0..(TESTSIZE - 1))} :
       kl_test' = IF passed THEN "passed" ELSE "failed"
  /\ UNCHANGED <<kl_part, ar, ar_seq, bm, bm_set, bm_got, um, cp>>
-----------------------------------------------------------------------------
(* uiomove.  The iovecs are pieces of memory; mem says what each byte of them *)
(* holds, Stale before the transfer.  The caller's data is numbered by its     *)
(* place in the transfer, so a byte that arrives tells which one it was.       *)
Stale == -3
UioInit(lens) ==
  [iov |-> lens, at |-> 1, base |-> [i \in DOMAIN lens |-> 0],
   mem |-> [i \in DOMAIN lens |-> [j \in 1..lens[i] |-> Stale]],
   resid |-> FoldFunction(+, 0, lens), total |-> FoldFunction(+, 0, lens),
   offset |-> 0, n |-> 0, more |-> 0, zeros |-> FALSE, zeroed |-> {}, pc |-> "ready"]

\* A call of uiomove for n bytes, or of uiomovezeros, which calls it for each
\* piece of at most ZEROS bytes; zeroed is where zeros are due.
UioCall ==
  /\ kl_part = "uio" /\ um.pc = "ready"
  /\ \E n \in UioSizes :
       \/ um' = [um EXCEPT !.n = n, !.zeros = FALSE, !.pc = "move"]
       \/ um' = [um EXCEPT !.more = n, !.zeros = TRUE, !.pc = "zeros",
                           !.zeroed = @ \cup (um.offset + 1)..(um.offset + n)]
  /\ UNCHANGED <<kl_part, ar, ar_seq, bm, bm_set, bm_got, cp, kl_test>>

uiomovezeros ==
  /\ kl_part = "uio" /\ um.pc = "zeros"
  /\ LET amt == Min({um.more, ZEROS}) IN
     um' = IF um.more = 0 THEN [um EXCEPT !.pc = "ready"]
           ELSE [um EXCEPT !.n = amt, !.more = @ - amt, !.pc = "move"]
  /\ UNCHANGED <<kl_part, ar, ar_seq, bm, bm_set, bm_got, cp, kl_test>>

\* What the next bytes of the piece are.
Piece(m, from, size, at) ==
  [j \in DOMAIN m |-> IF j \in (from + 1)..(from + size)
                      THEN IF um.zeros THEN 0 ELSE at + (j - from) ELSE m[j]]

\* Mutant of MovePiece: the iovec's base is not advanced.
MoveSameBase ==
  LET i == um.at
      size == Min({um.n, um.iov[i]}) IN
  [um EXCEPT !.mem[i] = Piece(@, um.base[i], size, um.offset), !.iov[i] = @ - size,
             !.resid = @ - size, !.offset = @ + size, !.n = @ - size]

\* One turn of the loop that moves: memmove or copyout, and the counters.
MovePiece ==
  LET i == um.at
      size == Min({um.n, um.iov[i]}) IN
  [um EXCEPT !.mem[i] = Piece(@, um.base[i], size, um.offset), !.base[i] = @ + size,
             !.iov[i] = @ - size, !.resid = @ - size, !.offset = @ + size, !.n = @ - size]

\* The loop of uiomove: it ends when the bytes or the room are used up, skips an
\* empty iovec, moves a piece, or stops where copyout fails, which may have
\* written part of the piece.
uiomove ==
  /\ kl_part = "uio" /\ um.pc = "move"
  /\ \/ /\ um.n = 0 \/ um.resid = 0
        /\ um' = [um EXCEPT !.pc = IF um.zeros THEN "zeros" ELSE "ready", !.n = 0]
     \/ /\ um.n > 0 /\ um.resid > 0
        /\ um' = IF um.iov[um.at] > 0 THEN MovePiece
                 ELSE IF um.at = Len(um.iov) THEN [um EXCEPT !.pc = "panic"]
                 ELSE [um EXCEPT !.at = @ + 1]
     \/ /\ um.n > 0 /\ um.resid > 0 /\ um.iov[um.at] > 0
        /\ um' = [um EXCEPT !.pc = "EFAULT",
                            !.mem[um.at] = Piece(@, um.base[um.at], 1, um.offset)]
  /\ UNCHANGED <<kl_part, ar, ar_seq, bm, bm_set, bm_got, cp, kl_test>>
-----------------------------------------------------------------------------
(* copyinout.  Vaddr arithmetic wraps at AddrTop. *)
\* Mutant of copycheck: the wrap is not looked for.
CheckNoWrap(bot, len) ==
  LET top == (bot + len - 1) % AddrTop IN
  IF bot >= USERSPACETOP THEN [err |-> "EFAULT", stop |-> len]
  ELSE [err |-> "ok", stop |-> IF top >= USERSPACETOP THEN USERSPACETOP - bot ELSE len]

copycheck(bot, len) ==
  LET top == (bot + len - 1) % AddrTop IN
  IF top < bot \/ bot >= USERSPACETOP THEN [err |-> "EFAULT", stop |-> len]
  ELSE [err |-> "ok", stop |-> IF top >= USERSPACETOP THEN USERSPACETOP - bot ELSE len]

\* copyin and copyout of a block; mapped is the set of addresses that do not fault.
\* touched is what the copy went over.
copyin(bot, len, mapped) ==
  LET c == copycheck(bot, len)
      all == {(bot + k) % AddrTop : k \in 0..(len - 1)} IN
  IF c.err # "ok" \/ c.stop # len THEN [err |-> "EFAULT", touched |-> {}]
  ELSE [err |-> IF all \subseteq mapped THEN "ok" ELSE "EFAULT", touched |-> all]

\* copystr: byte by byte up to the terminator, the end of the buffer or of user
\* space; zero is the set of addresses holding a terminator.
copystr(bot, maxlen, stoplen, zero, mapped) ==
  LET limit == Min({maxlen, stoplen})
      ends == {k \in 0..(limit - 1) : bot + k \in zero}
      last == IF ends = {} THEN limit - 1 ELSE Min(ends)
      went == {bot + k : k \in 0..last} IN
  [err |-> IF ~(went \subseteq mapped) THEN "EFAULT"
           ELSE IF ends # {} THEN "ok"
           ELSE IF stoplen < maxlen THEN "EFAULT" ELSE "ENAMETOOLONG",
   touched |-> went]
copyinstr(bot, len, zero, mapped) ==
  LET c == copycheck(bot, len) IN
  IF c.err # "ok" THEN [err |-> c.err, touched |-> {}]
  ELSE copystr(bot, len, c.stop, zero, mapped)

CopyCall ==
  /\ kl_part = "copy" /\ cp.err = "none"
  /\ \E bot \in 0..(AddrTop - 1), len \in 0..(AddrTop - 1), hole \in -1..(USERSPACETOP - 1),
        zero \in -1..(AddrTop - 1), str \in BOOLEAN :
       LET mapped == (0..(USERSPACETOP - 1)) \ {hole}
           r == IF str THEN copyinstr(bot, len, {zero}, mapped) ELSE copyin(bot, len, mapped) IN
       cp' = [err |-> r.err, touched |-> r.touched, bot |-> bot, len |-> len, mapped |-> mapped,
              zero |-> zero, str |-> str]
  /\ UNCHANGED <<kl_part, ar, ar_seq, bm, bm_set, bm_got, um, kl_test>>
-----------------------------------------------------------------------------
KernLibInit ==
  /\ kl_part \in {"array", "bitmap", "tests", "uio", "copy"} /\ kl_test = "none"
  /\ ar = array_init /\ ar_seq = <<>>
  /\ bm \in IF kl_part = "bitmap" THEN {bitmap_create(n) : n \in 1..MaxBits} ELSE {bitmap_create(1)}
  /\ bm_set = {} /\ bm_got = -1
  /\ um \in IF kl_part = "uio" THEN {UioInit(l) : l \in UioLens} ELSE {UioInit(<<>>)}
  /\ cp = [err |-> "none"]
KernLibNext == ArrayCall \/ BitmapCall \/ TestCall \/ UioCall \/ uiomovezeros \/ uiomove \/ CopyCall
-----------------------------------------------------------------------------
\* An array holds the sequence its calls describe, across the growth of
\* array_preallocate, which copies only num elements, and the memmove of
\* array_remove.
ArrayIsSequence ==
  /\ ar.num = Len(ar_seq) /\ ar.num <= ar.max /\ Len(ar.v) = ar.max
  /\ \A i \in 1..ar.num : ar_seq[i] # Junk => ar.v[i] = ar_seq[i]

\* A bitmap of any number of bits is the set of its marked bits: bitmap_alloc
\* returns the lowest one that is clear, never one past nbits (the leftover bits
\* of the last word) and fails only when all are set.
BitmapIsSet ==
  /\ \A i \in 0..(bm.nbits - 1) : bitmap_isset(bm, i) <=> i \in bm_set
  /\ bm_got < bm.nbits
  /\ bm_got = -2 => bm_set = 0..(bm.nbits - 1)
  /\ bm_got >= 0 => 0..bm_got \subseteq bm_set

\* Between calls, and after a fault, what uiomove counted is what it moved: the
\* bytes fill the iovecs in order, each once, and uio_resid and uio_offset agree
\* with them; it never runs out of buffers.
UioCountsBytes ==
  LET filled == FlattenSeq(um.mem) IN
  /\ um.pc # "panic"
  /\ um.offset = um.total - um.resid
  /\ um.resid = FoldFunction(+, 0, um.iov)
  /\ \A k \in 1..um.offset : filled[k] = IF k \in um.zeroed THEN 0 ELSE k
  /\ \A k \in (um.offset + 2)..um.total : filled[k] = Stale

\* A copy reaches only user addresses, whatever the address and the length; a
\* block is copied exactly when all of it is mapped user memory, and a string
\* when its terminator comes before its limit, the end of user space or a hole.
\* (A block of no bytes is always refused: its end lies before its start.)
CopyStaysInUserSpace ==
  cp.err # "none" =>
    LET block == {cp.bot + k : k \in 0..(cp.len - 1)}
        upto == {k \in block : cp.zero \in block => k <= cp.zero} IN
    /\ cp.touched \subseteq 0..(USERSPACETOP - 1)
    /\ ~cp.str => (cp.err = "ok" <=> cp.len > 0 /\ block \subseteq cp.mapped)
    /\ (cp.str /\ cp.err = "ok") => cp.zero \in block /\ upto \subseteq cp.mapped
    /\ (cp.str /\ cp.err = "ENAMETOOLONG") => block \subseteq cp.mapped /\ cp.zero \notin block

\* The array and bitmap tests of the kernel menu pass, whatever data bitmaptest
\* draws: their KASSERTs agree with what array.c and bitmap.c do, the second testa
\* on an array that has already grown included.
LibTestsPass == kl_test # "failed"
=============================================================================
