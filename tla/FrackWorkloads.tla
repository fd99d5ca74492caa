---------------------------- MODULE FrackWorkloads ----------------------------
(***************************************************************************)
(* The workloads of userland/testbin/frack, the crash tester for file      *)
(* systems.  A workload is the sequence of operations it hands to ops.c.   *)
(* Lengths and positions count blocks.  The open files of a workload are   *)
(* its slots: TEMP for a local "f", the array index for "files[i]".        *)
(* What random() decides is a choice of the planner (see randop below):    *)
(* a plan is one whole operation sequence, because "do" and "check" replay *)
(* the same seed.                                                          *)
(***************************************************************************)
EXTENDS Integers, Sequences, FiniteSets, SequencesExt

CONSTANTS NDB,            \* SFS_NDIRECT of workloads.c, 15
          DBPERIDB,       \* SFS_DBPERIDB, 128
          DATA_MAXSIZE,   \* blocks one op_write hands on at a time, 128
          NumFiles,       \* the 27 or 14 of the "many" workloads
          NumTrees,       \* the 14 of wl_renamemanysubtree
          NumThings,      \* the 4 of wl_mktree_sub, 12-55 of the random trees
          NumOps,         \* random operations of one workload, 100-199
          DrawLen,        \* random() calls of one random tree
          RandPos,        \* positions random() may give
          RandLen         \* lengths random() may give

TEMP == -1

\* ---- ops.c: what an operation is

Op(op, h, a, b, c) == <<[op |-> op, h |-> h, a |-> a, b |-> b, c |-> c]>>

\* the open flags that matter; 0 is an existing file opened as it is
O_EXCL == 1
O_TRUNC == 2

op_open(h, testcode, name, flags) == Op("open", h, testcode, name, flags)
op_close(h) == Op("close", h, 0, 0, 0)
op_opendir(h, name) == Op("opendir", h, name, 0, 0)
op_closedir(h) == Op("closedir", h, 0, 0, 0)
op_truncate(h, len) == Op("truncate", h, len, 0, 0)
op_mkdir(name) == Op("mkdir", 0, name, 0, 0)
op_rmdir(name) == Op("rmdir", 0, name, 0, 0)
op_unlink(name) == Op("unlink", 0, name, 0, 0)
op_link(from, to) == Op("link", 0, from, to, 0)
op_rename(from, to) == Op("rename", 0, from, to, 0)
op_renamexd(fromdir, from, todir, to) == Op("renamexd", fromdir, from, todir, to)
op_chdir(name) == Op("chdir", 0, name, 0, 0)
op_chdirup == Op("chdirup", 0, 0, 0, 0)
op_sync == Op("sync", 0, 0, 0, 0)

\* a write longer than the buffer is handed on in pieces
op_write(h, pos, len) ==
    LET pieces == (len + DATA_MAXSIZE - 1) \div DATA_MAXSIZE
        Amount(i) == IF i < pieces THEN DATA_MAXSIZE
                                   ELSE len - DATA_MAXSIZE * (pieces - 1)
    IN FlattenSeq([i \in 1..pieces |->
           Op("write", h, pos + DATA_MAXSIZE * (i - 1), Amount(i), 0)])

ForEach(n, Body(_)) == FlattenSeq([i \in 1..n |-> Body(i - 1)])

\* ---- sizes

SIZES == <<"one", "small", "medium", "large", "largeplus">>
SizeIndex(sz) == CHOOSE i \in 1..5 : SIZES[i] = sz
nextsmallersize(sz) == SIZES[SizeIndex(sz) - 1]
nextlargersize(sz) == SIZES[SizeIndex(sz) + 1]
randsize == {"one", "small", "medium"}

sizebytes(sz) ==
    CASE sz = "one" -> 1
      [] sz = "small" -> NDB
      [] sz = "medium" -> NDB + DBPERIDB \div 2
      [] sz = "large" -> NDB + DBPERIDB + (DBPERIDB * DBPERIDB) \div 2
      [] sz = "largeplus" ->
             NDB + DBPERIDB + DBPERIDB * DBPERIDB + DBPERIDB \div 2

\* ---- common suboperations

writeemptyfile(n) == op_open(TEMP, 0, n, O_EXCL) \o op_close(TEMP)

writeoutfile(testcode, n, flags, sz) ==
    op_open(TEMP, testcode, n, flags) \o op_write(TEMP, 0, sizebytes(sz))
        \o op_close(TEMP)

writenewfile(testcode, n, sz) == writeoutfile(testcode, n, O_EXCL, sz)

writeholeyfile(testcode, n, sz) ==
    op_open(TEMP, testcode, n, O_EXCL) \o op_write(TEMP, 0, 1)
        \o op_write(TEMP, sizebytes(sz) - 1, 1) \o op_close(TEMP)

makesubtree(testcode, n) ==
    LET File(i) == writenewfile(testcode, i, "one") IN
    op_mkdir(n) \o op_chdir(n)
        \o ForEach(7, LAMBDA i : IF i \in {2, 5} THEN op_mkdir(i) ELSE File(i))
        \o op_chdir(2) \o ForEach(4, LAMBDA i : File(i + 3)) \o op_chdirup
        \o op_chdir(5)
        \o ForEach(5, LAMBDA i : IF i = 3 THEN op_mkdir(i + 3) ELSE File(i + 3))
        \o op_chdir(6) \o ForEach(2, LAMBDA i : File(i + 7))
        \o op_chdirup \o op_chdirup \o op_chdirup

\* file_randomwrite: each write lands on some block between the skips
Placements(sz, startskip, endskip) ==
    LET nwrites == IF sizebytes(sz) \div 6 < 2 THEN 2 ELSE sizebytes(sz) \div 6
    IN [1..nwrites -> startskip..(sizebytes(sz) - endskip - 1)]

file_randomwrite(h, where) ==
    FlattenSeq([i \in DOMAIN where |-> op_write(h, where[i], 1)])

\* ---- writing

wl_createwrite(sz) == writenewfile(1, 0, sz)

wl_rewrite(sz) ==
    writenewfile(2, 0, sz) \o op_sync \o writeoutfile(3, 0, 0, sz)

wl_randupdate(sz, where) ==
    writenewfile(4, 0, sz) \o op_sync \o op_open(TEMP, 5, 0, 0)
        \o file_randomwrite(TEMP, where) \o op_close(TEMP)

wl_truncwrite(sz) ==
    writenewfile(6, 0, sz) \o op_sync \o writeoutfile(6, 0, O_TRUNC, sz)

wl_makehole(sz) == writeholeyfile(8, 0, sz)

wl_fillhole(sz, where) ==
    writeholeyfile(9, 0, sz) \o op_sync \o op_open(TEMP, 10, 0, 0)
        \o file_randomwrite(TEMP, where) \o op_close(TEMP)

wl_truncfill(sz, where) ==
    op_open(TEMP, 11, 0, O_EXCL) \o op_truncate(TEMP, sizebytes(sz))
        \o op_close(TEMP) \o op_sync \o op_open(TEMP, 11, 0, 0)
        \o file_randomwrite(TEMP, where) \o op_close(TEMP)

\* the shape of the workloads that write a file out, sync, and reopen it
Reopened(testcode, again, sz, Body) ==
    writenewfile(testcode, 0, sz) \o op_sync \o op_open(TEMP, again, 0, 0)
        \o Body \o op_close(TEMP)

wl_append(sz) == Reopened(11, 12, sz, op_write(TEMP, sizebytes(sz), 4))

\* ---- truncating

wl_trunczero(sz) == Reopened(50, 50, sz, op_truncate(TEMP, 0))

wl_trunconeblock(sz) ==
    Reopened(50, 50, sz, op_truncate(TEMP, sizebytes(sz) - 1))

wl_truncsmallersize(sz) ==
    Reopened(50, 50, sz, op_truncate(TEMP, sizebytes(nextsmallersize(sz))))

wl_trunclargersize(sz) ==
    Reopened(50, 50, sz, op_truncate(TEMP, sizebytes(nextlargersize(sz))))

wl_appendandtrunczero(sz) ==
    Reopened(50, 50, sz,
             op_write(TEMP, sizebytes(sz), 4) \o op_truncate(TEMP, 0))

wl_appendandtruncpartly(sz) ==
    Reopened(50, 50, sz, op_write(TEMP, sizebytes(sz), 4)
                             \o op_truncate(TEMP, sizebytes(sz) + 2))

\* ---- creating

wl_mkfile == writenewfile(100, 0, "one")
wl_mkdir == op_mkdir(0)
wl_mkmanyfile == ForEach(NumFiles, LAMBDA i : writenewfile(101, i, "one"))
wl_mkmanydir == ForEach(NumFiles, op_mkdir)

RECURSIVE wl_mktree_sub(_, _)
wl_mktree_sub(testcode, depth) ==
    ForEach(NumThings, LAMBDA i :
        IF i < depth THEN writenewfile(testcode, i, "one")
        ELSE op_mkdir(i) \o
             IF depth < NumThings
             THEN op_chdir(i) \o wl_mktree_sub(testcode, depth + 1) \o op_chdirup
             ELSE <<>>)

RECURSIVE wl_rmtree_sub(_)
wl_rmtree_sub(depth) ==
    ForEach(NumThings, LAMBDA i :
        IF i < depth THEN op_unlink(i)
        ELSE (IF depth < NumThings
              THEN op_chdir(i) \o wl_rmtree_sub(depth + 1) \o op_chdirup
              ELSE <<>>) \o op_rmdir(i))

wl_mktree == wl_mktree_sub(102, 0)

\* mkrandtree_sub and rmrandtree_sub draw alike; r holds the operations so
\* far, the things counted and the next draw
RECURSIVE RandTree(_, _, _, _, _, _)
RandTree(make, testcode, draws, depth, here, r) ==
    LET Past(ops) == [ops |-> r.ops \o ops, ct |-> r.ct + 1, i |-> r.i + 1]
        Sub == RandTree(make, testcode, draws, depth + 1, 0,
                   Past((IF make THEN op_mkdir(here) ELSE <<>>) \o op_chdir(here)))
        After == op_chdirup \o IF make THEN <<>> ELSE op_rmdir(here)
        File == IF make THEN writenewfile(testcode, here, "one")
                        ELSE op_unlink(here)
    IN IF r.ct >= NumThings \/ r.i > Len(draws) THEN r
       ELSE CASE draws[r.i] = 0 ->
                     RandTree(make, testcode, draws, depth, here + 1,
                              [Sub EXCEPT !.ops = @ \o After])
              [] draws[r.i] = 1 ->
                     IF depth > 0 THEN [r EXCEPT !.i = @ + 1]
                     ELSE RandTree(make, testcode, draws, depth, here,
                                   [r EXCEPT !.i = @ + 1])
              [] OTHER ->
                     RandTree(make, testcode, draws, depth, here + 1, Past(File))

DrawTree(make, testcode, draws) ==
    RandTree(make, testcode, draws, 0, 0, [ops |-> <<>>, ct |-> 0, i |-> 1])

\* draws that count to numthings; random() never runs dry
GoodDraws ==
    {d \in [1..DrawLen -> 0..2] : DrawTree(TRUE, 0, d).ct >= NumThings}

wl_mkrandtree(draws) == DrawTree(TRUE, 103, draws).ops

\* ---- deleting

wl_rmfile ==
    writenewfile(150, 0, "one") \o writeemptyfile(1) \o op_sync \o op_unlink(0)

wl_rmdir == op_mkdir(0) \o writeemptyfile(1) \o op_sync \o op_rmdir(0)

wl_rmfiledelayed ==
    writenewfile(151, 0, "one") \o writeemptyfile(1) \o op_sync
        \o op_open(TEMP, 151, 0, 0) \o op_unlink(0) \o op_close(TEMP)

wl_rmfiledelayedappend ==
    writenewfile(152, 0, "small") \o writeemptyfile(1) \o op_sync
        \o op_open(TEMP, 152, 0, 0) \o op_unlink(0)
        \o op_write(TEMP, sizebytes("small"), 6) \o op_close(TEMP)

wl_rmdirdelayed ==
    op_mkdir(0) \o writeemptyfile(1) \o op_sync
        \o op_opendir(TEMP, 0) \o op_rmdir(0) \o op_closedir(TEMP)

ManyFiles(testcode, sz) ==
    ForEach(NumFiles, LAMBDA i : writenewfile(testcode, i, sz))
        \o writeemptyfile(NumFiles) \o op_sync

wl_rmmanyfile == ManyFiles(153, "one") \o ForEach(NumFiles, op_unlink)

wl_rmmanyfiledelayed ==
    ManyFiles(154, "one")
        \o ForEach(NumFiles, LAMBDA i : op_open(i, 154, i, 0))
        \o ForEach(NumFiles, op_unlink) \o ForEach(NumFiles, op_close)

\* append one, reclaim two, until all are reclaimed
RECURSIVE AppendReclaim(_, _)
AppendReclaim(i, j) ==
    LET ni == IF i < NumFiles THEN i + 1 ELSE i IN
    IF j >= NumFiles THEN <<>>
    ELSE (IF i < NumFiles THEN op_write(i, sizebytes("small"), 6) ELSE <<>>)
         \o op_close(j)
         \o IF j + 1 < ni THEN op_close(j + 1) \o AppendReclaim(ni, j + 2)
                          ELSE AppendReclaim(ni, j + 1)

wl_rmmanyfiledelayedandappend ==
    ManyFiles(155, "small")
        \o ForEach(NumFiles, LAMBDA i : op_open(i, 155, i, 0))
        \o ForEach(NumFiles, op_unlink)
        \o ForEach(NumFiles \div 2,
                   LAMBDA i : op_write(i, sizebytes("small"), 6))
        \o ForEach(NumFiles \div 4, op_close)
        \o AppendReclaim(NumFiles \div 2, NumFiles \div 4)

ManyDirs == ForEach(NumFiles, op_mkdir) \o writeemptyfile(NumFiles) \o op_sync

wl_rmmanydir == ManyDirs \o ForEach(NumFiles, op_rmdir)

wl_rmmanydirdelayed ==
    ManyDirs \o ForEach(NumFiles, LAMBDA i : op_opendir(i, i))
        \o ForEach(NumFiles, op_rmdir) \o ForEach(NumFiles, op_closedir)

wl_rmtree == wl_mktree_sub(156, 0) \o op_sync \o wl_rmtree_sub(0)

wl_rmrandtree(draws) ==
    DrawTree(TRUE, 157, draws).ops \o op_sync \o DrawTree(FALSE, 157, draws).ops

\* ---- link

wl_linkfile == writenewfile(200, 0, "one") \o op_sync \o op_link(0, 1)

wl_linkmanyfile ==
    ForEach(NumFiles, LAMBDA i : writenewfile(201, i, "one")) \o op_sync
        \o ForEach(NumFiles, LAMBDA i : op_link(i, NumFiles + i))

wl_unlinkfile ==
    writenewfile(202, 0, "one") \o op_link(0, 1) \o writeemptyfile(2)
        \o op_sync \o op_unlink(1)

wl_unlinkmanyfile ==
    ForEach(NumFiles, LAMBDA i : writenewfile(203, i, "one"))
        \o ForEach(NumFiles, LAMBDA i : op_link(i, NumFiles + i))
        \o writeemptyfile(NumFiles * 2) \o op_sync
        \o ForEach(NumFiles, LAMBDA i :
               op_unlink(IF i < NumFiles \div 2 THEN i ELSE NumFiles + i))

wl_linkunlinkfile ==
    writenewfile(204, 0, "one") \o op_sync \o op_link(0, 1) \o op_unlink(1)

\* ---- rename

wl_renamefile ==
    writenewfile(250, 0, "one") \o writeemptyfile(2) \o op_sync \o op_rename(0, 1)

wl_renamedir == op_mkdir(0) \o writeemptyfile(2) \o op_sync \o op_rename(0, 1)

wl_renamesubtree ==
    makesubtree(251, 0) \o writeemptyfile(2) \o op_sync \o op_rename(0, 1)

AcrossDirs(Body) ==
    op_mkdir(0) \o op_mkdir(1) \o op_chdir(0) \o Body \o op_chdirup \o op_sync
        \o op_renamexd(0, 2, 1, 3)

wl_renamexdfile == AcrossDirs(writenewfile(252, 2, "one"))
wl_renamexddir == AcrossDirs(op_mkdir(2))
wl_renamexdsubtree == AcrossDirs(makesubtree(253, 2))

RenameMany(n, Make(_)) ==
    ForEach(n, Make) \o writeemptyfile(n * 2) \o op_sync
        \o ForEach(n, LAMBDA i : op_rename(i, n + i))

wl_renamemanyfile == RenameMany(NumFiles, LAMBDA i : writenewfile(254, i, "one"))
wl_renamemanydir == RenameMany(NumFiles, op_mkdir)
wl_renamemanysubtree == RenameMany(NumTrees, LAMBDA i : makesubtree(255, i))

\* ---- combo operations

wl_copyandrename ==
    writenewfile(300, 0, "medium") \o writeemptyfile(2) \o op_sync
        \o writenewfile(301, 1, "medium") \o op_rename(1, 0)

wl_untar == makesubtree(302, 0)

\* ---- randomized sequences: a plan p is the operations so far, what exists
\* under each name ("isnt", "file", "dir"), the open slots, and the random
\* operations left

createfiles(testcode, num, sz) ==
    ForEach(num, LAMBDA i : writenewfile(testcode, i, sz))

openfiles(testcode, opennum) ==
    ForEach(opennum, LAMBDA i : op_open(i, testcode + 1, i, 0))

randwrite(h) == {op_write(h, pos, len) : pos \in RandPos, len \in RandLen}

randtruncate(h) ==
    {op_truncate(h, len) : len \in {l \in RandPos : l < sizebytes("medium")}}

Plan(kind, testcode, ops, exists, open) ==
    [kind |-> kind, code |-> testcode, ops |-> ops, exists |-> exists,
     open |-> open, left |-> NumOps]

Names == 0..(2 * NumFiles)
Nothing == [n \in Names |-> "isnt"]

wl_writefileseq ==
    Plan("writefileseq", 350,
         createfiles(350, NumFiles \div 2, "medium") \o op_sync
             \o openfiles(350, NumFiles \div 2),
         Nothing, 0..(NumFiles \div 2 - 1))

wl_writetruncseq ==
    Plan("writetruncseq", 352,
         createfiles(352, NumFiles \div 2, "medium") \o op_sync
             \o openfiles(352, NumFiles \div 2),
         Nothing, 0..(NumFiles \div 2 - 1))

wl_mkrmseq == Plan("mkrmseq", 354, <<>>, Nothing, {})

wl_linkunlinkseq ==
    Plan("linkunlinkseq", 355, createfiles(355, NumFiles, "one") \o op_sync,
         Nothing, {})

wl_renameseq ==
    Plan("renameseq", 356, createfiles(356, NumFiles \div 3, "one") \o op_sync,
         [n \in Names |-> IF n < NumFiles \div 3 THEN "file" ELSE "isnt"], {})

prep(testcode) ==
    createfiles(testcode, NumFiles \div 4, "one")
        \o ForEach(NumFiles \div 3, LAMBDA i : op_mkdir(NumFiles \div 4 + i))
        \o op_sync

Prepared ==
    [n \in Names |-> IF n < NumFiles \div 4 THEN "file"
                     ELSE IF n < NumFiles \div 4 + NumFiles \div 3 THEN "dir"
                     ELSE "isnt"]

wl_diropseq == Plan("diropseq", 357, prep(357), Prepared, {})
wl_genseq == Plan("genseq", 358, prep(358), Prepared, {})

\* one step of a plan
After(p, ops, exists, open) ==
    [p EXCEPT !.ops = @ \o ops, !.exists = exists, !.open = open,
              !.left = @ - 1]

\* the loop bodies of wl_writefileseq and wl_writetruncseq
FileSeqStep(p, f) ==
    LET opens == IF f \in p.open THEN <<>>
                 ELSE op_open(f, p.code + 1, f, O_EXCL)
        moves == randwrite(f) \cup
                 IF p.kind = "writetruncseq" THEN randtruncate(f) ELSE {}
    IN {After(p, opens \o m, p.exists, p.open \cup {f}) : m \in moves}

\* the loop body of wl_mkrmseq
MkRmStep(p, f) ==
    IF p.exists[f] = "file"
    THEN {After(p, op_unlink(f), [p.exists EXCEPT ![f] = "isnt"], p.open)}
    ELSE {After(p, writenewfile(p.code, f, "one"),
                [p.exists EXCEPT ![f] = "file"], p.open)}

\* the loop body of wl_linkunlinkseq
LinkUnlinkStep(p, f) ==
    IF p.exists[f] = "file"
    THEN {After(p, op_unlink(f + NumFiles), [p.exists EXCEPT ![f] = "isnt"],
                p.open)}
    ELSE {After(p, op_link(g, f + NumFiles), [p.exists EXCEPT ![f] = "file"],
                p.open) : g \in 0..(NumFiles - 1)}

\* the loop body of wl_renameseq
RenameStep(p, f) ==
    {After(p, op_rename(f, g), [p.exists EXCEPT ![f] = "isnt", ![g] = "file"],
           p.open) :
        g \in {g \in 0..(NumFiles - 1) :
                   p.exists[f] = "file" /\ p.exists[g] = "isnt"}}

\* randop: the draws that do something.  The slot of a renamed file stays
\* where it was, and so does the slot of a file renamed over.
randop(p, f) ==
    LET gen == p.kind = "genseq"
        Is(what) == p.exists[f] = what
        opens == IF f \in p.open THEN <<>> ELSE op_open(f, p.code, f, 0)
        onto == {g \in 0..(NumFiles - 1) \ {f} :
                     /\ ~Is("isnt")
                     /\ p.exists[g] \in {"isnt", p.exists[f]}}
    IN {After(p, writenewfile(p.code, f, sz), [p.exists EXCEPT ![f] = "file"],
              p.open) :
            sz \in IF ~Is("isnt") THEN {} ELSE IF gen THEN randsize ELSE {"one"}}
       \cup {After(p, op_mkdir(f), [p.exists EXCEPT ![f] = "dir"], p.open) :
            x \in IF Is("isnt") THEN {1} ELSE {}}
       \cup {After(p, op_unlink(f) \o IF f \in p.open THEN op_close(f) ELSE <<>>,
                   [p.exists EXCEPT ![f] = "isnt"], p.open \ {f}) :
            x \in IF Is("file") THEN {1} ELSE {}}
       \cup {After(p, op_rmdir(f), [p.exists EXCEPT ![f] = "isnt"], p.open) :
            x \in IF Is("dir") THEN {1} ELSE {}}
       \cup {After(p, op_rename(f, g),
                   [p.exists EXCEPT ![g] = p.exists[f], ![f] = "isnt"], p.open) :
            g \in onto}
       \cup {After(p, opens \o m, p.exists, p.open \cup {f}) :
            m \in IF gen /\ Is("file") THEN randwrite(f) \cup randtruncate(f)
                  ELSE {}}

PlanSteps(p) ==
    UNION {CASE p.kind \in {"writefileseq", "writetruncseq"} -> FileSeqStep(p, f)
             [] p.kind = "mkrmseq" -> MkRmStep(p, f)
             [] p.kind = "linkunlinkseq" -> LinkUnlinkStep(p, f)
             [] p.kind = "renameseq" -> RenameStep(p, f)
             [] p.kind \in {"diropseq", "genseq"} -> randop(p, f) :
           f \in 0..(NumFiles - 1)}

\* ---- main.c: the table of workloads, the unimplemented two left out

SizedWorkloads(sz) ==
    {wl_createwrite(sz), wl_rewrite(sz), wl_truncwrite(sz), wl_makehole(sz),
     wl_append(sz), wl_trunczero(sz), wl_trunconeblock(sz),
     wl_truncsmallersize(sz), wl_trunclargersize(sz),
     wl_appendandtrunczero(sz), wl_appendandtruncpartly(sz)}
    \cup {wl_randupdate(sz, w) : w \in Placements(sz, 0, 0)}
    \cup {wl_fillhole(sz, w) : w \in Placements(sz, 1, 1)}
    \cup {wl_truncfill(sz, w) : w \in Placements(sz, 0, 0)}

PlainWorkloads ==
    {wl_mkfile, wl_mkdir, wl_mkmanyfile, wl_mkmanydir, wl_mktree, wl_rmfile,
     wl_rmdir, wl_rmfiledelayed, wl_rmfiledelayedappend, wl_rmdirdelayed,
     wl_rmmanyfile, wl_rmmanyfiledelayed, wl_rmmanyfiledelayedandappend,
     wl_rmmanydir, wl_rmmanydirdelayed, wl_rmtree, wl_linkfile,
     wl_linkmanyfile, wl_unlinkfile, wl_unlinkmanyfile, wl_linkunlinkfile,
     wl_renamefile, wl_renamedir, wl_renamesubtree, wl_renamexdfile,
     wl_renamexddir, wl_renamexdsubtree, wl_renamemanyfile, wl_renamemanydir,
     wl_renamemanysubtree, wl_copyandrename, wl_untar}

RandomWorkloads ==
    {wl_writefileseq, wl_writetruncseq, wl_mkrmseq, wl_linkunlinkseq,
     wl_renameseq, wl_diropseq, wl_genseq}

FixedWorkloads(sizes) ==
    UNION {SizedWorkloads(sz) : sz \in sizes} \cup PlainWorkloads
        \cup {wl_mkrandtree(d) : d \in GoodDraws}
        \cup {wl_rmrandtree(d) : d \in GoodDraws}
=============================================================================
