------------------------------ MODULE SfsVolume ------------------------------
(***************************************************************************)
(* A volume over its life: made by mksfs, mounted and used through the VFS *)
(* operations of module Sfs, synced, unmounted, cut off by a crash in the  *)
(* middle of any operation, repaired by sfsck (module Sfsck) and mounted   *)
(* again.                                                                  *)
(*   sf_vol    the volume: on disk, and the mount's memory                 *)
(*   sf_phase  "made" by mksfs, "mounted", "unmounted", "crashed", or      *)
(*             "checked" by sfsck                                          *)
(*   sf_open   the inode each open file handle refers to, 0 if closed      *)
(*   sf_cwd    some process has the root directory as its current one      *)
(*   sf_want   history: what the writers of each file put in it            *)
(*   sf_bad    why the last sfsck reported EXIT_UNRECOV                    *)
(*   sf_leak   the blocks sfsck left marked that nothing uses              *)
(*   sf_ops    operations so far, bounded by MaxSfOps                      *)
(***************************************************************************)
EXTENDS Sfs, Sfsck

CONSTANTS
    SfHandles,      \* open file handles
    SfExtents,      \* <<offset, length>> pairs a program writes at
    SfLengths,      \* lengths a program truncates to
    MaxSfOps,       \* bound on the number of operations
    MaxCrashes      \* bound on the number of crashes

VARIABLES sf_vol, sf_phase, sf_open, sf_cwd, sf_want, sf_bad, sf_ops, sf_crashes,
          sf_leak
sfvars == <<sf_vol, sf_phase, sf_open, sf_cwd, sf_want, sf_bad, sf_ops, sf_crashes,
            sf_leak>>

SfNames == SfNamesOk \cup SfNamesLong
MaxOffset == MaxFileBlocks * BLOCKWORDS
Stale == -1

SfInit ==
    /\ sf_vol = sfs_domount(mksfs)
    /\ sf_phase = "made"
    /\ sf_open = [h \in SfHandles |-> 0]
    /\ sf_cwd = FALSE
    /\ sf_want = <<>>
    /\ sf_bad = {}
    /\ sf_ops = 0
    /\ sf_crashes = 0
    /\ sf_leak = {}

(***************************************************************************)
(* userland/sbin/dumpsfs -a: what the volume dumper visits.  Printing is   *)
(* left out; kept is the walk, which has its own idea of where a file's    *)
(* blocks and a directory's entries are.                                   *)
(***************************************************************************)
\* The words of an indirect block, up to the end of the file; a missing
\* block is a block of zeros.
traverse_ib(disk, seen, numblocks, block) ==
    LET ib == IF block = 0 THEN ZeroBlock ELSE disk[block]
        n == Min({BLOCKWORDS, numblocks - Len(seen)})
    IN seen \o [w \in 1..n |-> ib[w]]

\* Mutant of traverse: the walk stops one block early in the direct blocks.
TraverseShort(disk, i) ==
    LET numblocks == i[SIZE] \div BLOCKWORDS
        direct == [n \in 1..Min({SFS_NDIRECT, numblocks}) |-> i[Direct(n - 1)]]
    IN IF Len(direct) < numblocks
       THEN traverse_ib(disk, direct, numblocks, i[INDIRECT])
       ELSE direct

\* The disk blocks doblock is called with, for file block 0, 1, ...
traverse(disk, i) ==
    LET numblocks == DivRoundUp(i[SIZE], BLOCKWORDS)
        direct == [n \in 1..Min({SFS_NDIRECT, numblocks}) |-> i[Direct(n - 1)]]
    IN IF Len(direct) < numblocks
       THEN traverse_ib(disk, direct, numblocks, i[INDIRECT])
       ELSE direct

\* Every entry of a directory block in use, past the directory's size too.
recursedirblock(disk, b) ==
    IF b = 0 THEN <<>>
    ELSE SelectSeq([n \in 1..PerBlock |-> disk[b][DIRENT * (n - 1) + 1]],
                   LAMBDA ino : ino /= SFS_NOINO)

\* The inodes dumpinode is called with from a directory, in order.
recursedir(disk, i) ==
    FoldLeft(LAMBDA acc, b : acc \o recursedirblock(disk, b), <<>>, traverse(disk, i))

(***************************************************************************)
(* Who uses which block, seen through the loaded vnodes where there are    *)
(* any and through the disk otherwise.                                     *)
(***************************************************************************)
InodeWords(v, ino) == IF ino \in DOMAIN v.vn THEN v.vn[ino].i ELSE v.disk[ino]
RootEntries(v) == Entries(v.disk, InodeWords(v, SFS_ROOTDIR_INO))
FileEntries(es) == {<<s, es[s].ino>> : s \in {t \in DOMAIN es : /\ es[t].ino /= SFS_NOINO
                                                              /\ es[t].name \notin {DOT, DOTDOT}}}
\* The names of files, as pairs of slot and inode.
FileNames(v) == FileEntries(RootEntries(v))
Linked(v) == {n[2] : n \in FileNames(v)}
LiveInodes(v) == {SFS_ROOTDIR_INO} \cup Linked(v) \cup DOMAIN v.vn

UsesOf(v, live) ==
    UNION {{<<ino, p>> : p \in PointsAt(v.disk, InodeWords(v, ino))} : ino \in live}
UsedBy(v, live) ==
    {SFS_SUPER_BLOCK, SFS_FREEMAP_START} \cup live \cup {u[2][2] : u \in UsesOf(v, live)}
UsedBlocks(v) == UsedBy(v, LiveInodes(v))

\* No block has two uses, and every linked object is a file with as many
\* links as names.
NoBlockTwice(v, live) ==
    Cardinality(UsedBy(v, live)) = 2 + Cardinality(live) + Cardinality(UsesOf(v, live))
LinksRight(v, names) ==
    /\ \A n \in names :
          /\ InodeWords(v, n[2])[TYPE] = SFS_TYPE_FILE
          /\ InodeWords(v, n[2])[LINK] = Cardinality({m \in names : m[2] = n[2]})
    /\ \A ino \in DOMAIN v.vn \ ({n[2] : n \in names} \cup {SFS_ROOTDIR_INO}) :
          v.vn[ino].i[LINK] = 0
Sound(v) == NoBlockTwice(v, LiveInodes(v)) /\ LinksRight(v, FileNames(v))

(***************************************************************************)
(* The writes of an interrupted operation that reached the disk: the first *)
(* N of v.log, on top of what was there.                                   *)
(***************************************************************************)
Survives(old, log, n) ==
    LET One(d, w) ==
          IF w.block = SFS_FREEMAP_START THEN [d EXCEPT !.dmap = w.words]
          ELSE [d EXCEPT !.disk[w.block] = w.words]
    IN FoldLeft(One, [disk |-> old.disk, dmap |-> old.dmap], SubSeq(log, 1, n))

\* The machine stops in the middle of an operation that would have led to V.
Crash(v) ==
    /\ sf_crashes < MaxCrashes
    /\ sf_crashes' = sf_crashes + 1
    /\ \E n \in 0..Len(v.log) :
          LET d == Survives(sf_vol, v.log, n) IN sf_vol' = sfs_domount(d)
    /\ sf_phase' = "crashed"
    /\ sf_open' = [h \in SfHandles |-> 0]
    /\ sf_cwd' = FALSE
    /\ sf_want' = <<>>
    /\ UNCHANGED <<sf_bad, sf_leak>>

\* The operation returns: WANT and OPEN are the history and the handles then.
Completes(v, open, want) ==
    /\ sf_vol' = Settle(v)
    /\ sf_open' = open
    /\ sf_want' = [ino \in {n \in DOMAIN want : n \in v.map} |-> want[ino]]
    /\ UNCHANGED <<sf_phase, sf_cwd, sf_bad, sf_crashes, sf_leak>>

Mounted ==
    /\ sf_phase = "mounted"
    /\ sf_ops < MaxSfOps
    /\ sf_ops' = sf_ops + 1

Blank == [size |-> 0, at |-> [off \in 0..MaxOffset - 1 |-> 0]]
WithFile(want, ino) ==
    [n \in DOMAIN want \cup {ino} |-> IF n \in DOMAIN want THEN want[n] ELSE Blank]

(***************************************************************************)
(* open with O_CREAT, through sfs_creat; a new file is empty.              *)
(***************************************************************************)
OpenCreate(h, name, excl) ==
    /\ Mounted
    /\ sf_open[h] = 0
    /\ \E v \in {DoneRoot(sfs_creat(sfs_getroot(sf_vol), name, excl))} :
          \/ Completes(v, IF Failed(v) THEN sf_open ELSE [sf_open EXCEPT ![h] = v.got],
                       IF ~Failed(v) /\ v.got \notin sf_vol.map
                       THEN WithFile(sf_want, v.got) ELSE sf_want)
          \/ Crash(v)

OpenFile(h, name) ==
    /\ Mounted
    /\ sf_open[h] = 0
    /\ \E v \in {DoneRoot(sfs_lookup(sfs_getroot(sf_vol), name))} :
          Completes(v, IF Failed(v) THEN sf_open ELSE [sf_open EXCEPT ![h] = v.got],
                    sf_want)

\* VOP_DECREF on close; the last close of an unlinked file erases it.
CloseFileSf(h) ==
    /\ Mounted
    /\ sf_open[h] /= 0
    /\ \E v \in {Decref(sf_vol, sf_open[h])} :
          Completes(v, [sf_open EXCEPT ![h] = 0], sf_want) \/ Crash(v)

WriteFile(h, extent) ==
    /\ Mounted
    /\ sf_open[h] /= 0
    /\ \E v \in {sfs_write(sf_vol, sf_open[h], extent[1], extent[2])} :
       LET off == extent[1]
           n == v.got
           Put(w) == [size |-> IF n = 0 THEN w.size ELSE Max({w.size, off + n}),
                      at |-> [o \in DOMAIN w.at |->
                                IF off <= o /\ o < off + n THEN SfData ELSE w.at[o]]]
       IN \/ Completes(v, sf_open,
                       [i \in DOMAIN sf_want |->
                          IF i = sf_open[h] THEN Put(sf_want[i]) ELSE sf_want[i]])
          \/ Crash(v)

\* What a program wrote past the new end is neither its data nor zeros.
TruncateFile(h, len) ==
    /\ Mounted
    /\ sf_open[h] /= 0
    /\ \E v \in {sfs_itrunc(sf_vol, sf_open[h], len)} :
       LET Cut(w) == [size |-> len,
                      at |-> [o \in DOMAIN w.at |->
                                IF o >= len /\ w.at[o] /= 0 THEN Stale ELSE w.at[o]]]
       IN \/ Completes(v, sf_open,
                       [i \in DOMAIN sf_want |->
                          IF i = sf_open[h] THEN Cut(sf_want[i]) ELSE sf_want[i]])
          \/ Crash(v)

LinkFile(h, name) ==
    /\ Mounted
    /\ sf_open[h] /= 0
    /\ \E v \in {DoneRoot(sfs_link(sfs_getroot(sf_vol), name, sf_open[h]))} :
          Completes(v, sf_open, sf_want) \/ Crash(v)

RemoveFile(name) ==
    /\ Mounted
    /\ \E v \in {DoneRoot(sfs_remove(sfs_getroot(sf_vol), name))} :
          Completes(v, sf_open, sf_want) \/ Crash(v)

RenameFile(n1, n2) ==
    /\ Mounted
    /\ \E v \in {DoneRoot(sfs_rename(sfs_getroot(sf_vol), n1, n2))} :
          Completes(v, sf_open, sf_want) \/ Crash(v)

SyncVolume ==
    /\ Mounted
    /\ \E v \in {sfs_sync(sf_vol)} :
          Completes(v, sf_open, sf_want) \/ Crash(v)

\* chdir to the volume's root keeps its vnode loaded; chdir away releases it.
ChangeCwd ==
    /\ Mounted
    /\ sf_cwd' = ~sf_cwd
    /\ sf_vol' = Settle(IF sf_cwd THEN Decref(sf_vol, SFS_ROOTDIR_INO)
                        ELSE sfs_getroot(sf_vol))
    /\ UNCHANGED <<sf_phase, sf_open, sf_want, sf_bad, sf_crashes, sf_leak>>

Unmount ==
    /\ sf_phase = "mounted"
    /\ \E v \in {sfs_unmount(sf_vol)} :
          /\ ~Failed(v)
          /\ sf_vol' = Settle(v)
    /\ sf_phase' = "unmounted"
    /\ UNCHANGED <<sf_open, sf_cwd, sf_want, sf_bad, sf_ops, sf_crashes, sf_leak>>

\* sfsck runs on a volume that is not mounted.
CheckVolume ==
    /\ sf_phase \in {"made", "unmounted", "crashed"}
    /\ \E k \in {sfsck([disk |-> sf_vol.disk, dmap |-> sf_vol.dmap])} :
          /\ sf_vol' = sfs_domount([disk |-> k.disk, dmap |-> k.dmap])
          /\ sf_bad' = k.bad
    /\ sf_leak' = IF sf_bad' \subseteq {"nodot"} THEN sf_vol'.map \ UsedBlocks(sf_vol') ELSE {}
    /\ sf_phase' = "checked"
    /\ UNCHANGED <<sf_open, sf_cwd, sf_want, sf_ops, sf_crashes>>

\* Missing . and .. entries do not matter to the kernel.
Usable == sf_bad \subseteq {"nodot"}

\* A volume is mounted when new, after a clean unmount or a successful repair.
Mount ==
    /\ sf_phase \in {"made", "unmounted", "checked"}
    /\ sf_phase = "checked" => Usable
    /\ sf_vol' = sfs_domount([disk |-> sf_vol.disk, dmap |-> sf_vol.dmap])
    /\ sf_phase' = "mounted"
    /\ UNCHANGED <<sf_open, sf_cwd, sf_want, sf_bad, sf_ops, sf_crashes, sf_leak>>

SfNext ==
    \/ \E h \in SfHandles : \/ \E n \in SfNames, x \in BOOLEAN : OpenCreate(h, n, x)
                            \/ \E n \in SfNames : OpenFile(h, n) \/ LinkFile(h, n)
                            \/ CloseFileSf(h)
                            \/ \E e \in SfExtents : WriteFile(h, e)
                            \/ \E l \in SfLengths : TruncateFile(h, l)
    \/ \E n \in SfNames : RemoveFile(n)
    \/ \E n1, n2 \in SfNames : RenameFile(n1, n2)
    \/ SyncVolume \/ ChangeCwd \/ Unmount \/ CheckVolume \/ Mount

SfSpec == SfInit /\ [][SfNext]_sfvars
-----------------------------------------------------------------------------
\* While a volume is mounted its bitmap marks exactly the blocks in use, no
\* block is used twice, and link counts are the number of names, whatever
\* failed (sfs_creat's and sfs_rename's undo paths) and whoever still has an
\* unlinked file open; this also holds when the volume was repaired after a
\* crash in the middle of an operation.
MountedSound ==
    sf_phase = "mounted" =>
        /\ Sound(sf_vol)
        /\ sf_vol.map = UsedBlocks(sf_vol) \cup sf_leak

\* None of SFS's panics and assertions is reachable on a volume that was
\* mounted sound: no inode or data block in a free block, no name without
\* links, no invalid type, no name twice, no bitmap left dirty at unmount.
NoSfsPanic == ~sf_vol.panic

\* What a program wrote is what a read gives back, and what nobody wrote
\* reads as zeros, across partial blocks, holes, the indirect block, writes
\* cut short by a full disk, links, renames and remounts.
ReadsBack ==
    sf_phase = "mounted" =>
        \A ino \in DOMAIN sf_want :
            LET i == InodeWords(sf_vol, ino)
                c == Contents(sf_vol.disk, i)
            IN /\ i[SIZE] = sf_want[ino].size
               /\ \A o \in DOMAIN c :
                     sf_want[ino].at[o] \in {Stale, c[o]}

\* sfsck ends with a sound volume: unless it says that two users share a
\* block or that it could not write, its result has no crosslink, no dangling
\* name, exact link counts and a bitmap that misses no block in use.
RepairSound ==
    (sf_phase = "checked" /\ Usable) =>
        /\ Sound(sf_vol)
        /\ UsedBlocks(sf_vol) \subseteq sf_vol.dmap

\* The kernel and sfsck agree on what a sound volume is: after a clean
\* unmount sfsck finds no block used twice and rewrites neither the bitmap
\* nor a file, apart from blocks a truncation left past the end of a file.
CleanAgrees ==
    sf_phase = "unmounted" =>
        \A k \in {sfsck([disk |-> sf_vol.disk, dmap |-> sf_vol.dmap])} :
           /\ k.bad \subseteq {"nodot"}
           /\ k.dmap \subseteq sf_vol.dmap
           /\ \A ino \in Linked(sf_vol) :
                 /\ k.disk[ino][LINK] = sf_vol.disk[ino][LINK]
                 /\ Contents(k.disk, k.disk[ino]) = Contents(sf_vol.disk, sf_vol.disk[ino])

\* dumpsfs walks an unmounted volume the way the kernel wrote it: it visits
\* each file once per name, the blocks the kernel maps in order, and its
\* assertion that the walk ends at the last block holds.  A crash can leave
\* an entry past the directory's size, which dumpsfs follows and the kernel
\* does not.
DumpAgrees ==
    (sf_phase = "unmounted" /\ sf_crashes = 0) =>
        LET root == sf_vol.disk[SFS_ROOTDIR_INO]
            names == SelectSeq(RootEntries(sf_vol), LAMBDA e : e.ino /= SFS_NOINO)
        IN /\ recursedir(sf_vol.disk, root) = [n \in 1..Len(names) |-> names[n].ino]
           /\ \A ino \in Linked(sf_vol) :
                 LET i == sf_vol.disk[ino]
                 IN traverse(sf_vol.disk, i) =
                    [n \in 1..DivRoundUp(i[SIZE], BLOCKWORDS) |->
                        MapBlock(sf_vol.disk, i, n - 1)]

\* A second run of sfsck finds nothing left to repair in the directory and
\* the files.
RepairStable ==
    (sf_phase = "checked" /\ Usable) =>
        \A k \in {sfsck([disk |-> sf_vol.disk, dmap |-> sf_vol.dmap])} :
           k.bad \subseteq {"nodot"} /\ k.disk = sf_vol.disk


\* The tools agree with the kernel about a volume that is not mounted: sfsck
\* repairs what a crash left, once and for all, touches nothing after a clean
\* unmount, and dumpsfs walks the files the kernel wrote.
VolumeRepaired == RepairSound /\ RepairStable /\ CleanAgrees /\ DumpAgrees
=============================================================================
