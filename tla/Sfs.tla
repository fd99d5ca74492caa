--------------------------------- MODULE Sfs ---------------------------------
(***************************************************************************)
(* The kernel's SFS file system, kern/fs/sfs.  Every operation runs under  *)
(* the VFS big lock, so it is one step; what is not atomic is its effect   *)
(* on the disk, which a crash may cut after any of its block writes.  An   *)
(* operation is therefore a function on a volume V that also lists, in     *)
(* v.log, the writes it makes, in order:                                   *)
(*   v.disk, v.dmap   the blocks and the free block bitmap on disk         *)
(*   v.map, v.mapdirty   sfs_freemap and sfs_freemapdirty                  *)
(*   v.vn, v.order    the loaded vnodes by inode number, and sfs_vnodes    *)
(*   v.err, v.got     the result of the last call, and what it hands back  *)
(*   v.panic          some panic() or KASSERT of the code was reached      *)
(***************************************************************************)
EXTENDS SfsDisk

CONSTANTS
    SfNamesOk,      \* file names that fit a directory entry
    SfNamesLong,    \* file names of SFS_NAMELEN characters or more
    SfData          \* the word user programs write

Die(v, cond) == [v EXCEPT !.panic = @ \/ cond]
Failed(v) == v.err /= "ok"
WithErr(v, e) == [v EXCEPT !.err = e]
Got(v, x) == [v EXCEPT !.got = x]

\* sfs_writeblock: the write reaches the disk before the call returns.
sfs_writeblock(v, b, words) ==
    [v EXCEPT !.disk[b] = words,
              !.log = Append(@, [block |-> b, words |-> words])]

\* Inode words of a loaded vnode, changed and marked dirty.
SetInode(v, ino, p, x) ==
    [v EXCEPT !.vn[ino].i[p] = x, !.vn[ino].dirty = TRUE]

(***************************************************************************)
(* sfs_balloc.c.  bitmap_alloc hands out the lowest free block, which is   *)
(* zeroed on disk before it is used.                                       *)
(***************************************************************************)
sfs_balloc(v) ==
    LET free == Blocks \ v.map
    IN IF free = {} THEN WithErr(v, "ENOSPC")
       ELSE LET b == Min(free)
                m == [v EXCEPT !.map = @ \cup {b}, !.mapdirty = TRUE]
            IN Got(sfs_writeblock(m, b, ZeroBlock), b)

\* bitmap_unmark asserts that the bit was set.
sfs_bfree(v, b) ==
    Die([v EXCEPT !.map = @ \ {b}, !.mapdirty = TRUE], b \notin v.map)

sfs_bused(v, b) == b \in v.map

(***************************************************************************)
(* sfs_bmap.c: the disk block of a file block, allocated if DOALLOC.       *)
(***************************************************************************)
\* The block that was allocated for the inode word P, unless there was none.
Placed(a, ino, p) == IF Failed(a) THEN a ELSE SetInode(a, ino, p, a.got)

BmapDirect(v, ino, fb, doalloc) ==
    LET b == v.vn[ino].i[Direct(fb)]
    IN CASE b /= 0 -> Got(Die(v, ~sfs_bused(v, b)), b)
         [] b = 0 /\ ~doalloc -> Got(v, 0)
         [] OTHER -> Placed(sfs_balloc(v), ino, Direct(fb))

\* The block that was allocated for an entry of the indirect block ID.
EntryPlaced(a, id, idoff) ==
    IF Failed(a) THEN a
    ELSE Got(sfs_writeblock(a, id, [a.disk[id] EXCEPT ![idoff + 1] = a.got]), a.got)

\* The entry of the indirect block v.got.
IndirectEntry(v, idoff, doalloc) ==
    LET b == v.disk[v.got][idoff + 1]
    IN IF Failed(v) THEN v
       ELSE IF b = 0 /\ doalloc THEN EntryPlaced(sfs_balloc(v), v.got, idoff)
       ELSE Got(Die(v, b /= 0 /\ ~sfs_bused(v, b)), b)

BmapIndirect(v, ino, idoff, doalloc) ==
    LET id == v.vn[ino].i[INDIRECT]
    IN IF id = 0 /\ ~doalloc THEN Got(v, 0)
       ELSE IndirectEntry(IF id /= 0 THEN Got(v, id)
                          ELSE Placed(sfs_balloc(v), ino, INDIRECT),
                          idoff, doalloc)

sfs_bmap(v, ino, fb, doalloc) ==
    CASE fb < SFS_NDIRECT -> BmapDirect(v, ino, fb, doalloc)
      [] fb >= MaxFileBlocks -> WithErr(v, "EFBIG")
      [] OTHER -> BmapIndirect(v, ino, fb - SFS_NDIRECT, doalloc)

(***************************************************************************)
(* sfs_itrunc.  The direct blocks from BLOCKLEN on are freed; of the       *)
(* indirect ones, those strictly past BLOCKLEN.                            *)
(***************************************************************************)
PastDirect(blocklen) == {n \in 0..SFS_NDIRECT - 1 : n >= blocklen}
PastIndirect(blocklen) == {j \in 0..BLOCKWORDS - 1 : blocklen < SFS_NDIRECT + j}

TruncDirect(v, ino, blocklen) ==
    LET Free(u, n) ==
          IF u.vn[ino].i[Direct(n)] = 0 THEN u
          ELSE SetInode(sfs_bfree(u, u.vn[ino].i[Direct(n)]), ino, Direct(n), 0)
    IN FoldLeft(Free, v, SetToSortSeq(PastDirect(blocklen), <))

TruncIndirect(v, ino, blocklen) ==
    LET id == v.vn[ino].i[INDIRECT]
        old == v.disk[id]
        drop == {j \in PastIndirect(blocklen) : old[j + 1] /= 0}
        new == [w \in 1..BLOCKWORDS |-> IF w - 1 \in drop THEN 0 ELSE old[w]]
        v1 == FoldLeft(LAMBDA u, j : sfs_bfree(u, old[j + 1]), v,
                       SetToSortSeq(drop, <))
    IN IF blocklen >= MaxFileBlocks - 1 \/ id = 0 THEN v
       ELSE CASE new = ZeroBlock -> SetInode(sfs_bfree(v1, id), ino, INDIRECT, 0)
              [] new /= ZeroBlock /\ drop /= {} -> sfs_writeblock(v1, id, new)
              [] OTHER -> v1

sfs_itrunc(v, ino, len) ==
    LET blocklen == DivRoundUp(len, BLOCKWORDS)
    IN SetInode(TruncIndirect(TruncDirect(v, ino, blocklen), ino, blocklen),
                ino, SIZE, len)

(***************************************************************************)
(* sfs_inode.c                                                             *)
(***************************************************************************)
sfs_sync_inode(v, ino) ==
    IF v.vn[ino].dirty
    THEN sfs_writeblock([v EXCEPT !.vn[ino].dirty = FALSE], ino, v.vn[ino].i)
    ELSE v

\* Take the vnode out of sfs_vnodes.
Unload(v, ino) ==
    [v EXCEPT !.vn = [n \in DOMAIN @ \ {ino} |-> @[n]],
              !.order = SelectSeq(@, LAMBDA n : n /= ino)]

\* Mutant of sfs_reclaim: the inode of an erased file is not freed.
ReclaimKeepsInode(v, ino) ==
    LET v1 == IF v.vn[ino].i[LINK] = 0 THEN sfs_itrunc(v, ino, 0) ELSE v
    IN Unload(sfs_sync_inode(v1, ino), ino)

sfs_reclaim(v, ino) ==
    LET gone == v.vn[ino].i[LINK] = 0
        v1 == IF gone THEN sfs_itrunc(v, ino, 0) ELSE v
        v2 == sfs_sync_inode(v1, ino)
        v3 == IF gone THEN sfs_bfree(v2, ino) ELSE v2
    IN Unload(v3, ino)

\* VOP_DECREF: the last reference reclaims the vnode.
Decref(v, ino) ==
    IF v.vn[ino].ref > 1 THEN [v EXCEPT !.vn[ino].ref = @ - 1]
    ELSE sfs_reclaim(v, ino)

\* VOP_DECREF when an error has to be handed back afterwards.
DecrefErr(v, ino) == WithErr(Decref(WithErr(v, "ok"), ino), v.err)

sfs_loadvnode(v, ino, forcetype) ==
    LET bad == \E n \in DOMAIN v.vn : ~sfs_bused(v, n)
        i == IF forcetype = SFS_TYPE_INVAL THEN v.disk[ino]
             ELSE [v.disk[ino] EXCEPT ![TYPE] = forcetype]
        new == [ref |-> 1, i |-> i, dirty |-> forcetype /= SFS_TYPE_INVAL]
    IN IF ino \in DOMAIN v.vn
       THEN Got(Die([v EXCEPT !.vn[ino].ref = @ + 1],
                    bad \/ forcetype /= SFS_TYPE_INVAL), ino)
       ELSE Got(Die([v EXCEPT !.vn = [n \in DOMAIN @ \cup {ino} |->
                                        IF n = ino THEN new ELSE @[n]],
                              !.order = Append(@, ino)],
                    \/ bad
                    \/ ~sfs_bused(v, ino)
                    \/ i[TYPE] \notin {SFS_TYPE_FILE, SFS_TYPE_DIR}
                    \/ /\ forcetype /= SFS_TYPE_INVAL
                       /\ v.disk[ino][TYPE] /= SFS_TYPE_INVAL), ino)

LoadNew(a, type) == IF Failed(a) THEN a ELSE sfs_loadvnode(a, a.got, type)
sfs_makeobj(v, type) == LoadNew(sfs_balloc(v), type)


\* sfs_partialio and sfs_blockio on the disk block m.got.
PatchBlock(m, done, off, len, fb) ==
    LET lo == Max({off, fb * BLOCKWORDS})
        hi == Min({off + len, (fb + 1) * BLOCKWORDS})
        words == [w \in 1..BLOCKWORDS |->
                    LET p == fb * BLOCKWORDS + w - 1
                    IN IF lo <= p /\ p < hi THEN SfData ELSE m.disk[m.got][w]]
    IN IF Failed(m) THEN Got(m, done)
       ELSE Got(sfs_writeblock(m, m.got, words), done + hi - lo)

BlockWrite(v, ino, off, len, fb) ==
    PatchBlock(sfs_bmap(v, ino, fb, TRUE), v.got, off, len, fb)

\* The file is now at least SIZE words long.
Grown(v, ino, size) ==
    IF size > v.vn[ino].i[SIZE] THEN SetInode(v, ino, SIZE, size) ELSE v

GrownBy(v, ino, off) == IF v.got > 0 THEN Grown(v, ino, off + v.got) ELSE v

sfs_write(v, ino, off, len) ==
    LET fbs == off \div BLOCKWORDS .. (off + len - 1) \div BLOCKWORDS
        One(u, fb) == IF Failed(u) THEN u ELSE BlockWrite(u, ino, off, len, fb)
    IN GrownBy(FoldLeft(One, Got(v, 0), SetToSortSeq(fbs, <)), ino, off)

\* sfs_io for reading: nothing at or past the end of the file.
sfs_read(v, ino) == Contents(v.disk, v.vn[ino].i)

\* sfs_metaio: one directory entry, inside one block.
EntryWritten(m, ino, pos, entry) ==
    LET w == (pos % BLOCKWORDS) + 1
    IN IF Failed(m) THEN m
       ELSE Grown(sfs_writeblock(m, m.got, [m.disk[m.got] EXCEPT ![w] = entry.ino,
                                                                ![w + 1] = entry.name]),
                  ino, pos + DIRENT)

sfs_metaio(v, ino, slot, entry) ==
    EntryWritten(sfs_bmap(v, ino, (slot * DIRENT) \div BLOCKWORDS, TRUE),
                 ino, slot * DIRENT, entry)

(***************************************************************************)
(* sfs_dir.c.  Slots count from 0; of several free slots the last one is   *)
(* reported.                                                               *)
(***************************************************************************)
DirEntries(v) == Entries(v.disk, v.vn[SFS_ROOTDIR_INO].i)

SlotsIn(es, name) == {s \in DOMAIN es : es[s].ino /= SFS_NOINO /\ es[s].name = name}
SlotsOf(v, name) == SlotsIn(DirEntries(v), name)

\* Each name may appear only once: the code asserts it while it scans.
FoundIn(v, slots) ==
    IF slots = {} THEN WithErr(v, "ENOENT")
    ELSE Got(Die(v, Cardinality(slots) > 1), Max(slots) - 1)
sfs_dir_findname(v, name) == FoundIn(v, SlotsOf(v, name))

\* The last of the free slots, or one more.
FreeIn(es) ==
    LET free == {s \in DOMAIN es : es[s].ino = SFS_NOINO}
    IN IF free = {} THEN Len(es) ELSE Max(free) - 1
FreeSlot(v) == FreeIn(DirEntries(v))

\* The slot is handed back once the entry is on disk.
EntryIn(m, slot) == IF Failed(m) THEN m ELSE Got(m, slot)
PutEntry(v, slot, entry) == EntryIn(sfs_metaio(v, SFS_ROOTDIR_INO, slot, entry), slot)

\* Mutant of sfs_dir_link: the name may already be there.
DirLinkBlind(v, name, ino) == PutEntry(v, FreeSlot(v), [ino |-> ino, name |-> name])

sfs_dir_link(v, name, ino) ==
    CASE SlotsOf(v, name) /= {} -> WithErr(sfs_dir_findname(v, name), "EEXIST")
      [] SlotsOf(v, name) = {} /\ name \in SfNamesLong -> WithErr(v, "ENAMETOOLONG")
      [] OTHER -> PutEntry(v, FreeSlot(v), [ino |-> ino, name |-> name])

sfs_dir_unlink(v, slot) ==
    sfs_metaio(v, SFS_ROOTDIR_INO, slot, [ino |-> SFS_NOINO, name |-> NONAME])

\* The file in the slot v.got, with a reference; a linked file has links.
LoadSlot(v) == sfs_loadvnode(v, DirEntries(v)[v.got + 1].ino, SFS_TYPE_INVAL)
HasLinks(v) == Die(v, v.vn[v.got].i[LINK] = 0)
LoadFound(look) == IF Failed(look) THEN look ELSE HasLinks(LoadSlot(look))

sfs_lookonce(v, name) == LoadFound(sfs_dir_findname(v, name))

(***************************************************************************)
(* sfs_vnops.c: operations on the root directory, which is loaded.  The    *)
(* ones that give a file hand back its inode number with a reference.      *)
(***************************************************************************)
AddLink(v, ino, n) == SetInode(v, ino, LINK, v.vn[ino].i[LINK] + n)

\* The new file INO after sfs_dir_link.
CreatLinked(l, ino) == IF Failed(l) THEN DecrefErr(l, ino) ELSE Got(AddLink(l, ino, 1), ino)
CreatLoaded(new, name) ==
    IF Failed(new) THEN new ELSE CreatLinked(sfs_dir_link(new, name, new.got), new.got)

sfs_creat(v, name, excl) ==
    CASE SlotsOf(v, name) /= {} /\ excl -> WithErr(sfs_dir_findname(v, name), "EEXIST")
      [] SlotsOf(v, name) /= {} /\ ~excl -> LoadSlot(sfs_dir_findname(v, name))
      [] OTHER -> CreatLoaded(sfs_makeobj(v, SFS_TYPE_FILE), name)

sfs_lookup(v, name) == sfs_lookonce(v, name)

AddLinkOk(l, ino) == IF Failed(l) THEN l ELSE AddLink(l, ino, 1)

sfs_link(v, name, ino) ==
    IF v.vn[ino].i[TYPE] = SFS_TYPE_DIR THEN WithErr(v, "EINVAL")
    ELSE AddLinkOk(sfs_dir_link(v, name, ino), ino)

\* The victim INO after sfs_dir_unlink.
RemoveUnlinked(u, ino) ==
    IF Failed(u) THEN DecrefErr(u, ino)
    ELSE Decref(Die(AddLink(u, ino, -1), u.vn[ino].i[LINK] = 0), ino)
RemoveFound(victim, slot) ==
    IF Failed(victim) THEN victim
    ELSE RemoveUnlinked(sfs_dir_unlink(victim, slot), victim.got)

sfs_remove(v, name) == RemoveFound(sfs_lookonce(v, name), sfs_dir_findname(v, name).got)

\* The old name goes only after the new one is on disk; when that fails the new
\* one, in slot SLOT2, goes again.
Undone(w, e) == WithErr(Die(w, Failed(w)), e)
RenameUnlinked(u, ino, slot2) ==
    IF Failed(u)
    THEN DecrefErr(AddLink(Undone(sfs_dir_unlink(WithErr(u, "ok"), slot2), u.err), ino, -1),
                   ino)
    ELSE Decref(Die(AddLink(u, ino, -1), u.vn[ino].i[LINK] = 0), ino)
RenameLinked(l, ino, slot) ==
    IF Failed(l) THEN DecrefErr(l, ino)
    ELSE RenameUnlinked(sfs_dir_unlink(AddLink(l, ino, 1), slot), ino, l.got)
RenameFound(g1, n2, slot) ==
    IF Failed(g1) THEN g1
    ELSE RenameLinked(sfs_dir_link(Die(g1, g1.vn[g1.got].i[TYPE] /= SFS_TYPE_FILE),
                                   n2, g1.got),
                      g1.got, slot)

sfs_rename(v, n1, n2) == RenameFound(sfs_lookonce(v, n1), n2, sfs_dir_findname(v, n1).got)

(***************************************************************************)
(* sfs_fsops.c                                                             *)
(***************************************************************************)
\* Mutant of sfs_sync_freemap: marked clean without being written.
SyncFreemapLost(v) == [v EXCEPT !.mapdirty = FALSE]

\* The bitmap is one block; its write is logged with the set it holds.
sfs_sync_freemap(v) ==
    IF ~v.mapdirty THEN v
    ELSE [v EXCEPT !.dmap = v.map, !.mapdirty = FALSE,
                   !.log = Append(@, [block |-> SFS_FREEMAP_START,
                                      words |-> v.map])]

\* Vnodes in the order of sfs_vnodes, then the bitmap; the superblock is
\* never dirty.
sfs_sync(v) == sfs_sync_freemap(FoldLeft(sfs_sync_inode, v, v.order))

sfs_domount(d) ==
    [disk |-> d.disk, dmap |-> d.dmap, map |-> d.dmap, mapdirty |-> FALSE,
     vn |-> <<>>, order |-> <<>>, log |-> <<>>, err |-> "ok", got |-> 0,
     panic |-> FALSE]

\* Busy while a vnode is loaded; the bitmap must be on disk by then.
Idle(s) == IF s.order /= <<>> THEN WithErr(s, "EBUSY") ELSE Die(s, s.mapdirty)
sfs_unmount(v) == Idle(sfs_sync(v))

(***************************************************************************)
(* A path operation of the VFS layer: the root vnode is loaded for it and  *)
(* released after it, which writes the root inode back when nobody else    *)
(* has the directory open.                                                 *)
(***************************************************************************)
sfs_getroot(v) == sfs_loadvnode(v, SFS_ROOTDIR_INO, SFS_TYPE_INVAL)

DoneRoot(v) == Got(DecrefErr(v, SFS_ROOTDIR_INO), v.got)

\* The call is over: its result has been returned.
Settle(v) == [v EXCEPT !.log = <<>>, !.err = "ok", !.got = 0]
=============================================================================
