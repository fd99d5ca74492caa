------------------------------- MODULE Sfsck -------------------------------
(***************************************************************************)
(* userland/sbin/sfsck: the file system checker.  It is sequential, so the *)
(* whole run is a function on the volume; its parts keep the names they    *)
(* have in the code.  The state K of a run is                              *)
(*   k.disk, k.dmap      the volume it is repairing                        *)
(*   k.inuse, k.tofree   freemapdata and tofreedata, as sets of blocks     *)
(*   k.inodes            the inode table: type, links counted, visited     *)
(*   k.uniq              uniqueid()                                        *)
(*   k.bad               why EXIT_UNRECOV was set: "crosslink" a block     *)
(*                       used twice, "sparse" a directory hole, "nodot" no *)
(*                       room for . or .., "dead" an assertion or errx     *)
(*   k.fixed             EXIT_RECOV was set: something was repaired        *)
(***************************************************************************)
EXTENDS SfsDisk

FsckNameBase == 100
FsckName(k, ino) == FsckNameBase + 10 * ino + k.uniq

Bad(k, cond, why) == [k EXCEPT !.bad = IF cond THEN @ \cup {why} ELSE @]
Fixed(k, cond) == [k EXCEPT !.fixed = @ \/ cond]
Dead(k) == "dead" \in k.bad
PutBlock(k, b, words) == [k EXCEPT !.disk[b] = words]

(***************************************************************************)
(* freemap.c.  A block found in use twice is reported and left alone; a    *)
(* block that is freed stays in use when somebody else has it.             *)
(***************************************************************************)
freemap_blockinuse(k, b) ==
    Bad([k EXCEPT !.inuse = @ \cup {b}, !.tofree = @ \ {b}],
        b \in k.inuse, "crosslink")

freemap_blockfree(k, b) ==
    IF b \in k.inuse THEN k ELSE [k EXCEPT !.tofree = @ \cup {b}]

freemap_setup(d) ==
    [disk |-> d.disk, dmap |-> d.dmap, tofree |-> {},
     inuse |-> {SFS_SUPER_BLOCK, SFS_FREEMAP_START},
     inodes |-> <<>>, uniq |-> 0, bad |-> {}, fixed |-> FALSE]

freemap_check(k) ==
    Fixed([k EXCEPT !.dmap = k.inuse], k.dmap \ k.tofree /= k.inuse)

(***************************************************************************)
(* pass1.c: the blocks of an inode.  FB is the file block the pointer is   *)
(* for; a pointer outside the volume or past the end of the file goes.     *)
(* The result pairs the run with the pointer to keep.                      *)
(***************************************************************************)
CheckPointer(k, b, fb, fileblocks) ==
    CASE b >= NBLOCKS -> <<Fixed(k, TRUE), 0>>
      [] b = 0 -> <<k, 0>>
      [] 0 < b /\ b < NBLOCKS /\ fb < fileblocks -> <<freemap_blockinuse(k, b), b>>
      [] OTHER -> <<Fixed(freemap_blockfree(k, b), TRUE), 0>>

\* The word P of WORDS holds the pointer for file block FB.
CheckWord(kw, p, fb, fileblocks) ==
    LET r == CheckPointer(kw[1], kw[2][p], fb, fileblocks)
    IN <<r[1], [kw[2] EXCEPT ![p] = r[2]]>>

\* An indirect block left without entries is dropped from the inode I; R is the
\* run and the block after its words were checked.
IndirectChecked(r, i, id, old) ==
    IF r[2] = ZeroBlock
    THEN <<Fixed(freemap_blockfree(r[1], id), TRUE), [i EXCEPT ![INDIRECT] = 0]>>
    ELSE <<IF r[2] = old THEN r[1] ELSE PutBlock(r[1], id, r[2]), i>>

check_indirect_block(kw, fileblocks) ==
    LET k == kw[1]
        id == kw[2][INDIRECT]
        old == k.disk[id]
    IN CASE id = 0 -> kw
         [] id >= NBLOCKS -> <<Fixed(k, TRUE), [kw[2] EXCEPT ![INDIRECT] = 0]>>
         [] OTHER ->
            IndirectChecked(FoldLeft(LAMBDA acc, w : CheckWord(acc, w, SFS_NDIRECT + w - 1,
                                                               fileblocks),
                                     <<freemap_blockinuse(k, id), old>>,
                                     SetToSortSeq(1..BLOCKWORDS, <)),
                            kw[2], id, old)

check_inode_blocks(k, i) ==
    LET fileblocks == DivRoundUp(i[SIZE], BLOCKWORDS)
        d == FoldLeft(LAMBDA acc, n : CheckWord(acc, Direct(n), n, fileblocks),
                      <<k, i>>, SetToSortSeq(0..SFS_NDIRECT - 1, <))
    IN check_indirect_block(d, fileblocks)

\* sfi_waste is kept zero.
ClearWaste(i) == [w \in 1..BLOCKWORDS |-> IF w > INDIRECT THEN 0 ELSE i[w]]

InodeChecked(r, ino, i, changed) ==
    <<IF r[2] /= i \/ changed THEN PutBlock(r[1], ino, r[2]) ELSE r[1], r[2], FALSE>>

\* Only the first visit counts the inode's blocks; I may already be changed.
pass1_inode(k, ino, i, changed) ==
    LET new == [type |-> i[TYPE], link |-> 0, visited |-> FALSE]
        k1 == freemap_blockinuse([k EXCEPT !.inodes =
                 [n \in DOMAIN @ \cup {ino} |-> IF n = ino THEN new ELSE @[n]]],
                 ino)
    IN IF ino \in DOMAIN k.inodes
       THEN <<Bad(k, k.inodes[ino].type /= i[TYPE] \/ changed, "dead"), i, TRUE>>
       ELSE InodeChecked(check_inode_blocks(Fixed(k1, ClearWaste(i) /= i), ClearWaste(i)),
                         ino, i, changed)

(***************************************************************************)
(* sfs_writedir: the entries go back to the directory's blocks, the rest   *)
(* of the last block zeroed; a hole cannot take an entry.                  *)
(***************************************************************************)
DirWords(es, fb) ==
    [w \in 1..BLOCKWORDS |->
        LET s == fb * PerBlock + (w - 1) \div DIRENT + 1
        IN IF s > Len(es) THEN 0
           ELSE IF (w - 1) % DIRENT = 0 THEN es[s].ino ELSE es[s].name]

sfs_writedir(k, i, es) ==
    LET One(u, fb) ==
          LET b == MapBlock(u.disk, i, fb)
          IN IF b = 0 THEN Bad(u, DirWords(es, fb) /= ZeroBlock, "sparse")
             ELSE PutBlock(u, b, DirWords(es, fb))
    IN FoldLeft(One, k, SetToSortSeq(0..DivRoundUp(Len(es), PerBlock) - 1, <))

pass1_direntry(ke, s) ==
    LET k == ke[1]
        e == ke[2][s]
        free == [ino |-> SFS_NOINO, name |-> NONAME]
    IN CASE e = free -> ke
         [] e /= free /\ (e.ino = SFS_NOINO \/ e.ino >= NBLOCKS) ->
            <<Fixed(k, TRUE), [ke[2] EXCEPT ![s] = free]>>
         [] e.ino \in 1..NBLOCKS - 1 /\ e.name = NONAME ->
            <<Fixed([k EXCEPT !.uniq = @ + 1], TRUE),
              [ke[2] EXCEPT ![s].name = FsckName(k, e.ino)]>>
         [] OTHER -> ke

RECURSIVE pass1_dir(_, _)

\* The object an entry names: files and directories are checked, an object
\* of any other type loses its name.
Pass1Object(ke, s) ==
    LET k == ke[1]
        e == ke[2][s]
        i == k.disk[e.ino]
        free == [ino |-> SFS_NOINO, name |-> NONAME]
    IN CASE e.ino = SFS_NOINO \/ e.name \in {DOT, DOTDOT} \/ Dead(k) -> ke
         [] OTHER ->
            CASE i[TYPE] = SFS_TYPE_FILE -> <<pass1_inode(k, e.ino, i, FALSE)[1], ke[2]>>
              [] i[TYPE] = SFS_TYPE_DIR -> <<pass1_dir(k, e.ino), ke[2]>>
              [] OTHER -> <<Fixed(k, TRUE), [ke[2] EXCEPT ![s] = free]>>

DirWritten(ke, i, es) ==
    IF ke[2] /= es /\ ~Dead(ke[1]) THEN sfs_writedir(ke[1], i, ke[2]) ELSE ke[1]

\* The entries of the directory, after its inode was checked.
Pass1Entries(k, i, es) ==
    LET slots == SetToSortSeq(DOMAIN es, <)
    IN DirWritten(FoldLeft(Pass1Object, FoldLeft(pass1_direntry, <<k, es>>, slots), slots),
                  i, es)
DirInodeChecked(p) ==
    IF p[3] \/ Dead(p[1]) THEN p[1] ELSE Pass1Entries(p[1], p[2], Entries(p[1].disk, p[2]))

pass1_dir(k, ino) ==
    LET i0 == k.disk[ino]
        i == [i0 EXCEPT ![SIZE] = DIRENT * DivRoundUp(@, DIRENT)]
    IN DirInodeChecked(pass1_inode(Fixed(k, i /= i0), ino, i, i /= i0))

pass1(k) ==
    LET i == k.disk[SFS_ROOTDIR_INO]
    IN pass1_dir(IF i[TYPE] = SFS_TYPE_DIR THEN k
                 ELSE Fixed(PutBlock(k, SFS_ROOTDIR_INO,
                                     [i EXCEPT ![TYPE] = SFS_TYPE_DIR]), TRUE),
                 SFS_ROOTDIR_INO)

(***************************************************************************)
(* inode.c                                                                 *)
(***************************************************************************)
inode_addlink(k, ino) ==
    IF ino \in DOMAIN k.inodes /\ k.inodes[ino].type = SFS_TYPE_FILE
    THEN [k EXCEPT !.inodes[ino].link = @ + 1]
    ELSE Bad(k, TRUE, "dead")

\* Mutant of inode_adjust_filelinks: a count that is too high stays.
AdjustOnlyUp(k) ==
    LET One(u, ino) ==
          IF u.inodes[ino].type = SFS_TYPE_FILE /\ u.disk[ino][LINK] < u.inodes[ino].link
          THEN PutBlock(u, ino, [u.disk[ino] EXCEPT ![LINK] = u.inodes[ino].link])
          ELSE u
    IN FoldLeft(One, k, SetToSortSeq(DOMAIN k.inodes, <))

inode_adjust_filelinks(k) ==
    LET One(u, ino) ==
          CASE Dead(u) \/ u.inodes[ino].type = SFS_TYPE_DIR -> u
            [] u.inodes[ino].type /= SFS_TYPE_DIR /\
               (u.inodes[ino].link = 0 \/ u.disk[ino][TYPE] /= SFS_TYPE_FILE) ->
               Bad(u, TRUE, "dead")
            [] OTHER ->
               Fixed(PutBlock(u, ino, [u.disk[ino] EXCEPT ![LINK] = u.inodes[ino].link]),
                     u.disk[ino][LINK] /= u.inodes[ino].link)
    IN FoldLeft(One, k, SetToSortSeq(DOMAIN k.inodes, <))

(***************************************************************************)
(* pass2.c.  Of two entries with one name and one inode the first goes; if *)
(* the inodes differ it is renamed.  SORTED lists the slots by name, the   *)
(* free ones last.                                                         *)
(***************************************************************************)
sfsdir_sort(es) ==
    LET Key(s) == IF es[s].ino = SFS_NOINO THEN FsckNameBase * FsckNameBase
                  ELSE es[s].name
    IN SetToSortSeq(DOMAIN es, LAMBDA a, b : Key(a) < Key(b) \/ (Key(a) = Key(b) /\ a < b))

Pass2Duplicate(ke, ab) ==
    LET k == ke[1]
        d1 == ke[2][ab[1]]
        d2 == ke[2][ab[2]]
    IN CASE d1.ino = SFS_NOINO \/ d2.ino = SFS_NOINO \/ d1.name /= d2.name -> ke
         [] OTHER ->
            IF d1.ino = d2.ino
            THEN <<Fixed(k, TRUE),
                   [ke[2] EXCEPT ![ab[1]] = [ino |-> SFS_NOINO, name |-> NONAME]]>>
            ELSE <<Fixed([k EXCEPT !.uniq = @ + 1], TRUE),
                   [ke[2] EXCEPT ![ab[1]].name = FsckName(k, d1.ino)]>>

\* Mutant of AddDot: the entry is added without looking for one.
AddDotBlind(ke, name, ino) ==
    LET es == ke[2]
    IN IF Len(es) % PerBlock /= 0
       THEN <<Fixed(ke[1], TRUE), Append(es, [ino |-> ino, name |-> name])>>
       ELSE <<Bad(ke[1], TRUE, "nodot"), es>>

\* The . or .. entry: corrected if it is there, else sfsdir_tryadd among the
\* existing slots, else in the room left in the last block.
AddDot(ke, name, ino) ==
    LET es == ke[2]
        e == [ino |-> ino, name |-> name]
        free == {s \in DOMAIN es : es[s].ino = SFS_NOINO}
    IN CASE \E s \in DOMAIN es : es[s].name = name ->
            LET s == CHOOSE t \in DOMAIN es : es[t].name = name
            IN <<Fixed(ke[1], es[s].ino /= ino), [es EXCEPT ![s] = e]>>
         [] (\A s \in DOMAIN es : es[s].name /= name) /\ free /= {} ->
            <<Fixed(ke[1], TRUE), [es EXCEPT ![Min(free)] = e]>>
         [] OTHER -> IF Len(es) % PerBlock /= 0
                     THEN <<Fixed(ke[1], TRUE), Append(es, e)>>
                     ELSE <<Bad(ke[1], TRUE, "nodot"), es>>

RECURSIVE pass2_dir(_, _, _)

\* The subdirectory in slot S was visited: SUB says whether to remove it.
SubVisited(sub, kes, s) ==
    IF sub[2]
    THEN <<Fixed(sub[1], TRUE),
           [kes[2] EXCEPT ![s] = [ino |-> SFS_NOINO, name |-> NONAME]], kes[3]>>
    ELSE <<sub[1], kes[2], kes[3] + 1>>

Pass2Object(kes, s, ino) ==
    LET k == kes[1]
        e == kes[2][s]
        type == k.disk[e.ino][TYPE]
        free == [ino |-> SFS_NOINO, name |-> NONAME]
    IN CASE e.ino = SFS_NOINO \/ e.name \in {DOT, DOTDOT} \/ Dead(k) -> kes
         [] OTHER ->
            CASE type = SFS_TYPE_FILE -> <<inode_addlink(k, e.ino), kes[2], kes[3]>>
              [] type = SFS_TYPE_DIR -> SubVisited(pass2_dir(k, e.ino, ino), kes, s)
              [] OTHER -> <<Fixed(k, TRUE), [kes[2] EXCEPT ![s] = free], kes[3]>>

\* The entries that are left and the number of subdirectories decide size and
\* link count.
Pass2Written(r, ino, i, es) ==
    LET i2 == [i EXCEPT ![SIZE] = DIRENT * Len(r[2]), ![LINK] = r[3] + 2]
        k == Fixed(r[1], i2 /= i)
        w == IF r[2] /= es THEN sfs_writedir(k, i2, r[2]) ELSE k
    IN IF Dead(r[1]) THEN r[1]
       ELSE IF i2 /= i THEN PutBlock(w, ino, i2) ELSE w

Pass2Entries(ke, ino) ==
    FoldLeft(LAMBDA acc, s : Pass2Object(acc, s, ino), <<ke[1], ke[2], 0>>,
             SetToSortSeq(DOMAIN ke[2], <))

\* The second component tells the caller to remove a crosslinked directory.
pass2_dir(k, ino, parentino) ==
    LET i == k.disk[ino]
        es == Entries(k.disk, i)
        order == sfsdir_sort(es)
        r == FoldLeft(Pass2Duplicate, <<[k EXCEPT !.inodes[ino].visited = TRUE], es>>,
                      [n \in 1..Len(order) - 1 |-> <<order[n], order[n + 1]>>])
    IN IF ino \notin DOMAIN k.inodes \/ k.inodes[ino].type /= SFS_TYPE_DIR
       THEN <<Bad(k, TRUE, "dead"), FALSE>>
       ELSE IF k.inodes[ino].visited THEN <<k, TRUE>>
       ELSE <<Pass2Written(Pass2Entries(AddDot(AddDot(r, DOT, ino), DOTDOT, parentino), ino),
                           ino, i, es), FALSE>>

(***************************************************************************)
(* main of sfsck: three phases, the bitmap rewritten after the first.      *)
(***************************************************************************)
Phase3(k) == IF Dead(k) THEN k ELSE inode_adjust_filelinks(k)
Phase2(k) ==
    IF Dead(k) THEN k
    ELSE Phase3(pass2_dir(freemap_check(k), SFS_ROOTDIR_INO, SFS_ROOTDIR_INO)[1])
sfsck(d) == Phase2(pass1(freemap_setup(d)))
=============================================================================
