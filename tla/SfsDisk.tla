------------------------------- MODULE SfsDisk -------------------------------
(***************************************************************************)
(* The on-disk format of SFS, shared by the kernel's file system           *)
(* (kern/fs/sfs), mksfs, sfsck and dumpsfs.  A block is a tuple of         *)
(* BLOCKWORDS words, read as an inode, an indirect block, a directory      *)
(* block or file data depending on who reads it, exactly as on a real      *)
(* disk; the free block bitmap (one block here) is kept apart, as the set  *)
(* of the block numbers marked in use.  Sizes and offsets count words.     *)
(***************************************************************************)
EXTENDS Integers, Sequences, SequencesExt, FiniteSetsExt

CONSTANTS
    NBLOCKS,        \* sb_nblocks: the size of the volume
    BLOCKWORDS,     \* SFS_BLOCKSIZE and SFS_DBPERIDB, in words
    SFS_NDIRECT     \* direct block pointers in an inode

SFS_SUPER_BLOCK == 0
SFS_ROOTDIR_INO == 1
SFS_FREEMAP_START == 2
SFS_NOINO == 0
Blocks == 0..NBLOCKS - 1

\* sfi_type
SFS_TYPE_INVAL == 0
SFS_TYPE_FILE == 1
SFS_TYPE_DIR == 2

ZeroBlock == [w \in 1..BLOCKWORDS |-> 0]

(***************************************************************************)
(* struct sfs_dinode: size, type, link count, the direct pointers, the     *)
(* indirect pointer; the rest of the block is sfi_waste.                   *)
(***************************************************************************)
SIZE == 1
TYPE == 2
LINK == 3
Direct(n) == 4 + n
INDIRECT == 4 + SFS_NDIRECT

\* Inode words that point at a block, and the highest file block + 1.
Pointers == {Direct(n) : n \in 0..SFS_NDIRECT - 1} \cup {INDIRECT}
MaxFileBlocks == SFS_NDIRECT + BLOCKWORDS

DivRoundUp(a, b) == (a + b - 1) \div b

(***************************************************************************)
(* struct sfs_direntry is two words, inode number and name; name 0 is the  *)
(* empty string.  A directory block holds PerBlock of them.                *)
(***************************************************************************)
DIRENT == 2
PerBlock == BLOCKWORDS \div DIRENT

NONAME == 0
DOT == 1
DOTDOT == 2

\* The block the FILEBLOCK-th block of inode words I is in; 0 is a hole
\* (bmap of sfsck, sfs_bmap without doalloc in the kernel).
MapBlock(disk, i, fileblock) ==
    CASE fileblock < SFS_NDIRECT -> i[Direct(fileblock)]
      [] fileblock >= MaxFileBlocks -> 0
      [] OTHER -> IF i[INDIRECT] = 0 THEN 0
                  ELSE disk[i[INDIRECT]][fileblock - SFS_NDIRECT + 1]

\* The contents of the file with inode words I: a hole reads as zeros.
Contents(disk, i) ==
    [off \in 0..i[SIZE] - 1 |->
        LET b == MapBlock(disk, i, off \div BLOCKWORDS)
        IN IF b = 0 THEN 0 ELSE disk[b][(off % BLOCKWORDS) + 1]]

\* The directory entries of a directory inode, in slot order.
Entries(disk, i) ==
    LET c == Contents(disk, i)
    IN <<>> \o [s \in 1..i[SIZE] \div DIRENT |->
           [ino |-> c[DIRENT * (s - 1)], name |-> c[DIRENT * (s - 1) + 1]]]

\* Every block the inode with words I refers to, the indirect block too, as
\* a bag: the pairs tell two pointers at one block apart.
PointsAt(disk, i) ==
    {<<p, i[p]>> : p \in {q \in Pointers : i[q] /= 0}} \cup
    (IF i[INDIRECT] = 0 THEN {}
     ELSE {<<INDIRECT + w, disk[i[INDIRECT]][w]>> :
             w \in {x \in 1..BLOCKWORDS : disk[i[INDIRECT]][x] /= 0}})

(***************************************************************************)
(* mksfs: superblock, root inode and bitmap in use, an empty root          *)
(* directory with one link.                                                *)
(***************************************************************************)
initfreemap ==
    {SFS_SUPER_BLOCK, SFS_ROOTDIR_INO, SFS_FREEMAP_START}
writerootdir ==
    [ZeroBlock EXCEPT ![TYPE] = SFS_TYPE_DIR, ![LINK] = 1]
mksfs ==
    [disk |-> [b \in Blocks |->
                 IF b = SFS_ROOTDIR_INO THEN writerootdir ELSE ZeroBlock],
     dmap |-> initfreemap]
=============================================================================
