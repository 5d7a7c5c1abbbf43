------------------------------- MODULE SfsBlocks -------------------------------
(***************************************************************************)
(* The block map of an SFS file (kern/fs/sfs/sfs_inode.c) and the bitmap   *)
(* of free blocks it takes them from (kern/fs/sfs/bitmap.c).               *)
(*                                                                         *)
(* The operators take and return a context: the inode in memory `sin', the *)
(* free blocks, their number in the superblock and its dirty mark, the     *)
(* contents of the blocks used as indirect blocks, the block found, and    *)
(* the error the code returns or the assertion it fails.                   *)
(* The ram disk does not fail, so the only error is a full disk.           *)
(***************************************************************************)
EXTENDS Naturals, Sequences, FiniteSets

CONSTANTS
    Block,           \* the numbers of the data blocks; 0 is none
    SFS_NDIRECT,
    SFS_BLK_NENTRY

ASSUME BlockAssumption ==
    /\ Block \subseteq Nat \ {0} /\ IsFiniteSet(Block)
    /\ SFS_NDIRECT \in Nat \ {0} /\ SFS_BLK_NENTRY \in Nat \ {0}

\* A file that uses every block of the disk is mapped: so it is for the 117
\* blocks of sfs.img (Makefile:163), and no index is out of range.
ASSUME ImageAssumption == Cardinality(Block) <= SFS_NDIRECT + SFS_BLK_NENTRY

Entries == 0..(SFS_BLK_NENTRY - 1)
Zeros   == [i \in Entries |-> 0]

\* bitmap_alloc takes the lowest free block, sfs_clear_block zeroes it.
BlockAlloc(c) ==
    IF c.free = {} THEN [c EXCEPT !.err = "E_NO_MEM"]
    ELSE LET b == CHOOSE x \in c.free : \A y \in c.free : x <= y
         IN  [c EXCEPT !.free = @ \ {b}, !.unused_blocks = @ - 1, !.super_dirty = TRUE,
                       !.table[b] = Zeros, !.ino = b]

BlockFree(c, b) ==
    [c EXCEPT !.free = @ \cup {b}, !.unused_blocks = @ + 1, !.super_dirty = TRUE]

\* A faulty sfs_bmap_get_sub_nolock: a new indirect block is kept on failure.
GetIndirectNoCleanup(c, i, create) ==
    LET ent  == c.sin.indirect
        tab  == IF ent # 0 THEN [c EXCEPT !.ino = ent] ELSE BlockAlloc(c)
        data == BlockAlloc(tab)
    IN  IF ent # 0 /\ (c.table[ent][i] # 0 \/ ~ create) THEN [c EXCEPT !.ino = c.table[ent][i]]
        ELSE IF ~ create THEN [c EXCEPT !.ino = 0]
        ELSE IF tab.err # "" THEN tab
        ELSE IF data.err # "" THEN data
        ELSE [data EXCEPT !.table[tab.ino][i] = data.ino, !.sin.indirect = tab.ino,
                          !.sin.dirty = @ \/ tab.ino # ent]

\* sfs_bmap_get_sub_nolock on din->indirect, and what its caller does with the
\* new indirect block, which is given back when no data block is left.
GetIndirect(c, i, create) ==
    LET ent  == c.sin.indirect
        tab  == IF ent # 0 THEN [c EXCEPT !.ino = ent] ELSE BlockAlloc(c)
        data == BlockAlloc(tab)
    IN  IF ent # 0 /\ (c.table[ent][i] # 0 \/ ~ create) THEN [c EXCEPT !.ino = c.table[ent][i]]
        ELSE IF ~ create THEN [c EXCEPT !.ino = 0]
        ELSE IF tab.err # "" THEN tab
        ELSE IF data.err # "" THEN IF tab.ino = ent THEN data ELSE BlockFree(data, tab.ino)
        ELSE [data EXCEPT !.table[tab.ino][i] = data.ino, !.sin.indirect = tab.ino,
                          !.sin.dirty = @ \/ tab.ino # ent]

\* sfs_bmap_get_nolock
BmapGet(c, index, create) ==
    IF index < SFS_NDIRECT
    THEN IF c.sin.direct[index] # 0 \/ ~ create
         THEN [c EXCEPT !.ino = c.sin.direct[index]]
         ELSE LET n == BlockAlloc(c)
              IN  IF n.err # "" THEN n
                  ELSE [n EXCEPT !.sin.direct[index] = n.ino, !.sin.dirty = TRUE]
    ELSE IF index - SFS_NDIRECT < SFS_BLK_NENTRY
         THEN GetIndirect(c, index - SFS_NDIRECT, create)
         ELSE [c EXCEPT !.err = "index out of range"]

\* A faulty sfs_bmap_load_nolock: the block is counted before it is there.
BmapLoadCountsFirst(c, index) ==
    LET got == BmapGet(c, index, index = c.sin.blocks)
    IN  IF c.err # "" THEN c
        ELSE IF index > c.sin.blocks THEN [c EXCEPT !.err = "index <= din->blocks"]
        ELSE IF index = c.sin.blocks THEN [got EXCEPT !.sin.blocks = @ + 1]
        ELSE got

\* sfs_bmap_load_nolock: the index behind the last block makes the file grow.
\* Its two assertions stop the kernel.
BmapLoad(c, index) ==
    LET create == index = c.sin.blocks
        got    == BmapGet(c, index, create)
    IN  IF c.err # "" THEN c
        ELSE IF index > c.sin.blocks THEN [c EXCEPT !.err = "index <= din->blocks"]
        ELSE IF got.err # "" THEN got
        ELSE IF got.ino \notin Block \ got.free THEN [got EXCEPT !.err = "sfs_block_inuse"]
        ELSE IF create THEN [got EXCEPT !.sin.blocks = @ + 1]
        ELSE got

\* sfs_bmap_truncate_nolock: give back the last block
BmapTruncate(c) ==
    LET index == c.sin.blocks - 1
        ent   == c.sin.indirect
        ino   == IF index < SFS_NDIRECT THEN c.sin.direct[index]
                 ELSE IF ent = 0 THEN 0
                 ELSE c.table[ent][index - SFS_NDIRECT]
        freed == [IF ino = 0 THEN c ELSE BlockFree(c, ino)
                  EXCEPT !.sin.blocks = index, !.sin.dirty = TRUE]
    IN  IF index < SFS_NDIRECT THEN [freed EXCEPT !.sin.direct[index] = 0]
        ELSE IF ino = 0 THEN freed
        ELSE [freed EXCEPT !.table[ent][index - SFS_NDIRECT] = 0]

\* The loops over blocks: grow up to tblks blocks, shrink down to them
Grow(c, tblks) ==
    LET to[n \in 0..tblks] == IF n <= c.sin.blocks THEN c ELSE BmapLoad(to[n - 1], n - 1)
    IN  to[tblks]
Shrink(c, tblks) ==
    LET to[n \in 0..c.sin.blocks] == IF n = c.sin.blocks THEN c ELSE BmapTruncate(to[n + 1])
    IN  to[tblks]

=============================================================================
