------------------------------- MODULE SfsProps -------------------------------
(* What the files of SfsFiles may rely on.                                 *)
EXTENDS SfsFiles

\* Where a file's inode points: its blocks in order, then the indirect block
Slots == 0..(SFS_NDIRECT + SFS_BLK_NENTRY)
At(f, k) ==
    LET sin == Sin(f)
    IN  IF k < SFS_NDIRECT THEN sin.direct[k]
        ELSE IF k = SFS_NDIRECT + SFS_BLK_NENTRY THEN sin.indirect
        ELSE IF sin.indirect = 0 THEN 0
        ELSE table[sin.indirect][k - SFS_NDIRECT]

\* No block is lost and none is in two files, at two places of one file, or
\* free and in a file: not after a full disk stopped an operation half way,
\* and not when the inode is loaded again from what sfs_fsync stored.  The
\* superblock counts the free blocks.  fs_cleanup leaves all of it on the disk,
\* the inodes, the freemap and the count: it passes the assertion with which
\* sfs_do_mount receives it.
BlocksExact ==
    /\ \A b \in Block :
          Cardinality({s \in File \X Slots : At(s[1], s[2]) = b}) = (IF b \in free THEN 0 ELSE 1)
    /\ super.unused_blocks = Cardinality(free)
    /\ panic = "initproc exit" => image = [free |-> free, unused_blocks |-> Cardinality(free)]

\* A file has its first din->blocks blocks, without a hole: the assertion at
\* the end of sfs_bmap_load_nolock holds for whoever reads it, and with an
\* image of the size ImageAssumption gives, the disk is full before an index
\* is out of the range of the block map.
NoHoles ==
    /\ \A f \in File : \A k \in 0..(Sin(f).blocks - 1) : At(f, k) # 0
    /\ panic \notin {"sfs_block_inuse", "index out of range"}

\* sfs_io_nolock transfers every byte of a request at the position of a
\* descriptor once and in order, whether it starts, ends or stays in the middle
\* of a block, and each access stays inside one block.
RequestCovered ==
    \A d \in Desc : fds[d] # NULL =>
        \A endpos \in (fds[d].pos + 1)..SFS_MAX_FILE_SIZE :
        LET ps       == Pieces(fds[d].pos, endpos)
            Start(p) == p.blk * SFS_BLKSIZE + p.off
            End(p)   == Start(p) + p.size
        IN  /\ Start(ps[1]) = fds[d].pos /\ End(ps[Len(ps)]) = endpos
            /\ \A i \in 2..Len(ps) : Start(ps[i]) = End(ps[i - 1])
            /\ \A i \in DOMAIN ps : ps[i].size > 0 /\ ps[i].off + ps[i].size <= SFS_BLKSIZE

\* The last close of a file, and fs_cleanup for one that is never closed,
\* stores all of it that a later open needs.  It may miss a rise of
\* din->blocks, for which sfs_bmap_load_nolock does not set dirty: the block is
\* in the indirect block, where growing finds it again.
ClosedIsStored ==
    [][\A f \in File : sins[f] # NULL /\ (sins'[f] = NULL \/ panic' = "initproc exit") =>
          /\ disk'[f].size = sins[f].size
          /\ disk'[f].direct = sins[f].direct /\ disk'[f].indirect = sins[f].indirect]_vars

=============================================================================
