--------------------------------- MODULE SfsIo ---------------------------------
(***************************************************************************)
(* How sfs_io_nolock (kern/fs/sfs/sfs_inode.c) cuts a read or write of the *)
(* bytes from offset to endpos into accesses to single blocks: the end of  *)
(* a first block, whole blocks, the start of a last block.                 *)
(***************************************************************************)
EXTENDS Naturals, Sequences

CONSTANT SFS_BLKSIZE

ASSUME BlockSizeAssumption == SFS_BLKSIZE \in Nat \ {0}

\* One call of sfs_buf_op or sfs_block_op: size bytes of block blk from off on
Piece(blk, off, size) == [blk |-> blk, off |-> off, size |-> size]

\* nblks: the whole blocks, and the first one when the range leaves it
Span(offset, endpos) == (endpos \div SFS_BLKSIZE) - (offset \div SFS_BLKSIZE)

\* (1) the part of a first block that does not start at its beginning
FirstPart(offset, endpos) ==
    LET blkoff == offset % SFS_BLKSIZE
    IN  IF blkoff = 0 THEN <<>>
        ELSE <<Piece(offset \div SFS_BLKSIZE, blkoff,
                     IF Span(offset, endpos) # 0 THEN SFS_BLKSIZE - blkoff ELSE endpos - offset)>>

\* A faulty loop: the first block is counted again.
WholePartAgain(offset, endpos) ==
    [i \in 1..Span(offset, endpos) |-> Piece((offset \div SFS_BLKSIZE) + i - 1, 0, SFS_BLKSIZE)]

\* (2) the blocks that are read or written as a whole
WholePart(offset, endpos) ==
    LET done  == Len(FirstPart(offset, endpos))
        nblks == Span(offset, endpos)
    IN  [i \in 1..(IF nblks = 0 THEN 0 ELSE nblks - done) |->
            Piece((offset \div SFS_BLKSIZE) + done + i - 1, 0, SFS_BLKSIZE)]

\* (3) what is left, in the block after those
LastPart(offset, endpos, alen, blkno) ==
    IF alen < endpos - offset THEN <<Piece(blkno, 0, endpos - offset - alen)>> ELSE <<>>

Pieces(offset, endpos) ==
    LET first == FirstPart(offset, endpos)
        whole == WholePart(offset, endpos)
        alen  == (IF first = <<>> THEN 0 ELSE first[1].size) + SFS_BLKSIZE * Len(whole)
        blkno == (offset \div SFS_BLKSIZE) + Len(first) + Len(whole)
    IN  first \o whole \o LastPart(offset, endpos, alen, blkno)

=============================================================================
