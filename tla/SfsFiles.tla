------------------------------- MODULE SfsFiles -------------------------------
(***************************************************************************)
(* Regular files on SFS as system calls see them: file_open, file_read,    *)
(* file_write, file_seek, file_fsync and file_close (kern/fs/file.c) with  *)
(* what vfs_open does to the file and everything of sfs_inode.c below,     *)
(* down to the block map of SfsBlocks.                                     *)
(*                                                                         *)
(* The kernel is not preempted and no disk access sleeps, so an operation  *)
(* is one step.  An inode is in memory while some descriptor has it open;  *)
(* sfs_close writes it back and sfs_reclaim forgets it.                    *)
(***************************************************************************)
EXTENDS SfsBlocks, SfsIo

CONSTANTS
    File,
    Desc,            \* the open files (struct file) of all processes
    NULL,
    SFS_MAX_FILE_SIZE,
    OpenFlags,       \* the sets of flags programs open files with
    MAX_LEN          \* bound on the length of one read or write

\* An inode on disk, one in memory, and a struct file
DiskInode == [size : 0..SFS_MAX_FILE_SIZE, blocks : Nat,
              direct : [0..(SFS_NDIRECT - 1) -> Block \cup {0}], indirect : Block \cup {0}]
Inode     == [size : 0..SFS_MAX_FILE_SIZE, blocks : Nat,
              direct : [0..(SFS_NDIRECT - 1) -> Block \cup {0}], indirect : Block \cup {0},
              dirty : BOOLEAN]
OpenFile  == [file : File, pos : 0..SFS_MAX_FILE_SIZE]

ASSUME FileAssumption ==
    /\ IsFiniteSet(File) /\ NULL \notin Inode \cup OpenFile
    /\ OpenFlags \subseteq SUBSET {"O_CREAT", "O_TRUNC", "O_APPEND"}
    /\ SFS_MAX_FILE_SIZE \in Nat \ {0} /\ MAX_LEN \in Nat \ {0}

VARIABLES
    free,            \* the freemap, in memory
    super,           \* of the superblock in memory: unused_blocks, and super_dirty
    image,           \* the freemap and unused_blocks on disk
    table,           \* the entries in the blocks used as indirect blocks
    disk,            \* the inodes on disk
    sins,            \* the inodes in memory: the same fields, and dirty
    fds,             \* the descriptors: file and pos
    panic            \* the assertion that failed, or ""

alloc == <<free, super, table>>
vars == <<alloc, image, disk, sins, fds, panic>>

\* The part of an inode in memory that is stored
Din(sin) == [size |-> sin.size, blocks |-> sin.blocks, direct |-> sin.direct, indirect |-> sin.indirect]

\* sfs_create_inode: what sfs_load_inode makes of the inode on disk
Loaded(din) == [size |-> din.size, blocks |-> din.blocks, direct |-> din.direct,
                indirect |-> din.indirect, dirty |-> FALSE]

\* The assertions, and the one way to end without one
Failed == {"", "initproc exit", "tblks == din->blocks", "index <= din->blocks", "sfs_block_inuse",
           "index out of range"}

\* The type invariant.
TypeOK ==
    /\ free \subseteq Block
    /\ super \in [unused_blocks : Nat, dirty : BOOLEAN]
    /\ image \in [free : SUBSET Block, unused_blocks : Nat]
    /\ table \in [Block -> [Entries -> Block \cup {0}]]
    /\ disk \in [File -> DiskInode]
    /\ sins \in [File -> Inode \cup {NULL}]
    /\ fds \in [Desc -> OpenFile \cup {NULL}]
    /\ \A d \in Desc : fds[d] # NULL => sins[fds[d].file] # NULL
    /\ panic \in Failed

\* mksfs has put empty files on the disk
Init ==
    /\ free = Block
    /\ super = [unused_blocks |-> Cardinality(Block), dirty |-> FALSE]
    /\ image = [free |-> Block, unused_blocks |-> Cardinality(Block)]
    /\ table = [b \in Block |-> Zeros]
    /\ disk = [f \in File |-> [size |-> 0, blocks |-> 0,
                               direct |-> [i \in 0..(SFS_NDIRECT - 1) |-> 0], indirect |-> 0]]
    /\ sins = [f \in File |-> NULL]
    /\ fds = [d \in Desc |-> NULL]
    /\ panic = ""

-----------------------------------------------------------------------------
\* The context of an operation on inode sin, and the state it leaves; `err' is
\* kept only when an assertion failed, an error goes back to the caller.  An
\* action binds the context it ends with to a variable.
Context(sin) == [sin |-> sin, free |-> free, unused_blocks |-> super.unused_blocks,
                 super_dirty |-> super.dirty, table |-> table, ino |-> 0, err |-> ""]

Commit(f, c) ==
    /\ free' = c.free /\ table' = c.table
    /\ super' = [unused_blocks |-> c.unused_blocks, dirty |-> c.super_dirty]
    /\ sins' = [sins EXCEPT ![f] = c.sin]
    /\ panic' = IF c.err = "E_NO_MEM" THEN "" ELSE c.err

Blocks(len) == (len + SFS_BLKSIZE - 1) \div SFS_BLKSIZE

\* sfs_truncfile
Truncfile(c, len) ==
    IF c.sin.size = len
    THEN IF Blocks(len) = c.sin.blocks THEN c ELSE [c EXCEPT !.err = "tblks == din->blocks"]
    ELSE LET n == IF c.sin.blocks <= Blocks(len) THEN Grow(c, Blocks(len)) ELSE Shrink(c, Blocks(len))
         IN  IF n.err # "" THEN n ELSE [n EXCEPT !.sin.size = len, !.sin.dirty = TRUE]

\* sfs_io_nolock after its checks, for a range that is not empty: one access
\* after the other until one fails.  A write that is cut short keeps what is
\* written, and the size follows it.
SfsIo(c, offset, endpos) ==
    LET ps   == Pieces(offset, endpos)
        step[i \in 0..Len(ps)] ==
            IF i = 0 THEN [c |-> c, alen |-> 0]
            ELSE LET done == step[i - 1]
                     n    == BmapLoad(done.c, ps[i].blk)
                 IN  [c |-> n, alen |-> done.alen + (IF n.err = "" THEN ps[i].size ELSE 0)]
        last == step[Len(ps)]
        size == last.c.sin.size
    IN  [alen |-> last.alen,
         c |-> IF last.c.err \in {"", "E_NO_MEM"} /\ offset + last.alen > size
               THEN [last.c EXCEPT !.sin.size = offset + last.alen, !.sin.dirty = TRUE]
               ELSE last.c]

\* endpos, bounded by the largest size for a write, by din->size for a read
UpTo(pos, n, limit) == IF pos + n > limit THEN limit ELSE pos + n

-----------------------------------------------------------------------------
\* Descriptors are opened O_RDWR.
Free(d) == panic = "" /\ fds[d] = NULL
Opened(d) == panic = "" /\ fds[d] # NULL
Sin(f) == IF sins[f] = NULL THEN Loaded(disk[f]) ELSE sins[f]

\* file_open of a file that exists: vfs_open truncates it for O_CREAT too.
Open(d, f, flags) ==
    /\ Free(d)
    /\ \E c \in {IF {"O_TRUNC", "O_CREAT"} \cap flags # {}
                THEN Truncfile(Context(Sin(f)), 0) ELSE Context(Sin(f))} :
          /\ Commit(f, c)
          /\ fds' = [fds EXCEPT ![d] = [file |-> f,
                                        pos |-> IF "O_APPEND" \in flags THEN c.sin.size ELSE 0]]
    /\ UNCHANGED <<disk, image>>

\* sfs_io: the transfer, and the position behind it
Transfer(d, n, limit) ==
    \E io \in {SfsIo(Context(sins[fds[d].file]), fds[d].pos, UpTo(fds[d].pos, n, limit))} :
        /\ Commit(fds[d].file, io.c)
        /\ fds' = [fds EXCEPT ![d].pos = @ + io.alen]

\* file_write of n bytes at the descriptor's position
Write(d, n) ==
    /\ Opened(d) /\ fds[d].pos < SFS_MAX_FILE_SIZE
    /\ Transfer(d, n, SFS_MAX_FILE_SIZE)
    /\ UNCHANGED <<disk, image>>

\* file_read, up to the end of the file
Read(d, n) ==
    /\ Opened(d) /\ fds[d].pos < sins[fds[d].file].size
    /\ Transfer(d, n, sins[fds[d].file].size)
    /\ UNCHANGED <<disk, image>>

\* file_seek to any position: sfs_tryseek grows the file up to it.
Seek(d, pos) ==
    /\ Opened(d)
    /\ \E f \in {fds[d].file} :
       \E c \in {IF pos > sins[f].size THEN Truncfile(Context(sins[f]), pos) ELSE Context(sins[f])} :
          /\ Commit(f, c)
          /\ fds' = IF c.err = "" THEN [fds EXCEPT ![d].pos = pos] ELSE fds
    /\ UNCHANGED <<disk, image>>

\* A faulty sfs_fsync: it clears dirty and writes nothing.
StoredNever(F) == disk

\* sfs_fsync on the files F writes those inodes in memory that are dirty.
Stored(F) == [f \in File |-> IF f \in F /\ sins[f] # NULL /\ sins[f].dirty THEN Din(sins[f]) ELSE disk[f]]

Fsync(d) ==
    /\ Opened(d)
    /\ disk' = Stored({fds[d].file})
    /\ sins' = [sins EXCEPT ![fds[d].file].dirty = FALSE]
    /\ UNCHANGED <<alloc, image, fds, panic>>

\* inode_open_dec and inode_ref_dec reach 0: d is the last on its file.
ClosesLast(d) == \A e \in Desc \ {d} : fds[e] = NULL \/ fds[e].file # fds[d].file

\* file_close: with the last descriptor sfs_close stores the inode and
\* sfs_reclaim drops it.
Close(d) ==
    /\ Opened(d)
    /\ LET f == fds[d].file
       IN  IF ClosesLast(d) THEN disk' = Stored({f}) /\ sins' = [sins EXCEPT ![f] = NULL]
           ELSE UNCHANGED <<disk, sins>>
    /\ fds' = [fds EXCEPT ![d] = NULL]
    /\ UNCHANGED <<alloc, image, panic>>

\* fs_cleanup, by init_main when the last process has gone: sfs_sync, and what
\* is in memory goes with the kernel.  The descriptors left are those of
\* processes do_exit could not close them for.
Cleanup ==
    /\ panic = "" /\ panic' = "initproc exit"
    /\ disk' = Stored(File)
    /\ image' = IF super.dirty THEN [free |-> free, unused_blocks |-> super.unused_blocks] ELSE image
    /\ super' = [super EXCEPT !.dirty = FALSE]
    /\ sins' = [f \in File |-> NULL] /\ fds' = [d \in Desc |-> NULL]
    /\ UNCHANGED <<free, table>>

\* A failed assertion, or the exit of init, has stopped the kernel.
Stopped == panic # "" /\ UNCHANGED vars

Next == \/ Stopped \/ Cleanup
        \/ \E d \in Desc :
              \/ \E f \in File, flags \in OpenFlags : Open(d, f, flags)
              \/ \E n \in 1..MAX_LEN : Write(d, n) \/ Read(d, n)
              \/ \E pos \in 0..(SFS_MAX_FILE_SIZE - 1) : Seek(d, pos)
              \/ Fsync(d) \/ Close(d)

Spec == Init /\ [][Next]_vars

=============================================================================
