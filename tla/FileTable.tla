------------------------------- MODULE FileTable -------------------------------
(***************************************************************************)
(* Descriptors, working directories and the inodes they keep in memory:    *)
(* kern/fs/file.c and fs.c, vfs_open and vfs_close of kern/fs/vfs, and     *)
(* what fork, exec and exit of kern/process/proc.c do to them.             *)
(*                                                                         *)
(* A table belongs to one process (nothing passes CLONE_FS) and no call    *)
(* but a read of stdin gives up the CPU, so every other call is one step.  *)
(* read, write, seek, fstat and fsync acquire and release their slot and   *)
(* leave both counts where they were; what they do is in SfsFiles.         *)
(***************************************************************************)
EXTENDS Naturals, FiniteSets, Functions

CONSTANTS
    Proc, initproc,  \* the processes, and the one that runs init_main
    Regular,         \* the inodes of regular files
    Device,          \* the inodes of character devices
    root, stdin,     \* the inode of the root directory; that of stdin:
    NULL,
    NENTRY,          \* FILES_STRUCT_NENTRY
    Requests,        \* what programs pass to open()
    MAX_LOST         \* bound on the references that are never given back

Node == Regular \cup Device \cup {root}
Fd   == 0..(NENTRY - 1)

\* Assumed of every instance.
FileTableAssumption ==
    /\ IsFiniteSet(Proc) /\ initproc \in Proc /\ stdin \in Device
    /\ root \notin Regular \cup Device /\ NULL \notin Node \cup Fd
    /\ NENTRY \in Nat \ {0, 1, 2} /\ MAX_LOST \in Nat
    /\ Requests \subseteq [node : Node \cup {NULL}, acc : {"RDONLY", "WRONLY", "RDWR"},
                           flags : SUBSET {"CREAT", "EXCL", "TRUNC", "APPEND"}]

VARIABLES
    fd_array,        \* the slots of each process: status, node and open_count
    pwd,             \* filesp->pwd
    mode,            \* "none", "kernel": without an address space, or "user"
    reading,         \* the descriptor of stdin a process is blocked in, or NULL
    ref_count, open_count,
    lost_refs,       \* history: references nobody can give back any more
    lost_opens       \* history: the same for open_count

counts == <<ref_count, open_count, lost_refs, lost_opens>>
vars == <<fd_array, pwd, mode, reading, counts>>

FreeSlot  == [status |-> "NONE", node |-> NULL, open_count |-> 0]
NewSlot(n) == [status |-> "OPENED", node |-> n, open_count |-> 1]
Empty == [fd \in Fd |-> FreeSlot]

Init ==
    /\ fd_array = [p \in Proc |-> Empty]
    /\ pwd = [p \in Proc |-> NULL]
    /\ mode = [p \in Proc |-> IF p = initproc THEN "kernel" ELSE "none"]
    /\ reading = [p \in Proc |-> NULL]
    /\ ref_count = [n \in Node |-> IF n \in Device THEN 1 ELSE 0]
    /\ open_count = [n \in Node |-> 0]
    /\ lost_refs = [n \in Node |-> 0]
    /\ lost_opens = [n \in Node |-> 0]

-----------------------------------------------------------------------------
\* Counting: how often each inode is open in the slots F of a table, and is d.
Opens(table, F) ==
    [n \in Node |-> Cardinality({fd \in F : table[fd].status = "OPENED" /\ table[fd].node = n})]
Is(d) == [n \in Node |-> IF n = d THEN 1 ELSE 0]
Nothing == Is(NULL)
Plus(f, g) == [n \in Node |-> f[n] + g[n]]
Minus(f, g) == [n \in Node |-> f[n] - g[n]]

Lost == SumFunction(lost_refs)

\* vop_ref_inc, vop_open_inc and their opposites for the references r and opens o
Count(r, o) ==
    /\ ref_count' = Plus(ref_count, r)
    /\ open_count' = Plus(open_count, o)
    /\ UNCHANGED <<lost_refs, lost_opens>>
Uncount(r, o) ==
    /\ ref_count' = Minus(ref_count, r)
    /\ open_count' = Minus(open_count, o)
    /\ UNCHANGED <<lost_refs, lost_opens>>

\* Nobody will undo r and o: the slots, or the pointer, are gone.
Lose(r, o) ==
    /\ Lost < MAX_LOST
    /\ lost_refs' = Plus(lost_refs, r)
    /\ lost_opens' = Plus(lost_opens, o)

\* fd_array_close of an open slot: with a call in progress on it, it is closed
\* and not yet free.
CloseSlot(s) ==
    IF s.open_count = 1 THEN FreeSlot
    ELSE [s EXCEPT !.status = "CLOSED", !.open_count = @ - 1]

CloseSlots(table, F) ==
    [fd \in Fd |-> IF fd \in F /\ table[fd].status = "OPENED" THEN CloseSlot(table[fd])
                                                              ELSE table[fd]]

\* dup_files: an open slot of the parent is an open slot of the child.
DupFiles(table) ==
    [fd \in Fd |-> IF table[fd].status = "OPENED" THEN NewSlot(table[fd].node) ELSE FreeSlot]

\* fd_array_alloc(NO_FD): the lowest free slot
Unused(table) == {fd \in Fd : table[fd].status = "NONE"}
Lowest(F) == CHOOSE fd \in F : \A other \in F : fd <= other

\* What a process holds through its table and its working directory
Holds(p, table) == Plus(Opens(table, Fd), Is(pwd[p]))

\* vfs_close of the slots of F that become free: those no call is using
Frees(table, F) == {fd \in F : table[fd].open_count = 1}

\* put_files, the last act of a process that exits in good order, where its
\* table is `table'; files_destroy asserts that every slot is free then.
PutFiles(p, table) ==
    /\ Uncount(Plus(Opens(table, Frees(table, Fd)), Is(pwd[p])), Opens(table, Frees(table, Fd)))
    /\ fd_array' = [fd_array EXCEPT ![p] = CloseSlots(table, Fd)]
    /\ pwd' = [pwd EXCEPT ![p] = NULL]

Gone(p) == mode' = [mode EXCEPT ![p] = "none"] /\ reading' = [reading EXCEPT ![p] = NULL]

Runs(p) == mode[p] = "user" /\ reading[p] = NULL

-----------------------------------------------------------------------------
\* init_main: vfs_set_bootfs makes root the working directory and bootfs_node,
\* and user_main starts as a copy of init.
InitMain(c) ==
    /\ pwd[initproc] = NULL
    /\ mode[c] = "none"
    /\ pwd' = [pwd EXCEPT ![initproc] = root, ![c] = root]
    /\ mode' = [mode EXCEPT ![c] = "kernel"]
    /\ ref_count' = [ref_count EXCEPT ![root] = 3]
    /\ UNCHANGED <<fd_array, reading, open_count, lost_refs, lost_opens>>

Creates(r) == "CREAT" \in r.flags

\* vfs_open before it looks the path up
BadFlags(r) == "TRUNC" \in r.flags /\ r.acc = "RDONLY"

\* vop_open: sfs_opendir, sfs_openfile, dev_open and stdin_open
VopRefuses(r) ==
    \/ r.node = root /\ (r.acc # "RDONLY" \/ "APPEND" \in r.flags)
    \/ r.node \in Device /\ (r.flags # {} \/ (r.node = stdin /\ r.acc # "RDONLY"))

\* There is no vop_create, and no vop_truncate for a directory: these calls
\* end in the assertion of __vop_op and are not made.
StopsKernel(r) ==
    Creates(r) /\ (r.node = NULL \/ (r.node = root /\ "EXCL" \notin r.flags))

Succeeds(table, r) ==
    /\ Unused(table) # {} /\ r.node # NULL
    /\ ~ BadFlags(r) /\ ~ (Creates(r) /\ "EXCL" \in r.flags) /\ ~ VopRefuses(r)

\* file_open.  A failure gives back what it took, but for an exclusive
\* creation of what exists (vfsfile.c:46): that keeps the reference of the
\* lookup.
OpenSucceeds(p, r) ==
    /\ Runs(p) /\ ~ StopsKernel(r)
    /\ Succeeds(fd_array[p], r)
    /\ fd_array' = [fd_array EXCEPT ![p][Lowest(Unused(fd_array[p]))] = NewSlot(r.node)]
    /\ Count(Is(r.node), Is(r.node))
    /\ UNCHANGED <<pwd, mode, reading>>

OpenExists(p, r) ==
    /\ Runs(p) /\ Unused(fd_array[p]) # {}
    /\ r.node # NULL /\ ~ BadFlags(r) /\ Creates(r) /\ "EXCL" \in r.flags
    /\ ref_count' = Plus(ref_count, Is(r.node))
    /\ Lose(Is(r.node), Nothing)
    /\ UNCHANGED <<open_count, fd_array, pwd, mode, reading>>

\* file_close
Close(p, fd) ==
    /\ Runs(p) /\ fd_array[p][fd].status = "OPENED"
    /\ Uncount(Opens(fd_array[p], {fd}), Opens(fd_array[p], {fd}))
    /\ fd_array' = [fd_array EXCEPT ![p] = CloseSlots(@, {fd})]
    /\ UNCHANGED <<pwd, mode, reading>>

\* file_dup, to a free slot of the caller's choice or the lowest one
Dup(p, from, to) ==
    /\ Runs(p) /\ fd_array[p][from].status = "OPENED" /\ to \in Unused(fd_array[p])
    /\ fd_array' = [fd_array EXCEPT ![p][to] = NewSlot(fd_array[p][from].node)]
    /\ Count(Is(fd_array[p][from].node), Is(fd_array[p][from].node))
    /\ UNCHANGED <<pwd, mode, reading>>

\* A faulty copy_files: the working directory is copied without a reference.
ForkPwdUncounted(p, c) ==
    /\ Runs(p) /\ mode[c] = "none"
    /\ fd_array' = [fd_array EXCEPT ![c] = DupFiles(fd_array[p])]
    /\ pwd' = [pwd EXCEPT ![c] = pwd[p]]
    /\ mode' = [mode EXCEPT ![c] = "user"]
    /\ Count(Opens(fd_array[p], Fd), Opens(fd_array[p], Fd))
    /\ UNCHANGED reading

\* do_fork: copy_files.  When copy_mm fails after it, put_files of the child
\* undoes all of this.
Fork(p, c) ==
    /\ Runs(p) /\ mode[c] = "none"
    /\ fd_array' = [fd_array EXCEPT ![c] = DupFiles(fd_array[p])]
    /\ pwd' = [pwd EXCEPT ![c] = pwd[p]]
    /\ mode' = [mode EXCEPT ![c] = "user"]
    /\ Count(Holds(p, fd_array[p]), Opens(fd_array[p], Fd))
    /\ UNCHANGED reading

-----------------------------------------------------------------------------
\* do_execve closes everything above stdout before it opens the program.
AboveStdout == Fd \ {0, 1}
Kept(p) == CloseSlots(fd_array[p], AboveStdout)
Opened(p) == Opens(fd_array[p], AboveStdout)

\* a program, or user_main, which becomes one
Execs(p) == Runs(p) \/ (mode[p] = "kernel" /\ p # initproc)

\* The program is loaded and its descriptor closed again.
Exec(p, n) ==
    /\ Execs(p) /\ n \in Regular
    /\ fd_array' = [fd_array EXCEPT ![p] = Kept(p)]
    /\ Uncount(Opened(p), Opened(p))
    /\ mode' = [mode EXCEPT ![p] = "user"]
    /\ UNCHANGED <<pwd, reading>>

\* The path cannot be opened: do_exit, which puts the files of a process that
\* has an address space still, and forgets those of one that never had.
ExecNotFound(p) ==
    /\ Execs(p) /\ Gone(p)
    /\ IF mode[p] = "user"
       THEN PutFiles(p, fd_array[p])
       ELSE /\ Lose(Holds(p, fd_array[p]), Opens(fd_array[p], Fd))
            /\ fd_array' = [fd_array EXCEPT ![p] = Empty]
            /\ pwd' = [pwd EXCEPT ![p] = NULL]
            /\ UNCHANGED <<ref_count, open_count>>

\* load_icode fails, before or after it closes the program: the address space
\* is gone by then, do_exit skips put_files and the table is out of reach.
ExecFails(p, n, closed) ==
    LET own == IF closed THEN Nothing ELSE Is(n)
    IN  /\ Execs(p) /\ n \in Regular \cup {stdin} /\ Gone(p)
        /\ closed => n \in Regular
        /\ ref_count' = Plus(Minus(ref_count, Opened(p)), own)
        /\ open_count' = Plus(Minus(open_count, Opened(p)), own)
        /\ Lose(Plus(Holds(p, Kept(p)), own), Plus(Opens(Kept(p), Fd), own))
        /\ fd_array' = [fd_array EXCEPT ![p] = Empty]
        /\ pwd' = [pwd EXCEPT ![p] = NULL]

\* do_exit of a process that runs
Exit(p) == Runs(p) /\ PutFiles(p, fd_array[p]) /\ Gone(p)

-----------------------------------------------------------------------------
\* file_read of stdin: fd_array_acquire, and asleep in dev_stdin_read
ReadBlocks(p, fd) ==
    /\ Runs(p) /\ fd_array[p][fd].status = "OPENED" /\ fd_array[p][fd].node = stdin
    /\ fd_array' = [fd_array EXCEPT ![p][fd].open_count = @ + 1]
    /\ reading' = [reading EXCEPT ![p] = fd]
    /\ UNCHANGED <<pwd, mode, counts>>

\* A faulty file_read: it returns without the release.
ReleaseForgotten(p) == fd_array[p]

\* ... fd_array_release
Released(p) == [fd_array[p] EXCEPT ![reading[p]].open_count = @ - 1]

ReadReturns(p) ==
    /\ reading[p] # NULL
    /\ fd_array' = [fd_array EXCEPT ![p] = Released(p)]
    /\ reading' = [reading EXCEPT ![p] = NULL]
    /\ UNCHANGED <<pwd, mode, counts>>

\* A kill ends the read, and the process when it returns from the trap.
ReadKilled(p) == reading[p] # NULL /\ PutFiles(p, Released(p)) /\ Gone(p)

Next ==
    \E p \in Proc :
        \/ InitMain(p)
        \/ \E r \in Requests : OpenSucceeds(p, r) \/ OpenExists(p, r)
        \/ \E fd \in Fd : Close(p, fd) \/ ReadBlocks(p, fd)
        \/ \E from, to \in Fd : Dup(p, from, to)
        \/ \E c \in Proc : Fork(p, c)
        \/ \E n \in Node : Exec(p, n) \/ \E closed \in BOOLEAN : ExecFails(p, n, closed)
        \/ ExecNotFound(p) \/ Exit(p) \/ ReadReturns(p) \/ ReadKilled(p)

Spec == Init /\ [][Next]_vars

-----------------------------------------------------------------------------
Alive == {p \in Proc : mode[p] # "none"}

\* Kept by the kernel itself: vfs_add_dev's reference, and bootfs_node
Base(n) == IF n \in Device THEN 1
           ELSE IF n = root /\ pwd[initproc] # NULL THEN 1 ELSE 0

\* ref_count is the number of descriptors and working directories that name
\* the inode, plus what the kernel keeps: it is reclaimed with its last user
\* and not before, through any sequence of open, dup, fork, exec and exit.
\* open_count is the number of open descriptors: vop_close, which stores a
\* changed file, comes with the last of them; it never exceeds ref_count, as
\* inode_check asserts.  Only what the error paths of vfs_open and do_execve
\* have lost stays.
Descriptors(n) == {u \in Proc \X Fd : fd_array[u[1]][u[2]].node = n}
InodeCountsExact ==
    \A n \in Node :
        /\ open_count[n] = Cardinality(Descriptors(n)) + lost_opens[n]
        /\ ref_count[n] = Cardinality({p \in Proc : pwd[p] = n}) + Cardinality(Descriptors(n))
                          + Base(n) + lost_refs[n]
        /\ open_count[n] <= ref_count[n]

\* Between two calls a slot is free or open, never FD_INIT or FD_CLOSED.  Its
\* open_count is one, and one more while the process sleeps in a read of it;
\* a process that has gone left no slot behind.
SlotsExact ==
    \A p \in Proc, fd \in Fd :
        LET s == fd_array[p][fd]
        IN  IF p \notin Alive THEN s = FreeSlot
            ELSE \/ s = FreeSlot
                 \/ /\ s.status = "OPENED" /\ s.node \in Node
                    /\ s.open_count = IF reading[p] = fd THEN 2 ELSE 1

=============================================================================
