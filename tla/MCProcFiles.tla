------------------------------ MODULE MCProcFiles ------------------------------
(***************************************************************************)
(* Processes and their descriptors: idle, init and three users under the   *)
(* scheduler (ProcProps), or init and two more with three slots each, over *)
(* a directory, a file and the keyboard (FileTable).  `part' says which    *)
(* one is at work; the other one stays as it begins.                       *)
(***************************************************************************)
EXTENDS ProcProps, TLC

CONSTANTS
    FileProc, f1, f2,        \* the processes of FileTable
    Regular, hello, Device, root, stdin, NENTRY, Requests, MAX_LOST

VARIABLES
    part,
    fd_array, pwd, mode, reading, ref_count, open_count, lost_refs, lost_opens

Files == INSTANCE FileTable WITH Proc <- FileProc

ASSUME FilesAssumption == Files!FileTableAssumption

filesVars == <<fd_array, pwd, mode, reading, ref_count, open_count, lost_refs, lost_opens>>

BothInit == part \in {"processes", "files"} /\ Init /\ Files!Init

\* Programs have no need to open files for ever.
FilesEnd == Files!Alive \subseteq {initproc} /\ UNCHANGED filesVars

BothNext ==
    \/ part = "processes" /\ Next /\ UNCHANGED <<part, filesVars>>
    \/ part = "files" /\ (Files!Next \/ FilesEnd) /\ UNCHANGED <<part, vars>>

BothSpec == BothInit /\ [][BothNext]_<<part, vars, filesVars>>

-----------------------------------------------------------------------------
\* The properties of FileTable: the counts of every inode are what the slots and
\* working directories say, up to what error paths lose; and so are the slots'.
InodeCountsExact == Files!InodeCountsExact
SlotsExact       == Files!SlotsExact

-----------------------------------------------------------------------------
Req(n, acc, fl) == [node |-> n, acc |-> acc, flags |-> fl]

\* What user/libs and the tests pass, and what each error path needs
MCRequests ==
    { Req(hello, "RDONLY", {}),
      Req(hello, "RDWR", {"CREAT", "TRUNC"}),
      Req(hello, "WRONLY", {"CREAT", "EXCL"}),
      Req(hello, "RDONLY", {"TRUNC"}),
      Req(stdin, "RDONLY", {}),
      Req(stdin, "WRONLY", {"CREAT"}),
      Req(root, "RDONLY", {}),
      Req(root, "WRONLY", {}),
      Req(root, "WRONLY", {"CREAT", "EXCL"}),
      Req(NULL, "RDONLY", {}) }

\* Users are interchangeable in both; idle and init are not.
Symmetry == Permutations(Users) \cup Permutations({f1, f2})

=============================================================================
