-------------------------------- MODULE LoadIcode --------------------------------
(***************************************************************************)
(* load_icode of kern/process/proc.c, which builds the address space of a  *)
(* program from its file, with the areas of kern/mm/vmm.c it is made of.   *)
(*                                                                         *)
(* Memory is a function on the addresses that are mapped; a cell holds a   *)
(* byte of a segment of the file, a zero, a byte of an argument or of a    *)
(* pointer to one, or what the page held before.  Whatever can fail on the *)
(* way (a page, an area, a read of the file) may fail in any step.         *)
(***************************************************************************)
EXTENDS Integers, Sequences, Lists

CONSTANTS
    PGSIZE, WORD,            \* sizeof(uintptr_t)
    USERBASE, USTACKTOP,     \* USTACKTOP is USERTOP
    USTACKSIZE,
    STACK_PAGES,             \* pages of the stack that are mapped, 4 in the code
    Program,                 \* files: sequences of [va, filesz, memsz, flags]
    Kargv                    \* argument lists: the lengths of the strings

RoundDown(a, n) == a - (a % n)
RoundUp(a, n)   == RoundDown(a + n - 1, n)

\* Assumed of every instance: pages of whole words, a stack of whole pages, and
\* arguments that have room in the stack, as EXEC_MAX_ARG_NUM strings of
\* EXEC_MAX_ARG_LEN do.
LoadAssumption ==
    /\ {PGSIZE, WORD, USERBASE, USTACKTOP, USTACKSIZE} \subseteq Nat \ {0}
    /\ \A n \in {USERBASE, USTACKTOP, USTACKSIZE} : n % PGSIZE = 0
    /\ USTACKTOP % WORD = 0 /\ STACK_PAGES * PGSIZE \in 1..USTACKSIZE
    /\ USERBASE < USTACKTOP - USTACKSIZE
    /\ Program \subseteq Seq([va : Nat, filesz : Nat, memsz : Nat, flags : SUBSET {"R", "W", "X"}])
    /\ Kargv \subseteq Seq(Nat)
    /\ \A args \in Kargv : \A i \in DOMAIN args :
          Len(args) * RoundUp(args[i] + 1, WORD) <= USTACKSIZE

VARIABLES
    program, kargv,
    phase,                   \* what comes next, or what stopped the kernel
    seg,                     \* index of the segment
    start, la,
    mmap_list,               \* [vm_start, vm_end, vm_flags], in order of addresses
    mem

vars == <<program, kargv, phase, seg, start, la, mmap_list, mem>>

Cell(kind, i, k) == <<kind, i, k>>
Zero == Cell("zero", 0, 0)

Init ==
    /\ program \in Program /\ kargv \in Kargv
    /\ phase = "segment" /\ seg = 1 /\ start = 0 /\ la = 0
    /\ mmap_list = <<>> /\ mem = <<>>

-----------------------------------------------------------------------------
\* vmm.c.  The cache of find_vma is left out: areas do not overlap and none
\* goes away before its mm does.
In(v, a) == v.vm_start <= a /\ a < v.vm_end
Found(a) == {v \in Elems(mmap_list) : In(v, a)}

USER_ACCESS(from, to) == USERBASE <= from /\ from < to /\ to <= USTACKTOP

Area(a, len, flags) ==
    [vm_start |-> RoundDown(a, PGSIZE), vm_end |-> RoundUp(a + len, PGSIZE), vm_flags |-> flags]

\* insert_vma_struct puts v before the first area that starts after it.
Before(list, v) ==
    CHOOSE b \in 0..Len(list) : /\ \A i \in 1..b : list[i].vm_start <= v.vm_start
                                /\ b < Len(list) => v.vm_start < list[b + 1].vm_start
Insert(list, v) ==
    [i \in 1..(Len(list) + 1) |-> IF i <= Before(list, v) THEN list[i]
                                  ELSE IF i = Before(list, v) + 1 THEN v ELSE list[i - 1]]

\* The assertions of check_vma_overlap on v and its neighbours
Overlaps(list, v) ==
    \E i \in DOMAIN list : /\ i \in {Before(list, v), Before(list, v) + 1}
                           /\ list[i].vm_start < v.vm_end /\ v.vm_start < list[i].vm_end

\* mm_map, when there is memory for the area: it refuses an area that starts
\* in another, and stops the kernel for one that runs into another.
Maps(v) == USER_ACCESS(v.vm_start, v.vm_end) /\ Found(v.vm_start) = {}
MmMap(v, then) ==
    /\ Maps(v)
    /\ IF Overlaps(mmap_list, v) THEN phase' = "check_vma_overlap" /\ UNCHANGED mmap_list
                                 ELSE phase' = then /\ mmap_list' = Insert(mmap_list, v)

\* dup_mmap walks the list of the parent backwards.
DupMmap(list) ==
    LET to[k \in 0..Len(list)] == IF k = 0 THEN <<>> ELSE Insert(to[k - 1], list[Len(list) + 1 - k])
    IN  to[Len(list)]

\* user_mem_check of a user process, area by area
UserMemCheck(addr, len, write) ==
    LET ok[a \in addr..USTACKTOP] ==
            a >= addr + len \/
            \E v \in Found(a) :
                /\ (IF write THEN "W" ELSE "R") \in v.vm_flags
                /\ write /\ "STACK" \in v.vm_flags => a >= v.vm_start + PGSIZE
                /\ ok[v.vm_end]
    IN  USER_ACCESS(addr, addr + len) /\ ok[addr]

\* copy_string of a user process: the string at src, whose zero is at `end', with
\* room for maxn bytes.  It checks and copies up to the end of one page at a time.
CopyString(src, end, maxn) ==
    LET top     == src + maxn
        left(s) == top - s
        rest(s) == RoundDown(s + PGSIZE, PGSIZE) - s
        part(s) == IF rest(s) > left(s) THEN left(s) ELSE rest(s)
        ok[s \in src..(top - 1)] ==
            /\ UserMemCheck(s, part(s), FALSE)
            /\ end < s + part(s) \/ (part(s) # left(s) /\ ok[s + part(s)])
    IN  ok[src]

-----------------------------------------------------------------------------
\* pgdir_alloc_page, and a write of the bytes s at address a
Page(a) == a..(a + PGSIZE - 1)
MapPage(m, a) == [x \in DOMAIN m \cup Page(a) |-> IF x \in Page(a) THEN Cell("junk", 0, 0) ELSE m[x]]
Put(m, a, s) == [x \in DOMAIN m |-> IF x - a + 1 \in DOMAIN s THEN s[x - a + 1] ELSE m[x]]

S == program[seg]
FileEnd == S.va + S.filesz
MemEnd  == S.va + S.memsz

\* Where the page at la ends, or the range that ends at `end'
Stop(end) == IF end < la + PGSIZE THEN end ELSE la + PGSIZE

NextSegment == phase' = "segment" /\ seg' = seg + 1

\* (3.3): mm_map for the segment
MapSegment ==
    /\ phase = "segment" /\ seg \in DOMAIN program
    /\ S.filesz <= S.memsz
    /\ MmMap(Area(S.va, S.memsz, S.flags), "file")
    /\ start' = S.va /\ la' = RoundDown(S.va, PGSIZE)
    /\ UNCHANGED <<program, kargv, seg, mem>>

\* A faulty (3.4): the part of a page is not cut at the end of the file's bytes
LoadPageWhole ==
    /\ phase = "file" /\ start < FileEnd
    /\ mem' = Put(MapPage(mem, la), start,
                  [j \in 1..(la + PGSIZE - start) |-> Cell("file", seg, start - S.va + j - 1)])
    /\ start' = la + PGSIZE /\ la' = la + PGSIZE
    /\ UNCHANGED <<program, kargv, phase, seg, mmap_list>>

\* (3.4): a page for the next bytes of the file, and the bytes
LoadPage ==
    /\ phase = "file" /\ start < FileEnd
    /\ mem' = Put(MapPage(mem, la), start,
                  [j \in 1..(Stop(FileEnd) - start) |-> Cell("file", seg, start - S.va + j - 1)])
    /\ start' = Stop(FileEnd) /\ la' = la + PGSIZE
    /\ UNCHANGED <<program, kargv, phase, seg, mmap_list>>

\* (3.5): the file's bytes end inside a page, the one before la.  What is left
\* of it should be zeroed, but off is start - la, which is negative: the memset
\* starts before the page, in one that may be anybody's, and runs over all of
\* it, and the assertion on start fails.
Rest ==
    LET off  == start - la
        size == PGSIZE - off - (IF MemEnd < la THEN la - MemEnd ELSE 0)
    IN  /\ mem' = Put(mem, la - PGSIZE, [j \in 1..(off + size) |-> Zero])
        /\ start' = start + size
        /\ phase' = IF start' = (IF MemEnd < la THEN MemEnd ELSE la) THEN "bss" ELSE "end of bss"
        /\ UNCHANGED seg

EndOfFile ==
    /\ phase = "file" /\ start >= FileEnd
    /\ IF start < la
       THEN IF start = MemEnd THEN NextSegment /\ UNCHANGED <<start, mem>> ELSE Rest
       ELSE phase' = "bss" /\ UNCHANGED <<seg, start, mem>>
    /\ UNCHANGED <<program, kargv, la, mmap_list>>

\* (3.5): a page of zeroes
ZeroPage ==
    /\ phase = "bss" /\ start < MemEnd
    /\ mem' = Put(MapPage(mem, la), start, [j \in 1..(Stop(MemEnd) - start) |-> Zero])
    /\ start' = Stop(MemEnd) /\ la' = la + PGSIZE
    /\ UNCHANGED <<program, kargv, phase, seg, mmap_list>>

EndOfBss ==
    /\ phase = "bss" /\ start >= MemEnd /\ NextSegment
    /\ UNCHANGED <<program, kargv, start, la, mmap_list, mem>>

\* (4): the area of the stack and its upper pages; one that cannot be had
\* fails an assertion.
StackArea == Area(USTACKTOP - USTACKSIZE, USTACKSIZE, {"R", "W", "STACK"})
StackPages == (USTACKTOP - STACK_PAGES * PGSIZE)..(USTACKTOP - 1)
StackMem == [x \in DOMAIN mem \cup StackPages |-> IF x \in StackPages THEN Cell("junk", 0, 0) ELSE mem[x]]

Stack ==
    /\ phase = "segment" /\ seg \notin DOMAIN program
    /\ MmMap(StackArea, "args")
    /\ mem' = IF phase' = "args" THEN StackMem ELSE mem
    /\ UNCHANGED <<program, kargv, seg, start, la>>

StackPageMissing ==
    /\ phase = "segment" /\ seg \notin DOMAIN program
    /\ Maps(StackArea)
    /\ phase' = "stack page"
    /\ UNCHANGED <<program, kargv, seg, start, la, mmap_list, mem>>

\* (6): the strings go below the top of the stack, the last one first, and
\* their addresses into the array argv, which lies there as well.  A string
\* begins below its address in argv, so if there is a page where it begins there
\* is one for both.  If there is none strcpy faults at once, and so would all
\* that follow: nothing more is stored.
argv == USTACKTOP - Len(kargv) * WORD
sp   == argv - WORD

HasPage(a) == USTACKTOP - STACK_PAGES * PGSIZE <= a

Argument(i, c) ==
    LET top == RoundDown(c.top - (kargv[i] + 1), WORD)
        str == [k \in 1..(kargv[i] + 1) |-> Cell("arg", i, k)]
        ptr == [k \in 1..WORD |-> Cell("ptr", top, k)]
    IN  [top |-> top,
         mem |-> IF HasPage(top) THEN Put(Put(c.mem, top, str), argv + (i - 1) * WORD, ptr) ELSE c.mem]

Arguments ==
    LET c[k \in 0..Len(kargv)] == IF k = 0 THEN [top |-> USTACKTOP, mem |-> mem]
                                  ELSE Argument(Len(kargv) + 1 - k, c[k - 1])
    IN  c[Len(kargv)]

\* The handler of trap.c prints and returns, so the kernel faults for ever.
Args ==
    /\ phase = "args"
    /\ phase' = IF HasPage(Arguments.top) THEN "done" ELSE "store page fault"
    /\ mem' = Arguments.mem
    /\ UNCHANGED <<program, kargv, seg, start, la, mmap_list>>

\* bad_cleanup_mmap: exit_mmap gives back the pages inside the areas, put_pgdir
\* and mm_destroy the rest.  A read or an allocation has failed, or mm_map.
Fail ==
    /\ phase \in {"segment", "file", "bss"} /\ phase' = "failed"
    /\ mem' = [x \in {y \in DOMAIN mem : Found(y) = {}} |-> mem[x]]
    /\ mmap_list' = <<>>
    /\ UNCHANGED <<program, kargv, seg, start, la>>

Next == \/ MapSegment \/ LoadPage \/ EndOfFile \/ ZeroPage \/ EndOfBss
        \/ Stack \/ StackPageMissing \/ Args \/ Fail

Spec == Init /\ [][Next]_vars

-----------------------------------------------------------------------------
\* A program that has been loaded finds the bytes of its file where its
\* segments say and zeroes behind them, whatever part of a page they begin and
\* end in, and no page of one segment has covered another's.  Every page that
\* is mapped lies in an area, where exit_mmap finds it: a load that fails, at
\* whatever point, leaves none.
ProgramLoaded ==
    /\ phase = "done" =>
          \A k \in DOMAIN program : \A j \in 0..(program[k].memsz - 1) :
              mem[program[k].va + j] = IF j < program[k].filesz THEN Cell("file", k, j) ELSE Zero
    /\ \A x \in DOMAIN mem : Found(x) # {}

\* The areas are in order and apart, fork copies them as they are, and
\* user_mem_check lets a system call at a range of addresses exactly if each
\* of them is in an area that allows it, the lowest page of the stack aside.
\* copy_string takes a string exactly if it fits and may be read to its end,
\* wherever in a page it begins and ends, in the last bytes before a gap too.
Allowed(x, write) ==
    \E v \in Found(x) : /\ (IF write THEN "W" ELSE "R") \in v.vm_flags
                        /\ write /\ "STACK" \in v.vm_flags => x >= v.vm_start + PGSIZE
AreasExact ==
    /\ \A i \in 1..(Len(mmap_list) - 1) : mmap_list[i].vm_end <= mmap_list[i + 1].vm_start
    /\ DupMmap(mmap_list) = mmap_list
    /\ phase = "done" =>
          \A from \in USERBASE..(USTACKTOP - 1), write \in BOOLEAN : \A to \in (from + 1)..USTACKTOP :
              UserMemCheck(from, to - from, write) <=> \A x \in from..(to - 1) : Allowed(x, write)
    /\ phase = "done" =>
          \A src \in USERBASE..(USTACKTOP - 1), maxn \in 1..(2 * PGSIZE + 1) : \A end \in src..(src + maxn) :
              CopyString(src, end, maxn) <=>
                  end < src + maxn /\ \A x \in src..end : Allowed(x, FALSE)

\* The assertion of proc.c:822 on the zeroing behind the bytes of the file
BssEndsInPlace == phase # "end of bss"

\* What the program finds of its arguments: argv[i] points to the i-th one,
\* which lies above the stack pointer (the report of lab8, lines 2054 to 2074).
ArgvPointsToArgs ==
    phase = "done" =>
        \A i \in DOMAIN kargv : \E a \in sp..(USTACKTOP - 1) :
            /\ \A k \in 1..WORD : mem[argv + (i - 1) * WORD + k - 1] = Cell("ptr", a, k)
            /\ \A k \in 1..(kargv[i] + 1) : a + k - 1 < USTACKTOP /\ mem[a + k - 1] = Cell("arg", i, k)

=============================================================================
