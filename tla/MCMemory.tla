-------------------------------- MODULE MCMemory --------------------------------
(***************************************************************************)
(* The parts of the memory management side by side: a kernel is built with *)
(* one page allocator, and kmalloc and the address spaces see only pages   *)
(* they were given, so each is checked by itself.  `manager' says which    *)
(* one a behaviour is about.                                               *)
(***************************************************************************)
EXTENDS Integers, Sequences, FiniteSets, TLC, MCPrograms

CONSTANTS
    N,                                                      \* FitPmm
    MAX_ORDER, PAGES, Firsts, NONE,                         \* BuddyPmm
    PAGE_UNITS, NPAGES, BIGBLOCK_UNITS,                     \* Slob
    Proc, Va, Writable, Frame, Value, MAX_REF,              \* Cow
    PGSIZE, WORD, USERBASE, USTACKTOP, USTACKSIZE, STACK_PAGES, Program, Kargv  \* LoadIcode

\* A bigblock_t is smaller than a page.
ASSUME MemoryAssumption ==
    /\ {N, PAGE_UNITS, NPAGES} \subseteq Nat \ {0}
    /\ BIGBLOCK_UNITS \in 2..(PAGE_UNITS - 1)
    /\ IsFiniteSet(Proc) /\ Writable \subseteq Va
    /\ NONE \notin [Va -> Value] \cup [Va -> [page : Frame, w : BOOLEAN, cow : BOOLEAN]]

VARIABLES
    manager,
    next, prev, property, PG_property, nr_free, owned,      \* FitPmm
    first, free_list, blocks,                               \* BuddyPmm
    units, slobfree, pages, allocated, bigblocks,           \* Slob
    enable_cow, pte, ref, free, content,                    \* Cow
    program, kargv, phase, seg, start, la, mmap_list, mem   \* LoadIcode

fitOnly   == <<prev, PG_property, owned>>
buddyOnly == <<first, free_list, blocks>>
slobOnly  == <<units, slobfree, pages, allocated, bigblocks>>
cowOnly   == <<enable_cow, pte, ref, free, content>>
loadOnly  == <<program, kargv, phase, seg, start, la, mmap_list, mem>>

Fit   == INSTANCE FitPmm
Buddy == INSTANCE BuddyPmm
Slob  == INSTANCE Slob
Cow   == INSTANCE Cow
Load  == INSTANCE LoadIcode

ASSUME BuddyArea == Buddy!BuddyAssumption
ASSUME LoadArea  == Load!LoadAssumption

NoFit   == prev = {} /\ PG_property = {} /\ owned = {}
NoBuddy == first = 0 /\ free_list = {} /\ blocks = {}
NoSlob  == units = {} /\ slobfree = 0 /\ pages = {} /\ allocated = {} /\ bigblocks = {}
NoLinks == next = {} /\ property = {} /\ nr_free = 0
NoCow   == enable_cow = FALSE /\ pte = {} /\ ref = {} /\ free = {} /\ content = {}
NoLoad  == program = {} /\ kargv = {} /\ phase = "" /\ seg = 0 /\ start = 0 /\ la = 0
           /\ mmap_list = {} /\ mem = {}

Init ==
    \/ Fit!Init /\ NoBuddy /\ NoSlob /\ NoCow /\ NoLoad
    \/ manager = "buddy" /\ Buddy!Init /\ next = {} /\ NoFit /\ NoSlob /\ NoCow /\ NoLoad
    \/ manager = "slob" /\ Slob!Init /\ property = {} /\ nr_free = 0
       /\ NoFit /\ NoBuddy /\ NoCow /\ NoLoad
    \/ manager = "cow" /\ Cow!Init /\ NoLinks /\ NoFit /\ NoBuddy /\ NoSlob /\ NoLoad
    \/ manager = "load" /\ Load!Init /\ NoLinks /\ NoFit /\ NoBuddy /\ NoSlob /\ NoCow

\* The default allocator is right as long as the last page is never handed out,
\* as in a kernel with memory to spare.
Next ==
    \/ /\ manager \in {"best_fit", "default"} /\ Fit!Next
       /\ manager = "default" => N - 1 \notin owned'
       /\ UNCHANGED <<buddyOnly, slobOnly, cowOnly, loadOnly>>
    \/ manager = "buddy" /\ Buddy!Next
       /\ UNCHANGED <<manager, next, fitOnly, slobOnly, cowOnly, loadOnly>>
    \/ manager = "slob" /\ Slob!Next
       /\ UNCHANGED <<manager, property, nr_free, fitOnly, buddyOnly, cowOnly, loadOnly>>
    \/ manager = "cow" /\ Cow!Next
       /\ UNCHANGED <<manager, next, property, nr_free, fitOnly, buddyOnly, slobOnly, loadOnly>>
    \/ manager = "load" /\ Load!Next
       /\ UNCHANGED <<manager, next, property, nr_free, fitOnly, buddyOnly, slobOnly, cowOnly>>

Spec == Init /\ [][Next]_<<manager, next, property, nr_free, fitOnly, buddyOnly, slobOnly, cowOnly, loadOnly>>

-----------------------------------------------------------------------------
IsFit == manager \in {"best_fit", "default"}

\* The allocator's own lists say which memory is free, after any sequence of
\* allocations and frees: in order, nothing twice, every merge made.  Of best
\* fit, of first fit while its last page is free, of buddy wherever the free
\* area begins, and of kmalloc.
ListsExact ==
    /\ IsFit => Fit!FitExact
    /\ manager = "buddy" => Buddy!BuddyExact
    /\ manager = "slob" => Slob!SlobExact

\* A program that has been loaded finds the bytes of its file and zeroes behind
\* them; a load that fails, at whatever point, leaves no page.  The list of its
\* areas says which addresses are its own: in order, apart, copied by fork as it
\* is, and user_mem_check answers by it for every range of addresses.
ProgramLoaded == manager = "load" => Load!ProgramLoaded /\ Load!AreasExact

-----------------------------------------------------------------------------
Area == IF IsFit THEN Fit!Page
        ELSE IF manager \in {"cow", "load"} THEN {}
        ELSE IF manager = "buddy" THEN first..(PAGES - 1)
        ELSE UNION {p..(p + PAGE_UNITS - 1) : p \in Slob!Pages}
Held == IF IsFit THEN owned
        ELSE IF manager \in {"cow", "load"} THEN {}
        ELSE IF manager = "buddy" THEN Buddy!Owned
        ELSE (UNION {Slob!Block(b) : b \in Slob!Small})
             \cup UNION {p..(p + PAGE_UNITS - 1) : p \in Slob!BigPages}

Pool == INSTANCE PagePool WITH area <- Area, held <- Held

\* Whatever the lists look like, nobody is given memory somebody else has, and
\* a free gives back what was handed out: all of them are a PagePool.
ImplementsPool == Pool!Spec

Memory == IF manager = "cow" THEN Cow!Memory ELSE [p \in Proc |-> NONE]

Private == INSTANCE PrivateMemory WITH memory <- Memory

\* With copy-on-write or without, no store, fault, fork, exec or exit of one
\* process changes what another reads, whoever shares its pages and whatever
\* page the allocator gives out next.
ImplementsPrivateMemory == Private!Spec

-----------------------------------------------------------------------------
Symmetry == Permutations(Frame) \cup Permutations(Proc)

=============================================================================
