---------------------------------- MODULE Cow ----------------------------------
(***************************************************************************)
(* The user pages of lab5: fork with and without copy-on-write, execve,    *)
(* exit and store faults (lab5/kern/mm/pmm.c, vmm.c).  The kernel is not   *)
(* preempted, so each of them is one step; a store comes after its fault   *)
(* has been handled, and other processes may run in between.               *)
(***************************************************************************)
EXTENDS Naturals, FiniteSets

CONSTANTS
    Proc,
    Va,              \* the pages of an address space
    Writable,        \* those of segments with PTE_W
    Frame,           \* the physical pages
    Value,           \* what a page may contain
    NONE,            \* as an address space: no mm
    MAX_REF          \* bounds the forks: a fork adds more to ref than an exit takes

VARIABLES
    enable_cow,      \* set before boot
    pte,             \* of each process and page: [page, w, cow]
    ref,             \* page->ref
    free,            \* the pages the allocator has
    content

vars == <<enable_cow, pte, ref, free, content>>

HasMm(p)  == pte[p] # NONE
Frames(p) == {pte[p][va].page : va \in Va}

\* load_icode: a page of its own for each va, with what the program has there
Loaded(f) == [va \in Va |-> [page |-> f[va], w |-> va \in Writable, cow |-> FALSE]]
Distinct(f) == \A a, b \in Va : f[a] = f[b] => a = b
Pick(S) == {f \in [Va -> S] : Distinct(f)}
At(f, g) == CHOOSE va \in Va : f[va] = g

\* The contents that new pages f get, of image
Filled(f, image) ==
    [g \in Frame |-> IF \E va \in Va : f[va] = g THEN image[At(f, g)] ELSE content[g]]

Init ==
    /\ enable_cow \in BOOLEAN
    /\ \E p \in Proc, f \in Pick(Frame), image \in [Va -> Value], rest \in Value :
        /\ pte = [q \in Proc |-> IF q = p THEN Loaded(f) ELSE NONE]
        /\ ref = [g \in Frame |-> IF \E va \in Va : f[va] = g THEN 1 ELSE 0]
        /\ free = Frame \ {f[va] : va \in Va}
        /\ content = [g \in Frame |-> IF \E va \in Va : f[va] = g THEN image[At(f, g)] ELSE rest]

\* page_remove_pte of the entries that map the pages S: what it leaves in use
\* and what it gives back
RefLess(S) == [g \in Frame |-> IF g \in S THEN ref[g] - 1 ELSE ref[g]]
Given(S)   == {g \in S : ref[g] = 1}

-----------------------------------------------------------------------------
\* copy_range_cow: an entry of the child
ChildEntry(e) == [page |-> e.page, w |-> FALSE, cow |-> TRUE]

\* A faulty copy_range_cow: the parent may go on writing.
SharedWritable(e) == [e EXCEPT !.cow = TRUE]

\* ... and what becomes of the parent's
Shared(e) == [e EXCEPT !.w = FALSE, !.cow = TRUE]

\* dup_mmap_cow.  The child's entry is counted twice, by copy_range_cow and by
\* the page_insert it calls.
Fork(p, c) ==
    /\ enable_cow /\ HasMm(p) /\ ~ HasMm(c)
    /\ \A g \in Frames(p) : ref[g] + 2 <= MAX_REF
    /\ pte' = [pte EXCEPT ![p] = [va \in Va |-> Shared(pte[p][va])],
                          ![c] = [va \in Va |-> ChildEntry(pte[p][va])]]
    /\ ref' = [g \in Frame |-> IF g \in Frames(p) THEN ref[g] + 2 ELSE ref[g]]
    /\ UNCHANGED <<enable_cow, free, content>>

\* There is no page for a page table after the pages S: exit_mmap of the child.
\* The parent's entries stay shared.
ForkFails(p, S) ==
    /\ enable_cow /\ HasMm(p)
    /\ \A va \in S : ref[pte[p][va].page] + 1 <= MAX_REF
    /\ pte' = [pte EXCEPT ![p] = [va \in Va |-> IF va \in S THEN Shared(@[va]) ELSE @[va]]]
    /\ ref' = [g \in Frame |-> IF \E va \in S : pte[p][va].page = g THEN ref[g] + 1 ELSE ref[g]]
    /\ UNCHANGED <<enable_cow, free, content>>

\* dup_mmap: every page is copied.  Without a page for it an assertion stops
\* the kernel.
ForkCopies(p, c) ==
    /\ ~ enable_cow /\ HasMm(p) /\ ~ HasMm(c)
    /\ \E f \in Pick(free) :
        /\ pte' = [pte EXCEPT ![c] = [va \in Va |-> [pte[p][va] EXCEPT !.page = f[va]]]]
        /\ ref' = [g \in Frame |-> IF \E va \in Va : f[va] = g THEN 1 ELSE ref[g]]
        /\ free' = free \ {f[va] : va \in Va}
        /\ content' = Filled(f, [va \in Va |-> content[pte[p][va].page]])
        /\ UNCHANGED enable_cow

\* do_exit: exit_mmap
Exit(p) ==
    /\ HasMm(p)
    /\ pte' = [pte EXCEPT ![p] = NONE]
    /\ ref' = RefLess(Frames(p))
    /\ free' = free \cup Given(Frames(p))
    /\ UNCHANGED <<enable_cow, content>>

\* do_execve: exit_mmap and load_icode; if there are not enough pages the
\* process exits.
Exec(p, image) ==
    LET left == free \cup Given(Frames(p))
    IN  /\ HasMm(p)
        /\ \E f \in Pick(left) :
            /\ pte' = [pte EXCEPT ![p] = Loaded(f)]
            /\ ref' = [g \in Frame |-> IF \E va \in Va : f[va] = g THEN 1 ELSE RefLess(Frames(p))[g]]
            /\ free' = left \ {f[va] : va \in Va}
            /\ content' = Filled(f, image)
            /\ UNCHANGED enable_cow

\* do_pgfault_cow of a store: the last one to refer to the page gets it, others
\* get a copy.  A fault on any other page, or without a page for the copy,
\* changes nothing, and the store faults again.
StoreFault(p, va) ==
    /\ HasMm(p) /\ ~ pte[p][va].w /\ pte[p][va].cow
    /\ LET old == pte[p][va].page
       IN  IF ref[old] = 1
           THEN /\ pte' = [pte EXCEPT ![p][va] = [page |-> old, w |-> TRUE, cow |-> FALSE]]
                /\ UNCHANGED <<ref, free, content>>
           ELSE \E new \in free :
                /\ pte' = [pte EXCEPT ![p][va] = [page |-> new, w |-> TRUE, cow |-> FALSE]]
                /\ ref' = [RefLess({old}) EXCEPT ![new] = 1]
                /\ free' = (free \ {new}) \cup Given({old})
                /\ content' = [content EXCEPT ![new] = content[old]]
    /\ UNCHANGED enable_cow

Store(p, va, v) ==
    /\ HasMm(p) /\ pte[p][va].w
    /\ content' = [content EXCEPT ![pte[p][va].page] = v]
    /\ UNCHANGED <<enable_cow, pte, ref, free>>

Next ==
    \E p \in Proc :
        \/ \E c \in Proc : Fork(p, c) \/ ForkCopies(p, c)
        \/ \E S \in SUBSET Va : S # Va /\ ForkFails(p, S)
        \/ Exit(p)
        \/ \E image \in [Va -> Value] : Exec(p, image)
        \/ \E va \in Va : StoreFault(p, va) \/ \E v \in Value : Store(p, va, v)

Spec == Init /\ [][Next]_vars

-----------------------------------------------------------------------------
\* What a process reads
Memory == [p \in Proc |-> IF HasMm(p) THEN [va \in Va |-> content[pte[p][va].page]] ELSE NONE]

\* A page counts at least the processes that map it, each of which maps it
\* once, and a free page counts none; a page that two of them map can be
\* written through neither entry.
Mappers(g) == {p \in Proc : HasMm(p) /\ g \in Frames(p)}
SharedExact ==
    /\ \A g \in Frame : ref[g] >= Cardinality(Mappers(g)) /\ (g \in free => ref[g] = 0)
    /\ \A p, q \in Proc : HasMm(p) /\ HasMm(q) =>
         \A va, vb \in Va : pte[p][va].page = pte[q][vb].page =>
             IF p = q THEN va = vb ELSE ~ pte[p][va].w /\ ~ pte[q][vb].w

=============================================================================
