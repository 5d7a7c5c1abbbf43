------------------------------- MODULE BuddyPmm -------------------------------
(***************************************************************************)
(* The buddy allocator, lab2/kern/mm/buddy_pmm.c.  Pages are numbered from *)
(* the start of the array `pages'; the free area begins wherever the       *)
(* kernel image ends, so its first page need not be aligned to anything.   *)
(***************************************************************************)
EXTENDS Integers, Sequences, FiniteSets, Lists

CONSTANTS
    MAX_ORDER,
    PAGES,
    Firsts,          \* where the free area may begin
    NONE

Orders == 0..(MAX_ORDER - 1)
Page   == 0..(PAGES - 1)

VARIABLES
    first,           \* the first page of the free area
    free_list,       \* of each order, the last added block at the head
    nr_free,         \* of each order
    property,        \* the order of the free block that begins here, else NONE
    blocks           \* <<page, order>> of what is handed out

vars == <<first, free_list, nr_free, property, blocks>>

Size[order \in Orders] == IF order = 0 THEN 1 ELSE 2 * Size[order - 1]

\* Assumed of every instance; where the area begins and ends is aligned to nothing.
BuddyAssumption ==
    /\ {MAX_ORDER, PAGES} \subseteq Nat \ {0}
    /\ Firsts \subseteq 0..(PAGES - 1) /\ NONE \notin Orders

Block(b, order) == b..(b + Size[order] - 1)

\* log2: the least order whose blocks hold n pages
log2(n) == CHOOSE o \in Orders : Size[o] >= n /\ \A lower \in 0..(o - 1) : Size[lower] < n

\* buddy_init_mmp cuts the area into the largest blocks that fit, from its
\* start: where its loop is after k blocks, and where these blocks begin
Largest(n) == CHOOSE o \in Orders : Size[o] <= n /\ \A h \in Orders : Size[h] <= n => h <= o
After(base) ==
    LET cur[k \in 0..PAGES] ==
            IF k = 0 THEN base
            ELSE LET last == cur[k - 1]
                 IN  IF last = PAGES THEN PAGES ELSE last + Size[Largest(PAGES - last)]
    IN  cur
Cuts(base) == {After(base)[k] : k \in 0..PAGES} \ {PAGES}

\* The blocks of order o there, each put at the head of its list
Cut(base, o) == {b \in Cuts(base) : Largest(PAGES - b) = o}
Descending(S) == Keep([i \in 1..PAGES |-> PAGES - i], S)

Init ==
    /\ first \in Firsts
    /\ free_list = [o \in Orders |-> Descending(Cut(first, o))]
    /\ nr_free = [o \in Orders |-> Cardinality(Cut(first, o))]
    /\ property = [p \in Page |-> IF p \in Cuts(first) THEN Largest(PAGES - p) ELSE NONE]
    /\ blocks = {}

-----------------------------------------------------------------------------
\* buddy_alloc_pages: the first block of the least order that has one, its
\* upper halves given back down to the order asked for
Available(order) == {o \in Orders : o >= order /\ free_list[o] # <<>>}
Alloc(n) ==
    LET order == log2(n)
        from  == CHOOSE o \in Available(order) : \A other \in Available(order) : o <= other
        page  == Head(free_list[from])
        split == order..(from - 1)
    IN  /\ Available(order) # {}
        /\ free_list' = [o \in Orders |-> IF o = from THEN Tail(free_list[o])
                                          ELSE IF o \in split THEN <<page + Size[o]>> \o free_list[o]
                                          ELSE free_list[o]]
        /\ nr_free' = [o \in Orders |-> IF o = from THEN nr_free[o] - 1
                                        ELSE IF o \in split THEN nr_free[o] + 1 ELSE nr_free[o]]
        /\ property' = [p \in Page |-> IF p = page THEN NONE
                                       ELSE IF \E o \in split : p = page + Size[o]
                                       THEN CHOOSE o \in split : p = page + Size[o]
                                       ELSE property[p]]
        /\ blocks' = blocks \cup {<<page, order>>}
        /\ UNCHANGED first

\* get_buddy: the page whose index differs in the bit of the order
Buddy(page, order) ==
    IF (page \div Size[order]) % 2 = 0 THEN page + Size[order] ELSE page - Size[order]

\* The page a block freed at base begins with once it has reached order o
Reached(base, order) ==
    LET at[o \in order..(MAX_ORDER - 1)] ==
            IF o = order THEN base
            ELSE LET low == at[o - 1] IN IF Buddy(low, o - 1) < low THEN Buddy(low, o - 1) ELSE low
    IN  at

\* A faulty merge: any free buddy is taken, of whatever order.
MergesAny(b, o) == o < MAX_ORDER - 1 /\ Buddy(b, o) \in Page /\ property[Buddy(b, o)] # NONE

\* Its buddy is free, whole, and not the last order yet
Merges(b, o) == o < MAX_ORDER - 1 /\ Buddy(b, o) \in Page /\ property[Buddy(b, o)] = o

\* buddy_free_pages
Free(base, order) ==
    LET at    == Reached(base, order)
        top   == CHOOSE o \in order..(MAX_ORDER - 1) :
                    ~ Merges(at[o], o) /\ \A l \in order..(o - 1) : Merges(at[l], l)
        taken == {Buddy(at[o], o) : o \in order..(top - 1)}
    IN  /\ <<base, order>> \in blocks
        /\ free_list' = [o \in Orders |->
                LET kept == Keep(free_list[o], Page \ taken)
                IN  IF o = top THEN <<at[top]>> \o kept ELSE kept]
        /\ nr_free' = [o \in Orders |-> IF o = top THEN nr_free[o] + 1
                                        ELSE IF o \in order..(top - 1) THEN nr_free[o] - 1
                                        ELSE nr_free[o]]
        /\ property' = [p \in Page |-> IF p = at[top] THEN top
                                       ELSE IF p \in taken THEN NONE ELSE property[p]]
        /\ blocks' = blocks \ {<<base, order>>}
        /\ UNCHANGED first

Next == \/ \E n \in 1..Size[MAX_ORDER - 1] : Alloc(n)
        \/ \E b \in blocks : Free(b[1], b[2])

Spec == Init /\ [][Next]_vars

-----------------------------------------------------------------------------
Heads == {p \in Page : property[p] # NONE}
Owned == UNION {Block(b[1], b[2]) : b \in blocks}

\* The free blocks are on the list of their order, once, and nr_free counts
\* them; together with what is handed out they are the free area, no page of
\* it twice.  No free block has a free buddy left to merge with.
BuddyExact ==
    /\ \A o \in Orders :
        /\ Distinct(free_list[o]) /\ nr_free[o] = Len(free_list[o])
        /\ Elems(free_list[o]) = {p \in Page : property[p] = o}
    /\ UNION {Block(p, property[p]) : p \in Heads} = (first..(PAGES - 1)) \ Owned
    /\ \A p, q \in Heads :
        p # q => Block(p, property[p]) \cap Block(q, property[q]) = {}
    /\ \A p \in Heads : ~ Merges(p, property[p])

=============================================================================
