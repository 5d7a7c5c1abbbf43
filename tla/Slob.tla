---------------------------------- MODULE Slob ----------------------------------
(***************************************************************************)
(* kmalloc: lab8/kern/mm/kmalloc.c.  Small requests are cut from one       *)
(* circular list of free blocks in address order, which slobfree points    *)
(* into and which grows by a page when nothing fits; large ones get pages  *)
(* of their own, entered in bigblocks under a small block.                 *)
(*                                                                         *)
(* Addresses count units of sizeof(slob_t).  A block is as long as the     *)
(* header in its first unit says, whether it is free or handed out.  The   *)
(* static arena is the block at 0, below all pages and next to none.       *)
(***************************************************************************)
EXTENDS Integers, Sequences, FiniteSets

CONSTANTS
    PAGE_UNITS,      \* PAGE_SIZE / SLOB_UNIT
    NPAGES,          \* pages alloc_pages can give
    BIGBLOCK_UNITS   \* SLOB_UNITS(sizeof(bigblock_t))

arena == 0
Pages == {2 + i * PAGE_UNITS : i \in 0..(NPAGES - 1)}
Top   == 1 + NPAGES * PAGE_UNITS
Addr  == 0..Top
NULL  == -1

VARIABLES
    next,            \* of the free blocks; NULL elsewhere
    units,           \* of free and of owned blocks; 0 elsewhere
    slobfree,
    pages,           \* pages taken for the list
    allocated,       \* the blocks kmalloc and bigblocks have
    bigblocks        \* <<page, bb>>: a page of its own, and its bigblock_t

vars == <<next, units, slobfree, pages, allocated, bigblocks>>

Init ==
    /\ next = [a \in Addr |-> IF a = arena THEN arena ELSE NULL]
    /\ units = [a \in Addr |-> IF a = arena THEN 1 ELSE 0]
    /\ slobfree = arena
    /\ pages = {} /\ allocated = {} /\ bigblocks = {}

-----------------------------------------------------------------------------
\* The state of the list, and what is on it from block b on, once round
List == [next |-> next, units |-> units, slobfree |-> slobfree]
Ring(l, b) ==
    LET f[k \in Addr] ==
            IF k = 0 THEN <<b>>
            ELSE LET s  == f[k - 1]
                     nx == l.next[s[Len(s)]]
                 IN  IF nx = b THEN s ELSE Append(s, nx)
    IN  f[Top]
First(s, T) == s[CHOOSE i \in 1..Len(s) : s[i] \in T /\ \A j \in 1..(i - 1) : s[j] \notin T]

\* A faulty search: at the highest block it takes any b for the next one.
IsPlaceLow(l, cur, b) ==
    \/ b > cur /\ b < l.next[cur]
    \/ cur >= l.next[cur]

\* b belongs behind cur: between it and the next block, or at the wrap
IsPlace(l, cur, b) ==
    \/ b > cur /\ b < l.next[cur]
    \/ cur >= l.next[cur] /\ (b > cur \/ b < l.next[cur])

\* slob_free of a block whose header says n units: it is joined with the next
\* block and with the one before when they touch.
SlobFree(l, b, n) ==
    LET ring  == Ring(l, l.slobfree)
        cur   == First(ring, {c \in Addr : l.next[c] # NULL /\ IsPlace(l, c, b)})
        after == l.next[cur]
        up    == b + n = after
        u     == IF up THEN n + l.units[after] ELSE n
        nx    == IF up THEN l.next[after] ELSE after
        down  == cur + l.units[cur] = b
        gone  == (IF up THEN {after} ELSE {}) \cup (IF down THEN {b} ELSE {})
    IN  [next |-> [a \in Addr |-> IF a \in gone THEN NULL
                                  ELSE IF down THEN (IF a = cur THEN nx ELSE l.next[a])
                                  ELSE IF a = cur THEN b
                                  ELSE IF a = b THEN nx ELSE l.next[a]],
         units |-> [a \in Addr |-> IF a \in gone THEN 0
                                   ELSE IF down THEN (IF a = cur THEN l.units[a] + u ELSE l.units[a])
                                   ELSE IF a = b THEN u ELSE l.units[a]],
         slobfree |-> cur]

\* The search of slob_alloc starts behind slobfree and ends with it.
Search(l) == Ring(l, l.next[l.slobfree])
RoomFor(l, n) == {c \in Addr : l.next[c] # NULL /\ l.units[c] >= n}
Before(l, c) == CHOOSE b \in Addr : l.next[b] = c

\* Block c serves n units: all of it, or its front.
Carve(l, c, n) ==
    LET prev == Before(l, c)
        rest == c + n
        l2   == IF l.units[c] = n
                THEN [next |-> [l.next EXCEPT ![prev] = l.next[c]], units |-> l.units]
                ELSE [next |-> [l.next EXCEPT ![prev] = rest, ![rest] = l.next[c]],
                      units |-> [l.units EXCEPT ![rest] = l.units[c] - n, ![c] = n]]
    IN  [next |-> [l2.next EXCEPT ![c] = NULL], units |-> l2.units, slobfree |-> prev]

\* slob_alloc: with a page from alloc_pages in the list when nothing fits.  It
\* gives the list after the call, the block, and the pages that were taken.
Served(l, n, grown) ==
    LET c == First(Search(l), RoomFor(l, n)) IN [list |-> Carve(l, c, n), block |-> c, grown |-> grown]
SlobAlloc(l, n, free) ==
    IF RoomFor(l, n) # {} THEN {Served(l, n, {})}
    ELSE {Served(SlobFree(l, p, PAGE_UNITS), n, {p}) : p \in free}

SetList(l) == next' = l.next /\ units' = l.units /\ slobfree' = l.slobfree

BigPages == {b[1] : b \in bigblocks}
FreePages == Pages \ (pages \cup BigPages)

-----------------------------------------------------------------------------
\* kmalloc of less than a page: n units with the header, so two at least, and
\* not the whole page: slob_alloc asserts room for one more header (line 99).
Kmalloc(n) ==
    \E r \in SlobAlloc(List, n, FreePages) :
        /\ SetList(r.list)
        /\ pages' = pages \cup r.grown
        /\ allocated' = allocated \cup {r.block}
        /\ UNCHANGED bigblocks

\* kmalloc of a page: the bigblock_t first; if there is no page for it, it is
\* freed again.
KmallocPage ==
    \E r \in SlobAlloc(List, BIGBLOCK_UNITS, FreePages) :
        /\ pages' = pages \cup r.grown
        /\ IF FreePages = r.grown
           THEN SetList(SlobFree(r.list, r.block, BIGBLOCK_UNITS)) /\ UNCHANGED <<allocated, bigblocks>>
           ELSE /\ SetList(r.list)
                /\ allocated' = allocated \cup {r.block}
                /\ \E p \in FreePages \ r.grown : bigblocks' = bigblocks \cup {<<p, r.block>>}

\* kfree of a small block: what is on a page boundary and not in bigblocks is
\* one whose header is the last unit of the page before.
Small == allocated \ {b[2] : b \in bigblocks}
Kfree(b) ==
    /\ SetList(SlobFree(List, b, units[b]))
    /\ allocated' = allocated \ {b}
    /\ UNCHANGED <<pages, bigblocks>>

KfreePage(b) ==
    /\ SetList(SlobFree(List, b[2], BIGBLOCK_UNITS))
    /\ allocated' = allocated \ {b[2]}
    /\ bigblocks' = bigblocks \ {b}
    /\ UNCHANGED pages

Next == \/ \E n \in 2..(PAGE_UNITS - 1) : Kmalloc(n)
        \/ KmallocPage
        \/ \E b \in Small : Kfree(b)
        \/ \E b \in bigblocks : KfreePage(b)

Spec == Init /\ [][Next]_vars

-----------------------------------------------------------------------------
Block(b) == b..(b + units[b] - 1)
Free == {a \in Addr : next[a] # NULL}

\* The list is one ring through slobfree, in address order but for one wrap,
\* with no two blocks that touch; free and allocated blocks together are the
\* arena and the pages taken, no unit of them twice.
SlobExact ==
    LET ring == Ring(List, slobfree)
    IN  /\ {ring[i] : i \in 1..Len(ring)} = Free /\ Cardinality(Free) = Len(ring)
        /\ Cardinality({a \in Free : next[a] <= a}) = 1
        /\ \A a \in Free : a + units[a] # next[a]
        /\ \A a, b \in Free \cup allocated : a # b => Block(a) \cap Block(b) = {}
        /\ UNION {Block(a) : a \in Free \cup allocated}
              = {arena} \cup UNION {p..(p + PAGE_UNITS - 1) : p \in pages}
        /\ \A b \in bigblocks : b[2] \in allocated /\ b[1] \notin pages

=============================================================================
