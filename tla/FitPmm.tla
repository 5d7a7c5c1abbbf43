-------------------------------- MODULE FitPmm --------------------------------
(***************************************************************************)
(* The two allocators of page runs that keep one list of free blocks in    *)
(* address order: best fit (lab2/kern/mm/best_fit_pmm.c) and first fit     *)
(* (lab8/kern/mm/default_pmm.c).  The list is modelled link by link, since *)
(* what can go wrong is in the links: list_add and list_del write through  *)
(* pointers that an earlier mistake has left wrong.                        *)
(***************************************************************************)
EXTENDS Integers, Sequences, FiniteSets

CONSTANT N           \* the pages of the free area, 0..N-1

Page == 0..(N - 1)
FREE_LIST == N       \* &free_list, the head of the circular list
NULL == N + 1

VARIABLES
    manager,         \* "best_fit" or "default": pmm_manager
    next, prev,      \* page_link of every page, and the head
    property,        \* the length of the block, in its first page
    PG_property,     \* the flag: a free block begins here
    nr_free,
    owned            \* the pages that are handed out

vars == <<manager, next, prev, property, PG_property, nr_free, owned>>

Block(b, n) == b..(b + n - 1)

\* list.h, on a record of both links
Links == [next |-> next, prev |-> prev]
AddBetween(l, e, p, n) ==
    [next |-> [l.next EXCEPT ![p] = e, ![e] = n],
     prev |-> [l.prev EXCEPT ![n] = e, ![e] = p]]
ListAdd(l, p, e)       == AddBetween(l, e, p, l.next[p])
ListAddBefore(l, p, e) == AddBetween(l, e, l.prev[p], p)
ListDel(l, e) ==
    [next |-> [l.next EXCEPT ![l.prev[e]] = l.next[e]],
     prev |-> [l.prev EXCEPT ![l.next[e]] = l.prev[e]]]

\* The blocks met from free_list on along the links nx, in the order of the walk
WalkAlong(nx) ==
    LET f[k \in 0..N] ==
            IF k = 0 THEN <<>>
            ELSE LET w == f[k - 1]
                     le == IF w = <<>> THEN nx[FREE_LIST] ELSE nx[w[Len(w)]]
                 IN  IF Len(w) < k - 1 \/ le = FREE_LIST THEN w ELSE Append(w, le)
    IN  f[N]
Walk == WalkAlong(next)

\* The links and the length in a page that free_list does not lead to are
\* written before they are read again: they are forgotten here.
SetBlocks(l, length) ==
    LET met == {WalkAlong(l.next)[i] : i \in 1..Len(WalkAlong(l.next))} \cup {FREE_LIST}
    IN  /\ next' = [le \in Page \cup {FREE_LIST} |-> IF le \in met THEN l.next[le] ELSE FREE_LIST]
        /\ prev' = [le \in Page \cup {FREE_LIST} |-> IF le \in met THEN l.prev[le] ELSE FREE_LIST]
        /\ property' = [p \in Page |-> IF p \in met THEN length[p] ELSE 0]

\* best_fit_init, best_fit_init_memmap of the whole area
Init ==
    /\ manager \in {"best_fit", "default"}
    /\ next = [le \in Page \cup {FREE_LIST} |-> IF le = FREE_LIST THEN 0 ELSE FREE_LIST]
    /\ prev = [le \in Page \cup {FREE_LIST} |-> IF le = FREE_LIST THEN 0 ELSE FREE_LIST]
    /\ property = [p \in Page |-> IF p = 0 THEN N ELSE 0]
    /\ PG_property = [p \in Page |-> p = 0]
    /\ nr_free = N
    /\ owned = {}

-----------------------------------------------------------------------------
\* The first block of the walk that is long enough; best fit takes the first of
\* the shortest ones.
Fits(n) == {i \in 1..Len(Walk) : property[Walk[i]] >= n}
Better(i, j) ==
    IF manager = "best_fit" /\ property[Walk[i]] # property[Walk[j]]
    THEN property[Walk[i]] < property[Walk[j]]
    ELSE i <= j

\* best_fit_alloc_pages, default_alloc_pages
Choice(n) ==
    IF n > nr_free \/ Fits(n) = {} THEN NULL
    ELSE Walk[CHOOSE i \in Fits(n) : \A j \in Fits(n) : Better(i, j)]

\* What is left of a block when n pages are taken from its front
Rest(page, n) == property[page] - n

Alloc(n) ==
    LET page == Choice(n)
        rest == Rest(page, n)
        l    == ListDel(Links, page)
        l2   == IF rest > 0 THEN ListAdd(l, prev[page], page + n) ELSE l
    IN  /\ page # NULL
        /\ SetBlocks(l2, IF rest > 0 THEN [property EXCEPT ![page + n] = rest] ELSE property)
        /\ PG_property' = [p \in Page |-> IF p = page THEN FALSE
                                          ELSE PG_property[p] \/ (rest > 0 /\ p = page + n)]
        /\ nr_free' = nr_free - n
        /\ owned' = owned \cup Block(page, n)
        /\ UNCHANGED manager

-----------------------------------------------------------------------------
\* The insertion loop: before the first block above base, or at the end.  That
\* of default_pmm.c has no break after the second case: it goes round once
\* more, with base as the last block, and links base behind itself.
AtEnd(l, base) ==
    LET last == Walk[Len(Walk)]
        once == ListAdd(l, last, base)
    IN  IF manager = "default" THEN ListAdd(once, base, base) ELSE once

Insert(l, base) ==
    LET above == {i \in 1..Len(Walk) : base < Walk[i]}
    IN  IF Walk = <<>> THEN ListAdd(l, FREE_LIST, base)
        ELSE IF above = {} THEN AtEnd(l, base)
        ELSE ListAddBefore(l, Walk[CHOOSE i \in above : \A j \in above : i <= j], base)

\* Block q is absorbed by block p.
Join(s, p, q) ==
    [property |-> [s.property EXCEPT ![p] = @ + s.property[q]],
     flag |-> [s.flag EXCEPT ![q] = FALSE],
     links |-> ListDel(s.links, q)]

Touch(s, p, q) == FREE_LIST \notin {p, q} /\ p + s.property[p] = q

\* ... with the block before it, and what that gives with the one after it
Merged(s, base) ==
    LET p  == s.links.prev[base]
        s1 == IF Touch(s, p, base) THEN Join(s, p, base) ELSE s
        b  == IF Touch(s, p, base) THEN p ELSE base
        q  == s1.links.next[b]
    IN  IF Touch(s1, b, q) THEN Join(s1, b, q) ELSE s1

\* best_fit_free_pages, default_free_pages, of pages their owner still has: a
\* whole allocation or, as the checks do, a part of one
Free(base, n) ==
    LET s == Merged([property |-> [property EXCEPT ![base] = n],
                     flag |-> [PG_property EXCEPT ![base] = TRUE],
                     links |-> Insert(Links, base)], base)
    IN  /\ Block(base, n) \subseteq owned
        /\ SetBlocks(s.links, s.property)
        /\ PG_property' = s.flag
        /\ nr_free' = nr_free + n
        /\ owned' = owned \ Block(base, n)
        /\ UNCHANGED manager

Next == \E n \in 1..N : Alloc(n) \/ \E base \in Page : Free(base, n)

Spec == Init /\ [][Next]_vars

-----------------------------------------------------------------------------
\* default_pmm.c:40: a block that is handed out has been unlinked.
AllocatedIsUnlinked == \A i \in 1..Len(Walk) : Walk[i] \notin owned

\* The list holds the maximal runs of free pages, each once and in address
\* order, linked both ways, and nr_free counts them.
FreeRun(p, n) ==
    /\ Block(p, n) \subseteq Page \ owned
    /\ p - 1 \notin Page \ owned /\ p + n \notin Page \ owned
FitExact ==
    /\ \A i \in 1..Len(Walk) :
        /\ FreeRun(Walk[i], property[Walk[i]]) /\ property[Walk[i]] > 0
        /\ i > 1 => Walk[i - 1] < Walk[i]
        /\ prev[Walk[i]] = IF i = 1 THEN FREE_LIST ELSE Walk[i - 1]
    /\ \A p \in Page : PG_property[p] <=> \E i \in 1..Len(Walk) : Walk[i] = p
    /\ nr_free = N - Cardinality(owned)
    /\ \A p \in Page \ owned : \E i \in 1..Len(Walk) : p \in Block(Walk[i], property[Walk[i]])

=============================================================================
