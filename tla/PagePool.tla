-------------------------------- MODULE PagePool --------------------------------
(***************************************************************************)
(* What every allocator promises: it hands out runs of memory that nobody  *)
(* has, and what has been handed out stays its owner's until it is freed.  *)
(***************************************************************************)
EXTENDS Integers, FiniteSets

VARIABLES
    area,            \* the memory the allocator manages
    held             \* what is handed out

Init == held = {}

Run(b, n) == b..(b + n - 1)
Runs(S) == {r \in {Run(b, n) : b \in S, n \in 1..Cardinality(S)} : r \subseteq S}

Allocate == \E r \in Runs(area \ held) : held' = held \cup r
Release  == \E r \in Runs(held) : held' = held \ r

Spec == Init /\ [][area' = area /\ (Allocate \/ Release)]_<<area, held>>

=============================================================================
