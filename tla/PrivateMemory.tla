----------------------------- MODULE PrivateMemory -----------------------------
(***************************************************************************)
(* What fork, execve and exit promise a program: its memory is its own.    *)
(* The child of a fork starts with a copy of its parent's memory, and from *)
(* then on only a process's own stores and execs change what it reads.     *)
(***************************************************************************)
CONSTANTS Proc, Va, Value, NONE

VARIABLE memory      \* of each process, NONE when it has none

Init == memory \in [Proc -> [Va -> Value] \cup {NONE}]

Has(p) == memory[p] # NONE

Fork(p, c) == Has(p) /\ ~ Has(c) /\ memory' = [memory EXCEPT ![c] = memory[p]]
Exit(p)    == Has(p) /\ memory' = [memory EXCEPT ![p] = NONE]
Exec(p)    == Has(p) /\ \E image \in [Va -> Value] : memory' = [memory EXCEPT ![p] = image]
Store(p)   == Has(p) /\ \E va \in Va, v \in Value : memory' = [memory EXCEPT ![p][va] = v]

Next == \E p \in Proc : Exit(p) \/ Exec(p) \/ Store(p) \/ \E c \in Proc : Fork(p, c)

Spec == Init /\ [][Next]_memory

=============================================================================
