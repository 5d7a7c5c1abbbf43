-------------------------------- MODULE Lists --------------------------------
\* A linked list of list.h seen as a sequence: what is on it, and whether
\* nothing is on it twice.
EXTENDS Naturals, Sequences

Elems(s) == {s[i] : i \in 1..Len(s)}
Distinct(s) == \A i, j \in 1..Len(s) : s[i] = s[j] => i = j

\* The elements of s that are in T, in their order (SelectSeq for a set)
Keep(s, T) ==
    LET f[i \in 0..Len(s)] ==
            IF i = 0 THEN <<>>
            ELSE IF s[i] \in T THEN Append(f[i - 1], s[i]) ELSE f[i - 1]
    IN  f[Len(s)]

=============================================================================
