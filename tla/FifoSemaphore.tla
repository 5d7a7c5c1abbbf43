---------------------------- MODULE FifoSemaphore ----------------------------
(***************************************************************************)
(* What a semaphore promises: a counter that never goes below zero and a   *)
(* line in which nobody is overtaken.  A unit given by up goes to the      *)
(* first in the line, and to the counter only when there is no line.       *)
(***************************************************************************)
EXTENDS Naturals, Sequences

CONSTANTS Proc, Sem, InitialValue

VARIABLES
    units,           \* what is left to take
    line,            \* who waits, in the order of arrival
    phase            \* of a thread: "idle", "waiting", or "served"

vars == <<units, line, phase>>

Init ==
    /\ units = InitialValue
    /\ line = [s \in Sem |-> <<>>]
    /\ phase = [p \in Proc |-> "idle"]

Take(p, s) ==
    /\ phase[p] = "idle" /\ units[s] > 0 /\ line[s] = <<>>
    /\ units' = [units EXCEPT ![s] = @ - 1]
    /\ UNCHANGED <<line, phase>>

Join(p, s) ==
    /\ phase[p] = "idle" /\ units[s] = 0
    /\ line' = [line EXCEPT ![s] = Append(@, p)]
    /\ phase' = [phase EXCEPT ![p] = "waiting"]
    /\ UNCHANGED units

Release(s) ==
    /\ line[s] = <<>>
    /\ units' = [units EXCEPT ![s] = @ + 1]
    /\ UNCHANGED <<line, phase>>

Serve(s) ==
    /\ line[s] # <<>>
    /\ phase[Head(line[s])] = "waiting"
    /\ phase' = [phase EXCEPT ![Head(line[s])] = "served"]
    /\ line' = [line EXCEPT ![s] = Tail(@)]
    /\ UNCHANGED units

Return(p) ==
    /\ phase[p] = "served"
    /\ phase' = [phase EXCEPT ![p] = "idle"]
    /\ UNCHANGED <<units, line>>

Next == \/ \E s \in Sem : Release(s) \/ Serve(s)
        \/ \E p \in Proc, s \in Sem : Take(p, s) \/ Join(p, s)
        \/ \E p \in Proc : Return(p)

Safe == Init /\ [][Next]_vars

\* Whoever has been served gets out.
Spec == Safe /\ \A p \in Proc : WF_vars(Return(p))

=============================================================================
