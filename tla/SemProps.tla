------------------------------- MODULE SemProps -------------------------------
(* What Semaphores owes any client, and that it is a FifoSemaphore.        *)
EXTENDS SemClients

\* The threads up() took off the wait queue that have not run since
Granted(s) == {p \in Proc : pc[p] = "down" /\ want[p] = s /\ p \notin Elems(wait_queue[s])}

\* Units are neither made nor lost: what was put in and not yet taken out by a
\* down that returned is in value or on its way to a thread that was handed it.
UnitsConserved == \A s \in Sem : balance[s] = value[s] + Cardinality(Granted(s))

\* A thread is linked into a wait queue, once, exactly while it sleeps in
\* down() of that semaphore; __up asserts wait_state == WT_KSEM of the first,
\* and a link left behind would point into a stack frame that is gone.  Nothing
\* but up() unlinks it: no kill and no timer makes the assertion flags == 0 of
\* down() fail.
WaitersExact ==
    /\ \A s \in Sem :
        /\ Distinct(wait_queue[s])
        /\ \A p \in Proc : p \in Elems(wait_queue[s])
                               <=> wait_state[p] = "WT_KSEM" /\ want[p] = s
    /\ \A p \in Proc : pc[p] # "panic"

-----------------------------------------------------------------------------
Phase(p) == IF pc[p] # "down" THEN "idle"
            ELSE IF p \in Elems(wait_queue[want[p]]) THEN "waiting" ELSE "served"

Fifo == INSTANCE FifoSemaphore
          WITH units <- value, line <- wait_queue, phase <- [p \in Proc |-> Phase(p)]

\* The code is a FIFO semaphore, whatever is killed, woken by a timer or moved
\* to the tail of the run queue in between; a thread handed a unit runs.
ImplementsFifo == Fifo!Spec

\* A thread in down() of a semaphore that gets units again and again returns.
DownReturnsIfUps ==
    \A p \in Proc, s \in Sem :
        []<><<DoUp(s)>>_vars =>
            ((pc[p] = "down" /\ want[p] = s) ~> pc[p] = "run")

=============================================================================
