--------------------------------- MODULE MCSync ---------------------------------
(***************************************************************************)
(* What kernel threads wait in: three of them on two semaphores, one used  *)
(* as a mutex and one to signal, or in a monitor with two condition        *)
(* variables.  `part' says which; the other stays as it begins.  The CPU   *)
(* is the same for both.                                                   *)
(***************************************************************************)
EXTENDS SemProps, TLC

CONSTANTS
    p1, p2, p3, s1, s2,      \* the threads and the semaphores
    mutex, next, Cv          \* Monitor

VARIABLES part, mvalue, mwait_queue, next_count, count, mpc, cv

MCInitialValue == (s1 :> 1) @@ (s2 :> 0)

MonSem == {mutex, next} \cup Cv
MonInitialValue == [s \in MonSem |-> IF s = mutex THEN 1 ELSE 0]

\* The semaphores of a monitor are different objects, and none of them is NULL.
ASSUME MonSemAssumption ==
    mutex # next /\ {mutex, next} \cap Cv = {} /\ NULL \notin MonSem

Mon == INSTANCE MonitorProps
         WITH Sem <- MonSem, InitialValue <- MonInitialValue,
              value <- mvalue, wait_queue <- mwait_queue

semOnly == <<value, wait_queue, pc, want, exiting, balance>>
monOnly == <<mvalue, mwait_queue, next_count, count, mpc, cv>>

SyncInit == part \in {"semaphores", "monitor"} /\ Init /\ Mon!Init

SyncNext ==
    \/ part = "semaphores" /\ Next /\ UNCHANGED <<part, monOnly>>
    \/ part = "monitor" /\ Mon!Next /\ UNCHANGED <<part, semOnly>>

\* The fairness of SemClients; what is checked of the monitor is safety.
SyncSpec ==
    /\ SyncInit /\ [][SyncNext]_<<part, vars, monOnly>>
    /\ WF_vars(part = "semaphores" /\ Idle)
    /\ WF_vars(part = "semaphores" /\ DownReturns)
    /\ SF_vars(part = "semaphores" /\ Yield)
    /\ \A p \in Proc : WF_vars(part = "semaphores" /\ Timer(p))

-----------------------------------------------------------------------------
\* The properties of MonitorProps: one thread at a time is active in a monitor,
\* the counters of monitor.c say who is asleep, and the semaphores make it a
\* monitor with signal-and-urgent-wait.
OneActive       == Mon!OneActive
CountsExact     == Mon!CountsExact
ImplementsHoare == Mon!ImplementsHoare

=============================================================================
