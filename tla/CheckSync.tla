------------------------------- MODULE CheckSync -------------------------------
(***************************************************************************)
(* check_sync() of kern/sync/check_sync.c: the philosophers with           *)
(* semaphores, and when all of them have been waited for, those with the   *)
(* monitor.  The semaphores of the two parts are different objects; they   *)
(* go by the same names here, s[i] by that of mtp->cv[i].                  *)
(***************************************************************************)
EXTENDS Philosophers

VARIABLES
    part,            \* which philosophers there are, "sema" or "condvar"
    blocked          \* of SemPhilosophers

Sema == INSTANCE SemPhilosophers WITH Own <- Self

inMonitor == <<next_count, count, mpc, cv>>
syncVars  == <<phiVars, part, blocked>>

SyncInit == part = "sema" /\ PhiInit /\ Sema!Init

SemaStep(A)    == part = "sema" /\ A /\ UNCHANGED <<part, inMonitor>>
CondvarStep(A) == part = "condvar" /\ A /\ UNCHANGED <<part, blocked>>

\* do_wait has returned for each of them; monitor_init, and N new threads
SecondPart ==
    /\ part = "sema" /\ part' = "condvar"
    /\ \A i \in Proc : at[i] = "quit"
    /\ run_list' = [k \in 1..N |-> k - 1]
    /\ value' = InitialValue
    /\ wait_queue' = [s \in Sem |-> <<>>]
    /\ state' = [i \in Proc |-> "THINKING"]
    /\ at' = [i \in Proc |-> "think"]
    /\ iter' = [i \in Proc |-> 0]
    /\ wakeup_flags' = [p \in Proc |-> "WT_INTERRUPTED"]
    /\ UNCHANGED <<current, wait_state, inMonitor, blocked>>

Thread == SemaStep(Sema!Philosopher \/ Sema!Waits) \/ CondvarStep(Philosopher \/ Waits) \/ SecondPart
Clock(i) == SemaStep(Sema!Wakes(i)) \/ CondvarStep(Wakes(i))

SyncNext == Thread \/ \E i \in Proc : Clock(i)

\* The CPU goes on and sleepers wake.
SyncSpec == /\ SyncInit /\ [][SyncNext]_syncVars
            /\ WF_syncVars(Thread) /\ \A i \in Proc : WF_syncVars(Clock(i))

-----------------------------------------------------------------------------
\* No fork is in two hands, in either part: neighbours never eat at the same
\* time, and whoever has left phi_take_forks eats, though the state was set by
\* a neighbour and the thread slept in between.
ForksHeldOnce ==
    /\ \A i \in Proc : state[i] = "EATING" => state[Right(i)] # "EATING"
    /\ \A i \in Proc : at[i] \in {"eat", "put"} => state[i] = "EATING"

\* No meal is missed: with nobody in the critical section or active in the
\* monitor, a hungry philosopher has a neighbour that eats, whose
\* phi_put_forks will look at it.
HungryHasEatingNeighbour ==
    (value[mutex] = 1) =>
        \A i \in Proc : state[i] = "HUNGRY" => "EATING" \in {state[Left(i)], state[Right(i)]}

\* s[i] carries a unit, or its philosopher has been handed it, exactly between
\* the moment somebody makes i eat and the moment i is past its down: a signal
\* is neither lost nor left for the next round.
SignalsExact ==
    part = "sema" =>
        \A i \in Proc :
            /\ value[Self[i]] <= 1
            /\ Sema!SignalPending(i) <=> (state[i] = "EATING" /\ at[i] \in {"taken", "wait"})

\* Every philosopher has its meals and quits, and check_sync returns.
EverybodyQuits == <>(part = "condvar" /\ \A i \in Proc : at[i] = "quit")

=============================================================================
