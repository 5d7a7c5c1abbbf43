----------------------------- MODULE Philosophers -----------------------------
(***************************************************************************)
(* The dining philosophers of kern/sync/check_sync.c:170-235, who share    *)
(* their forks through a monitor.  The philosophers are kernel threads,    *)
(* and the monitor is that of Monitor.                                     *)
(***************************************************************************)
EXTENDS Monitor

CONSTANTS
    N,               \* philosophers
    TIMES,           \* meals of each
    Self             \* the condition variable mtp->cv[i] of each

ASSUME PhilosopherAssumption ==
    /\ N \in Nat \ {0, 1} /\ TIMES \in Nat
    /\ Proc = 0..(N - 1)
    /\ Self \in [Proc -> Cv] /\ \A i, j \in Proc : Self[i] = Self[j] => i = j

Left(i)  == (i + N - 1) % N
Right(i) == (i + 1) % N

VARIABLES
    state,           \* state_condvar
    at,              \* where a philosopher is in its program
    iter             \* meals it has had

phiVars == <<monVars, state, at, iter>>

PhiInit ==
    /\ InitMonitor
    /\ run_list = [k \in 1..N |-> k - 1]
    /\ state = [i \in Proc |-> "THINKING"]
    /\ at = [i \in Proc |-> "think"]
    /\ iter = [i \in Proc |-> 0]

On(place) == current # NULL /\ at[current] = place
GoTo(place) == at' = [at EXCEPT ![current] = place]

\* A faulty test: only one neighbour is looked at.
MayEatLeftOnly(st, j) == st[j] = "HUNGRY" /\ st[Left(j)] # "EATING"

MayEat(st, j) == st[j] = "HUNGRY" /\ st[Left(j)] # "EATING" /\ st[Right(j)] # "EATING"

\* phi_test_condvar(j), where the states are st: the philosopher eats from now
\* on, and is signalled if it sleeps.
PhiTest(st, j) ==
    /\ state' = [st EXCEPT ![j] = IF MayEat(st, j) THEN "EATING" ELSE @]
    /\ IF MayEat(st, j) /\ count[Self[j]] > 0 THEN Signal(Self[j]) ELSE UNCHANGED monVars

\* do_sleep(SLEEP_TIME), and the way on
Sleep(from, to) ==
    /\ On(from) /\ iter[current] < TIMES
    /\ StartSleep /\ GoTo(to)
    /\ UNCHANGED <<next_count, count, mpc, cv, state, iter>>

Think == Sleep("think", "take")
Eat   == Sleep("eat", "put")

\* down(&mtp->mutex) at the head of both routines
GoIn == (On("take") \/ On("put")) /\ (Enter \/ EnterEnds) /\ UNCHANGED <<state, at, iter>>

\* phi_take_forks_condvar
TakeForks ==
    /\ On("take") /\ Is("in")
    /\ PhiTest([state EXCEPT ![current] = "HUNGRY"], current)
    /\ GoTo("check") /\ UNCHANGED iter

TakeWaits ==
    /\ On("check") /\ Is("in")
    /\ IF state[current] = "HUNGRY" THEN Wait(Self[current]) ELSE UNCHANGED monVars
    /\ GoTo("taken") /\ UNCHANGED <<state, iter>>

TakeLeaves == On("taken") /\ Leave /\ GoTo("eat") /\ UNCHANGED <<state, iter>>

\* phi_put_forks_condvar
PutForks ==
    /\ On("put") /\ Is("in")
    /\ PhiTest([state EXCEPT ![current] = "THINKING"], Left(current))
    /\ GoTo("right") /\ UNCHANGED iter

\* A faulty phi_put_forks: the right neighbour is forgotten.
PutRightForgotten ==
    /\ On("right") /\ Is("in") /\ GoTo("done")
    /\ UNCHANGED <<monVars, state, iter>>

PutRight ==
    /\ On("right") /\ Is("in") /\ PhiTest(state, Right(current))
    /\ GoTo("done") /\ UNCHANGED iter

PutLeaves ==
    /\ On("done") /\ Leave
    /\ iter' = [iter EXCEPT ![current] = @ + 1]
    /\ GoTo("think") /\ UNCHANGED state

\* the middle of cond_signal and cond_wait
InMonitor ==
    /\ StepBack \/ StepBackEnds \/ WaitBlocks \/ WaitEnds
    /\ UNCHANGED <<state, at, iter>>

\* the thread returns and do_exit gives up the CPU
Quit ==
    /\ On("think") /\ iter[current] = TIMES /\ GoTo("quit")
    /\ Switch(run_list)
    /\ UNCHANGED <<wait_state, semVars, next_count, count, mpc, cv, state, iter>>

Philosopher == \/ Think \/ GoIn \/ TakeForks \/ TakeWaits \/ TakeLeaves \/ Eat
               \/ PutForks \/ PutRight \/ PutLeaves \/ InMonitor \/ Quit

Wakes(i) == Timer(i) /\ UNCHANGED <<state, at, iter>>
Waits == Idle /\ UNCHANGED <<state, at, iter>>

=============================================================================
