---------------------------- MODULE SemPhilosophers ----------------------------
(***************************************************************************)
(* The dining philosophers of kern/sync/check_sync.c:84-130, who share     *)
(* their forks through semaphores: mutex for the critical section and one  *)
(* for each of them to wait on.                                            *)
(***************************************************************************)
EXTENDS Semaphores

CONSTANTS
    N, TIMES,
    mutex,
    Own              \* the semaphore s[i] of each

Left(i)  == (i + N - 1) % N
Right(i) == (i + 1) % N

VARIABLES
    state,           \* state_sema
    at,              \* where a philosopher is in its program
    blocked,         \* it is inside the schedule() of the down there
    iter

vars == <<cpuVars, semVars, state, at, blocked, iter>>

Init ==
    /\ SemInit
    /\ run_list = [k \in 1..N |-> k - 1]
    /\ state = [i \in Proc |-> "THINKING"]
    /\ at = [i \in Proc |-> "think"]
    /\ blocked = [i \in Proc |-> FALSE]
    /\ iter = [i \in Proc |-> 0]

On(place) == current # NULL /\ at[current] = place
GoTo(place) == at' = [at EXCEPT ![current] = place]

\* down(s) at place `from'
Down(s, from, to) ==
    /\ On(from)
    /\ \/ /\ ~ blocked[current] /\ Take(s) /\ GoTo(to) /\ UNCHANGED blocked
       \/ /\ ~ blocked[current] /\ Block(s) /\ UNCHANGED at
          /\ blocked' = [blocked EXCEPT ![current] = TRUE]
       \/ /\ blocked[current] /\ Unblock(s)
          /\ blocked' = [blocked EXCEPT ![current] = FALSE]
          /\ GoTo(IF WokenByUp THEN to ELSE "panic")
    /\ UNCHANGED <<state, iter>>

Sleep(from, to) ==
    /\ On(from) /\ iter[current] < TIMES /\ StartSleep /\ GoTo(to)
    /\ UNCHANGED <<state, blocked, iter>>

MayEat(st, j) == st[j] = "HUNGRY" /\ st[Left(j)] # "EATING" /\ st[Right(j)] # "EATING"

\* A faulty phi_test_sema: a philosopher that tests itself gets no signal.
PhiTestUnsignalled(st, j) ==
    /\ state' = [st EXCEPT ![j] = IF MayEat(st, j) THEN "EATING" ELSE @]
    /\ IF MayEat(st, j) /\ j # current THEN Up(Own[j]) ELSE UNCHANGED <<cpuVars, semVars>>

\* phi_test_sema(j), where the states are st
PhiTest(st, j) ==
    /\ state' = [st EXCEPT ![j] = IF MayEat(st, j) THEN "EATING" ELSE @]
    /\ IF MayEat(st, j) THEN Up(Own[j]) ELSE UNCHANGED <<cpuVars, semVars>>

Test(from, st, j, to) ==
    /\ On(from) /\ PhiTest(st, j) /\ GoTo(to)
    /\ UNCHANGED <<blocked, iter>>

\* phi_take_forks_sema
TakeForks ==
    \/ Down(mutex, "take", "test")
    \/ Test("test", [state EXCEPT ![current] = "HUNGRY"], current, "taken")
    \/ On("taken") /\ Up(mutex) /\ GoTo("wait") /\ UNCHANGED <<state, blocked, iter>>
    \/ current # NULL /\ Down(Own[current], "wait", "eat")

\* phi_put_forks_sema
PutForks ==
    \/ Down(mutex, "put", "left")
    \/ Test("left", [state EXCEPT ![current] = "THINKING"], Left(current), "right")
    \/ Test("right", state, Right(current), "done")
    \/ /\ On("done") /\ Up(mutex) /\ GoTo("think")
       /\ iter' = [iter EXCEPT ![current] = @ + 1]
       /\ UNCHANGED <<state, blocked>>

Quit ==
    /\ On("think") /\ iter[current] = TIMES /\ GoTo("quit")
    /\ Switch(run_list)
    /\ UNCHANGED <<wait_state, semVars, state, blocked, iter>>

Philosopher == \/ Sleep("think", "take") \/ TakeForks
               \/ Sleep("eat", "put") \/ PutForks \/ Quit

Wakes(i) == TimerFires(i) /\ UNCHANGED <<state, at, blocked, iter>>
Waits == IdleSchedules /\ UNCHANGED <<state, at, blocked, iter>>

\* s[i] carries a unit, or its philosopher has been handed one.
SignalPending(i) == value[Own[i]] = 1 \/ (at[i] = "wait" /\ blocked[i] /\ wait_state[i] = "0")

=============================================================================
