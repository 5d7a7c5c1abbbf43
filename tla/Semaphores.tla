------------------------------ MODULE Semaphores ------------------------------
(***************************************************************************)
(* Semaphores and the wait queues under them: kern/sync/sem.c and          *)
(* kern/sync/wait.c, over the part of the scheduler they call.             *)
(*                                                                         *)
(* up() and down() run with interrupts off and the kernel is not           *)
(* preempted, so each is one step up to the schedule() inside down().      *)
(* What the kernel thread does between two of them is the business of the  *)
(* modules that extend this one.                                           *)
(***************************************************************************)
EXTENDS Naturals, Sequences, FiniteSets, Lists

CONSTANTS
    Proc,            \* the kernel threads
    Sem,             \* the semaphores
    InitialValue,    \* sem_init's value of each
    NULL             \* as current: no thread, the idle loop has the CPU

ASSUME SemAssumption ==
    /\ InitialValue \in [Sem -> Nat]
    /\ IsFiniteSet(Proc) /\ NULL \notin Proc
    /\ NULL \notin Sem

VARIABLES
    current,
    run_list,        \* RUNNABLE threads other than current, in queue order
    wait_state,      \* "0" while a thread is RUNNABLE
    value,           \* sem->value
    wait_queue,      \* sem->wait_queue: the threads whose wait_t is linked
    wakeup_flags     \* wait->wakeup_flags of the wait_t on a thread's stack

cpuVars == <<current, run_list, wait_state>>
semVars == <<value, wait_queue, wakeup_flags>>

\* wait_state & WT_INTERRUPTED (proc.h): do_kill may wake such a sleeper
Interruptible(ws) == ws = "WT_TIMER"

-----------------------------------------------------------------------------
\* schedule(): the head of the queue runs, idle if there is none.
Switch(queue) ==
    IF queue = <<>> THEN current' = NULL /\ run_list' = queue
                    ELSE current' = Head(queue) /\ run_list' = Tail(queue)

\* wakeup_proc, which leaves a RUNNABLE thread alone
Wakeup(p) ==
    /\ wait_state' = [wait_state EXCEPT ![p] = "0"]
    /\ run_list' = IF wait_state[p] = "0" THEN run_list ELSE Append(run_list, p)

\* wakeup_wait on the first of a wait queue
WakeupWait(s, p) ==
    /\ wait_queue' = [wait_queue EXCEPT ![s] = Tail(@)]
    /\ wakeup_flags' = [wakeup_flags EXCEPT ![p] = "WT_KSEM"]
    /\ Wakeup(p)

\* A faulty up: the unit goes to value as well as to the first waiter.
UpForAll(s) ==
    /\ value' = [value EXCEPT ![s] = @ + 1]
    /\ IF wait_queue[s] = <<>>
       THEN UNCHANGED <<wait_queue, wakeup_flags, run_list, wait_state>>
       ELSE WakeupWait(s, Head(wait_queue[s]))
    /\ UNCHANGED current

\* A faulty up: wakeup_wait with del = 0.
UpKeepsLink(s) ==
    /\ IF wait_queue[s] = <<>>
       THEN /\ value' = [value EXCEPT ![s] = @ + 1]
            /\ UNCHANGED <<wakeup_flags, run_list, wait_state>>
       ELSE /\ wakeup_flags' = [wakeup_flags EXCEPT ![Head(wait_queue[s])] = "WT_KSEM"]
            /\ Wakeup(Head(wait_queue[s]))
            /\ UNCHANGED value
    /\ UNCHANGED <<wait_queue, current>>

\* __up: a waiting thread is handed the unit, value does not see it.
Up(s) ==
    /\ IF wait_queue[s] = <<>>
       THEN /\ value' = [value EXCEPT ![s] = @ + 1]
            /\ UNCHANGED <<wait_queue, wakeup_flags, run_list, wait_state>>
       ELSE WakeupWait(s, Head(wait_queue[s])) /\ UNCHANGED value
    /\ UNCHANGED current

\* __down when there is a unit, and the whole of try_down when it succeeds
Take(s) ==
    /\ value[s] > 0
    /\ value' = [value EXCEPT ![s] = @ - 1]
    /\ UNCHANGED <<wait_queue, wakeup_flags, cpuVars>>

\* A faulty wait_current_set: the newcomer is linked at the head of the queue.
WaitCurrentSetInFront(s) ==
    /\ wait_state' = [wait_state EXCEPT ![current] = "WT_KSEM"]
    /\ wakeup_flags' = [wakeup_flags EXCEPT ![current] = "WT_INTERRUPTED"]
    /\ wait_queue' = [wait_queue EXCEPT ![s] = <<current>> \o @]

\* wait_current_set: a wait_t on the stack of current, at the tail
WaitCurrentSet(s) ==
    /\ wait_state' = [wait_state EXCEPT ![current] = "WT_KSEM"]
    /\ wakeup_flags' = [wakeup_flags EXCEPT ![current] = "WT_INTERRUPTED"]
    /\ wait_queue' = [wait_queue EXCEPT ![s] = Append(@, current)]

\* __down when there is none, up to its schedule()
Block(s) ==
    /\ value[s] = 0
    /\ WaitCurrentSet(s)
    /\ Switch(run_list)
    /\ UNCHANGED value

\* ... and after it: wait_current_del
Unblock(s) ==
    /\ wait_queue' = [wait_queue EXCEPT ![s] = Keep(@, Proc \ {current})]
    /\ UNCHANGED <<value, wakeup_flags, cpuVars>>

\* down() asserts flags == 0: the wakeup came from an up.
WokenByUp == wakeup_flags[current] = "WT_KSEM"

\* do_sleep up to its schedule(); the timer itself is in Timers.
StartSleep ==
    /\ wait_state' = [wait_state EXCEPT ![current] = "WT_TIMER"]
    /\ Switch(run_list)
    /\ UNCHANGED semVars

\* run_timer_list wakes a sleeper whose time is over
TimerFires(p) ==
    /\ wait_state[p] = "WT_TIMER"
    /\ Wakeup(p)
    /\ UNCHANGED <<current, semVars>>

\* cpu_idle
IdleSchedules == current = NULL /\ run_list # <<>> /\ Switch(run_list)
                 /\ UNCHANGED <<wait_state, semVars>>

SemInit ==
    /\ current = NULL
    /\ wait_state = [p \in Proc |-> "0"]
    /\ value = InitialValue
    /\ wait_queue = [s \in Sem |-> <<>>]
    /\ wakeup_flags = [p \in Proc |-> "WT_INTERRUPTED"]

=============================================================================
