-------------------------------- MODULE Proc --------------------------------
(***************************************************************************)
(* Processes and their scheduling: kern/process/proc.c, kern/schedule/     *)
(* sched.c with the round-robin class of default_sched.c, and the tail of  *)
(* kern/trap/trap.c.                                                       *)
(*                                                                         *)
(* There is one CPU and the kernel is not preempted: a context switch      *)
(* happens only inside schedule().  An action is therefore what `current'  *)
(* does up to the next point where it may lose the CPU or take a timer     *)
(* interrupt, and pc[p] says where process p continues.                    *)
(***************************************************************************)
EXTENDS Naturals, Sequences, FiniteSets, Timers

CONSTANTS
    Proc,            \* the process structures kmalloc can hand out
    idleproc,        \* pid 0, the idle loop
    initproc,        \* pid 1, init_main
    NULL,            \* no process; also the pid 0 argument of do_wait
    Killable,        \* the processes user programs name in sys_kill
    MAX_TIME_SLICE,
    MAX_SLEEP        \* bound on the argument of sys_sleep

ASSUME ProcAssumption ==
    /\ idleproc \in Proc /\ initproc \in Proc /\ idleproc # initproc
    /\ NULL \notin Proc
    /\ Killable \subseteq Proc \ {idleproc}
    /\ IsFiniteSet(Proc)

ASSUME BoundsAssumption ==
    MAX_TIME_SLICE \in Nat \ {0} /\ MAX_SLEEP \in Nat \ {0}

Users == Proc \ {idleproc, initproc}

VARIABLES
    current,         \* the process that owns the CPU
    state,           \* proc->state; "NONE" for a structure that is free
    wait_state,      \* proc->wait_state: 0, "WT_CHILD" or "WT_TIMER"
    exiting,         \* PF_EXITING in proc->flags
    parent,          \* proc->parent
    nr_process,
    pc,              \* where the process continues when it has the CPU
    wait_pid,        \* the pid argument of the do_wait it is in
    run_list,        \* the round-robin queue
    time_slice,
    need_resched,
    timer_list

treeVars  == <<parent, nr_process>>
schedVars == <<current, run_list, time_slice, need_resched>>
vars == <<current, state, wait_state, exiting, parent, nr_process, pc,
          wait_pid, run_list, time_slice, need_resched, timer_list>>

PcUser == {"none", "user_main", "user", "trapret", "wait", "sleep", "dead"}
PcInit == {"start", "reap", "reaped", "wait", "done", "panic"}

\* The type invariant: every field holds a value proc.h gives it.
TypeOK ==
    /\ current \in Proc
    /\ state \in [Proc -> {"NONE", "SLEEPING", "RUNNABLE", "ZOMBIE"}]
    /\ wait_state \in [Proc -> {"0", "WT_CHILD", "WT_TIMER"}]
    /\ exiting \in [Proc -> BOOLEAN]
    /\ parent \in [Proc -> Proc \cup {NULL}]
    /\ nr_process \in Nat
    /\ pc \in [Proc -> PcUser \cup PcInit \cup {"idle"}]
    /\ wait_pid \in [Proc -> Proc \cup {NULL}]
    /\ run_list \in Seq(Proc)
    /\ time_slice \in [Proc -> 0..MAX_TIME_SLICE]
    /\ need_resched \in [Proc -> BOOLEAN]
    /\ timer_list \in Seq([proc : Proc, expires : Nat])

-----------------------------------------------------------------------------
(* sched.c *)

\* RR_enqueue's refill of a slice that is used up
Refill(ts, q) ==
    IF ts[q] = 0 \/ ts[q] > MAX_TIME_SLICE THEN [ts EXCEPT ![q] = MAX_TIME_SLICE] ELSE ts

\* A faulty Asleep: the test of proc->state is missing
AsleepWithoutTest(ws) == ws

\* wakeup_proc leaves a process alone that is RUNNABLE already
Asleep(ws) == Keep(ws, {q \in Proc : state[q] # "RUNNABLE"})

\* A faulty WaitStateCleared: the assignment is missing
WaitStateKept(woken) == wait_state

\* ... and clears the wait_state of one it wakes
WaitStateCleared(woken) == [q \in Proc |-> IF q \in woken THEN "0" ELSE wait_state[q]]

\* wakeup_proc on every process of the sequence ws, none of them current:
\* those it wakes go to the tail of the run queue in that order.
WakeupProcs(ws) ==
    LET asleep == Asleep(ws)
        woken  == Elems(asleep)
    IN  [state |-> [q \in Proc |-> IF q \in woken THEN "RUNNABLE" ELSE state[q]],
         wait  |-> WaitStateCleared(woken),
         queue |-> run_list \o asleep,
         slice |-> [q \in Proc |-> IF q \in woken THEN Refill(time_slice, q)[q]
                                                  ELSE time_slice[q]]]

\* schedule(), given the states, queue and slices at the call: a current that
\* is still RUNNABLE goes to the tail, the head of the queue runs, idle if
\* there is none.  sched_class_enqueue never queues idleproc.
Schedule(st, queue, slice) ==
    LET requeue == st[current] = "RUNNABLE" /\ current # idleproc
        q == IF requeue THEN Append(queue, current) ELSE queue
    IN  /\ need_resched' = [need_resched EXCEPT ![current] = FALSE]
        /\ time_slice' = IF requeue THEN Refill(slice, current) ELSE slice
        /\ IF q = <<>> THEN current' = idleproc /\ run_list' = q
                       ELSE current' = Head(q) /\ run_list' = Tail(q)

\* A faulty SliceLeft: no decrement
SliceLeftForgotten(n) == n

\* RR_proc_tick: what a tick leaves of a slice
SliceLeft(n) == IF n > 0 THEN n - 1 ELSE 0

-----------------------------------------------------------------------------
(* proc.c *)

Children(p) == {c \in Proc : parent[c] = p}

\* do_fork: the child starts at pc `start', queued behind everybody else.
\* The failures (no process slot, no memory) undo what was done and change
\* nothing here; `next' is where the caller goes with the result.
DoFork(start, next) ==
    /\ \/ \E c \in Proc :
            /\ nr_process < Cardinality(Proc)          \* MAX_PROCESS
            /\ state[c] = "NONE"
            /\ state' = [state EXCEPT ![c] = "RUNNABLE"]
            /\ parent' = [parent EXCEPT ![c] = current]
            /\ pc' = [pc EXCEPT ![c] = start, ![current] = next]
            /\ run_list' = Append(run_list, c)
            /\ time_slice' = [time_slice EXCEPT ![c] = MAX_TIME_SLICE]
            /\ nr_process' = nr_process + 1
       \/ /\ pc' = [pc EXCEPT ![current] = IF current = initproc THEN "panic" ELSE next]
          /\ UNCHANGED <<state, parent, run_list, time_slice, nr_process>>
    /\ UNCHANGED <<current, wait_state, exiting, wait_pid, need_resched, timer_list>>

\* A faulty WakesParent: it tests for the wrong wait state
WakesParentTimer(up) == wait_state[up] = "WT_TIMER"

\* do_exit wakes the parent if it is in do_wait ...
WakesParent(up) == wait_state[up] = "WT_CHILD"

\* A faulty WakesInit: the inherited zombies are not looked at
WakesInitNever(orphans) == FALSE

\* ... and init, when it is in do_wait and inherits a zombie
WakesInit(orphans) ==
    wait_state[initproc] = "WT_CHILD" /\ \E c \in orphans : state[c] = "ZOMBIE"

\* A faulty Orphans: the loop over the children runs once
OrphansFirst(p) == IF Children(p) = {} THEN {} ELSE {CHOOSE c \in Children(p) : TRUE}

\* ... to which it gives every child, not only the youngest
Orphans(p) == Children(p)

\* do_exit: become a zombie, wake a parent that waits for a child, hand the
\* children to init and wake it when one of them is a zombie already.
DoExit ==
    IF current = initproc
    THEN pc' = [pc EXCEPT ![current] = "panic"]        \* "initproc exit."
         /\ UNCHANGED <<state, wait_state, exiting, treeVars, wait_pid, schedVars, timer_list>>
    ELSE
    LET up      == parent[current]
        orphans == Orphans(current)
        init    == up # initproc /\ WakesInit(orphans)  \* not woken twice
        wake == WakeupProcs((IF WakesParent(up) THEN <<up>> ELSE <<>>)
                            \o (IF init THEN <<initproc>> ELSE <<>>))
    IN  /\ state' = [wake.state EXCEPT ![current] = "ZOMBIE"]
        /\ wait_state' = wake.wait
        /\ parent' = [c \in Proc |-> IF c \in orphans THEN initproc ELSE parent[c]]
        /\ pc' = [pc EXCEPT ![current] = "dead"]
        /\ wait_pid' = [wait_pid EXCEPT ![current] = NULL]
        /\ Schedule(state', wake.queue, wake.slice)
        /\ UNCHANGED <<exiting, nr_process, timer_list>>

\* do_wait(w) from its label `repeat', for w = NULL any child
DoWait(w, next) ==
    LET kids    == {c \in Children(current) : w \in {NULL, c}}
        zombies == {c \in kids : state[c] = "ZOMBIE"}
    IN  \/ \E c \in zombies :
             /\ state' = [state EXCEPT ![c] = "NONE"]
             /\ parent' = [parent EXCEPT ![c] = NULL]
             /\ exiting' = [exiting EXCEPT ![c] = FALSE]
             /\ time_slice' = [time_slice EXCEPT ![c] = 0]
             /\ nr_process' = nr_process - 1
             /\ pc' = [pc EXCEPT ![c] = "none", ![current] = next]
             /\ wait_pid' = [wait_pid EXCEPT ![current] = NULL]
             /\ UNCHANGED <<current, wait_state, run_list, need_resched, timer_list>>
        \/ /\ zombies = {} /\ kids # {}
           /\ state' = [state EXCEPT ![current] = "SLEEPING"]
           /\ wait_state' = [wait_state EXCEPT ![current] = "WT_CHILD"]
           /\ pc' = [pc EXCEPT ![current] = "wait"]
           /\ wait_pid' = [wait_pid EXCEPT ![current] = w]
           /\ Schedule(state', run_list, time_slice)
           /\ UNCHANGED <<exiting, treeVars, timer_list>>
        \/ /\ kids = {}                                \* -E_BAD_PROC
           /\ pc' = [pc EXCEPT ![current] = IF current = initproc THEN "done" ELSE next]
           /\ wait_pid' = [wait_pid EXCEPT ![current] = NULL]
           /\ UNCHANGED <<state, wait_state, exiting, treeVars, schedVars, timer_list>>

-----------------------------------------------------------------------------
(* The kernel threads *)

At(p, l) == current = p /\ pc[p] = l

\* cpu_idle
Idle ==
    /\ At(idleproc, "idle") /\ need_resched[idleproc]
    /\ Schedule(state, run_list, time_slice)
    /\ UNCHANGED <<state, wait_state, exiting, treeVars, pc, wait_pid, timer_list>>

\* init_main creates user_main ...
InitStart == At(initproc, "start") /\ DoFork("user_main", "reap")

\* ... and loops: while (do_wait(0, NULL) == 0) schedule();
InitReap == At(initproc, "reap") /\ DoWait(NULL, "reaped")

InitYield ==
    /\ At(initproc, "reaped")
    /\ pc' = [pc EXCEPT ![initproc] = "reap"]
    /\ Schedule(state, run_list, time_slice)
    /\ UNCHANGED <<state, wait_state, exiting, treeVars, wait_pid, timer_list>>

\* The system has stopped: init_main returned or init was killed.
Halted == pc[initproc] \in {"done", "panic"} /\ UNCHANGED vars

\* user_main's kernel_execve enters the program, or exits when it cannot
KernelExecve ==
    /\ current \in Users /\ pc[current] = "user_main"
    /\ \/ /\ pc' = [pc EXCEPT ![current] = "user"]
          /\ UNCHANGED <<state, wait_state, exiting, treeVars, wait_pid, schedVars, timer_list>>
       \/ DoExit

-----------------------------------------------------------------------------
(* System calls of a process in user mode.  Interrupts are off until the   *)
(* trap returns, and the call ends in the tail of trap().                  *)

InUser == current \in Users /\ pc[current] = "user"

SysFork == InUser /\ DoFork("user", "trapret")

SysExit == InUser /\ DoExit

\* a failing do_execve ends in do_exit; everything else returns
SysExec ==
    /\ InUser
    /\ \/ /\ pc' = [pc EXCEPT ![current] = "trapret"]
          /\ UNCHANGED <<state, wait_state, exiting, treeVars, wait_pid, schedVars, timer_list>>
       \/ DoExit

SysWait == InUser /\ \E w \in Proc \cup {NULL} : DoWait(w, "trapret")

SysYield ==
    /\ InUser
    /\ need_resched' = [need_resched EXCEPT ![current] = TRUE]
    /\ pc' = [pc EXCEPT ![current] = "trapret"]
    /\ UNCHANGED <<state, wait_state, exiting, treeVars, wait_pid, current,
                   run_list, time_slice, timer_list>>

\* do_kill: every hashed process, a zombie too, can be marked; one that sleeps
\* interruptibly (both WT_CHILD and WT_TIMER do) is woken.  A process that is
\* marked already gets no second wakeup.
SysKill(p) ==
    /\ InUser /\ state[p] # "NONE"
    /\ pc' = [pc EXCEPT ![current] = "trapret"]
    /\ IF exiting[p]
       THEN UNCHANGED <<state, wait_state, exiting, run_list, time_slice>>
       ELSE LET wake == WakeupProcs(IF wait_state[p] # "0" THEN <<p>> ELSE <<>>)
            IN  /\ exiting' = [exiting EXCEPT ![p] = TRUE]
                /\ state' = wake.state
                /\ wait_state' = wake.wait
                /\ run_list' = wake.queue
                /\ time_slice' = wake.slice
    /\ UNCHANGED <<current, treeVars, wait_pid, need_resched, timer_list>>

\* do_sleep up to its schedule()
SysSleep(n) ==
    /\ InUser
    /\ state' = [state EXCEPT ![current] = "SLEEPING"]
    /\ wait_state' = [wait_state EXCEPT ![current] = "WT_TIMER"]
    /\ timer_list' = AddTimer(timer_list, current, n)
    /\ pc' = [pc EXCEPT ![current] = "sleep"]
    /\ Schedule(state', run_list, time_slice)
    /\ UNCHANGED <<exiting, treeVars, wait_pid>>

\* ... and after it
SleepResume ==
    /\ current \in Users /\ pc[current] = "sleep"
    /\ timer_list' = DelTimer(timer_list, current)
    /\ pc' = [pc EXCEPT ![current] = "trapret"]
    /\ UNCHANGED <<state, wait_state, exiting, treeVars, wait_pid, schedVars>>

\* do_wait after its schedule(): a killed process exits, another one looks again
WaitResume ==
    /\ current # idleproc /\ pc[current] = "wait"
    /\ IF exiting[current] THEN DoExit
       ELSE DoWait(wait_pid[current], IF current = initproc THEN "reaped" ELSE "trapret")

\* A faulty TrapReturn: PF_EXITING is not tested
TrapReturnUnchecked ==
    /\ current \in Users /\ pc[current] = "trapret"
    /\ pc' = [pc EXCEPT ![current] = "user"]
    /\ IF need_resched[current] THEN Schedule(state, run_list, time_slice)
                                ELSE UNCHANGED schedVars
    /\ UNCHANGED <<state, wait_state, exiting, treeVars, wait_pid, timer_list>>

\* The tail of trap(): die if killed, else give up the CPU if asked to.
TrapReturn ==
    /\ current \in Users /\ pc[current] = "trapret"
    /\ IF exiting[current] THEN DoExit
       ELSE /\ pc' = [pc EXCEPT ![current] = "user"]
            /\ IF need_resched[current] THEN Schedule(state, run_list, time_slice)
                                        ELSE UNCHANGED schedVars
            /\ UNCHANGED <<state, wait_state, exiting, treeVars, wait_pid, timer_list>>

-----------------------------------------------------------------------------
\* The timer interrupt: run_timer_list, then proc_tick on current.  It is taken
\* in user mode, followed by the tail of trap(), and while a kernel thread
\* runs, which it does not preempt.
Tick ==
    /\ ~ pc[initproc] \in {"done", "panic"}
    /\ pc[current] # "trapret" /\ (current \in Users => pc[current] \in {"user", "user_main"})
    /\ LET wake == WakeupProcs(Fired(timer_list))
           left == SliceLeft(wake.slice[current])
       IN  /\ timer_list' = TickTimers(timer_list)
           /\ state' = wake.state
           /\ wait_state' = wake.wait
           /\ run_list' = wake.queue
           /\ IF current = idleproc
              THEN /\ need_resched' = [need_resched EXCEPT ![idleproc] = TRUE]
                   /\ time_slice' = wake.slice
              ELSE /\ time_slice' = [wake.slice EXCEPT ![current] = left]
                   /\ need_resched' = [need_resched EXCEPT ![current] = @ \/ left = 0]
    /\ pc' = IF pc[current] = "user" THEN [pc EXCEPT ![current] = "trapret"] ELSE pc
    /\ UNCHANGED <<current, exiting, treeVars, wait_pid>>

-----------------------------------------------------------------------------
\* proc_init has run: idle owns the CPU and is about to call cpu_idle.
Init ==
    /\ current = idleproc
    /\ state = [p \in Proc |-> IF p \in Users THEN "NONE" ELSE "RUNNABLE"]
    /\ wait_state = [p \in Proc |-> "0"]
    /\ exiting = [p \in Proc |-> FALSE]
    /\ parent = [p \in Proc |-> IF p = initproc THEN idleproc ELSE NULL]
    /\ nr_process = 2
    /\ pc = [p \in Proc |-> IF p = idleproc THEN "idle"
                            ELSE IF p = initproc THEN "start" ELSE "none"]
    /\ wait_pid = [p \in Proc |-> NULL]
    /\ run_list = <<initproc>>
    /\ time_slice = [p \in Proc |-> IF p = initproc THEN MAX_TIME_SLICE ELSE 0]
    /\ need_resched = [p \in Proc |-> p = idleproc]
    /\ timer_list = <<>>

\* What the CPU does next on its own once it is inside the kernel
Kernel == \/ Idle \/ InitStart \/ InitReap \/ InitYield \/ KernelExecve
          \/ SleepResume \/ WaitResume \/ TrapReturn

\* What a program in user mode may ask for
Syscall == \/ SysFork \/ SysExit \/ SysExec \/ SysWait \/ SysYield
           \/ \E p \in Killable : SysKill(p)
           \/ \E n \in 1..MAX_SLEEP : SysSleep(n)

Next == Kernel \/ Syscall \/ Tick \/ Halted

Spec == Init /\ [][Next]_vars

\* A program may compute forever, so system calls are not fair.  Kernel code
\* runs to its end; an interrupt that is pending is taken as soon as the CPU
\* is back in user mode, before the program's next instruction.
FairSpec == Spec /\ WF_vars(Kernel) /\ SF_vars(Tick)

=============================================================================
