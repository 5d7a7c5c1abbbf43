----------------------------- MODULE ProcProps -----------------------------
(* What the process manager and the scheduler of Proc owe each other.      *)
EXTENDS Proc

Live(p) == state[p] # "NONE"

\* The run queue holds every RUNNABLE process that does not own the CPU, each
\* once, and nothing else; idle is never queued.  RR_enqueue asserts that
\* run_link is empty and RR_dequeue that it is not; a process missing here
\* would never run again.
RunQueueExact ==
    /\ Distinct(run_list)
    /\ Elems(run_list) = {p \in Proc \ {idleproc, current} : state[p] = "RUNNABLE"}

\* A process sleeps exactly while its wait_state says for what, and whoever
\* owns the CPU is RUNNABLE with wait_state 0, as do_fork asserts.  wakeup_proc
\* asserts that it is never given a zombie: nobody in a wait state is one.
WaitStateExact ==
    /\ \A p \in Proc : (state[p] = "SLEEPING") <=> (wait_state[p] # "0")
    /\ state[current] = "RUNNABLE"

\* The children a process in do_wait is waiting for
Awaited(p) == {c \in Children(p) : wait_pid[p] \in {NULL, c}}

\* No lost wakeup between do_exit and do_wait: a process asleep in do_wait has
\* a child that can still wake it, and none that is a zombie already; this
\* covers init, to which do_exit hands zombies of others.
NoLostChildWakeup ==
    \A p \in Proc : wait_state[p] = "WT_CHILD" =>
        /\ Awaited(p) # {}
        /\ \A c \in Awaited(p) : state[c] # "ZOMBIE"

\* Every process but idle has a live parent that is not a zombie, so somebody
\* can still reap it; a zombie has no children; nr_process counts the
\* processes, or do_fork's limit and init_main's last assertion drift.
FamilyTree ==
    /\ \A p \in Proc : parent[p] = NULL <=> (p = idleproc \/ ~ Live(p))
    /\ \A p \in Proc \ {idleproc} :
          Live(p) => state[parent[p]] \in {"SLEEPING", "RUNNABLE"}
    /\ nr_process = Cardinality({p \in Proc : Live(p)})

\* A timer lives on the kernel stack of its process, between add_timer and
\* del_timer of do_sleep: the list never holds a timer of a process that has
\* left do_sleep, every process asleep in do_sleep has one timer there, or it
\* never wakes, and the head is never due already (run_timer_list asserts it).
TimersOwned ==
    /\ Distinct(Owners(timer_list))
    /\ \A p \in Armed(timer_list) : pc[p] = "sleep" /\ state[p] \in {"SLEEPING", "RUNNABLE"}
    /\ \A p \in Proc : wait_state[p] = "WT_TIMER" => p \in Armed(timer_list)
    /\ timer_list # <<>> => timer_list[1].expires > 0

\* init_main leaves its loop only when every other process is gone; its last
\* assertions are nr_process == 2 and an empty list of children.
InitLeavesLast ==
    pc[initproc] = "done" =>
        /\ nr_process = 2
        /\ \A p \in Users : ~ Live(p)

\* proc.h:76 says of WT_INTERRUPTED that the wait state could be interrupted:
\* no killed process goes on sleeping in such a wait.
KillInterruptsWait ==
    \A p \in Proc : wait_state[p] # "0" => ~ exiting[p]

-----------------------------------------------------------------------------
\* Round robin starves nobody: a process that is RUNNABLE gets the CPU.
RunnableRuns ==
    \A p \in Users : state[p] = "RUNNABLE" ~> current = p

\* A process in do_sleep is woken, by its timer or by a kill.
SleepersWake ==
    \A p \in Users : wait_state[p] = "WT_TIMER" ~> state[p] = "RUNNABLE"

\* A killed process dies, unless it is waiting for a child, which may never
\* exit.  The mark is only looked at in the tail of trap() and in do_wait.
KilledDiesOrWaits ==
    \A p \in Users : exiting[p] ~> \/ state[p] \in {"ZOMBIE", "NONE"}
                                   \/ wait_state[p] = "WT_CHILD"

\* A zombie that init inherited is reaped, or init reaps others for ever:
\* do_wait(0) takes the youngest zombie first and may pass over an old one.
InitKeepsReaping ==
    \A p \in Users :
        <>[](state[p] = "ZOMBIE" /\ parent[p] = initproc)
            => []<><<current = initproc /\ nr_process' < nr_process>>_vars

\* A process that waits for any child gets one reaped or is killed, once one
\* of its children has exited.
WaitReturns ==
    \A p \in Users :
        (pc[p] = "wait" /\ \E c \in Awaited(p) : state[c] = "ZOMBIE")
            ~> pc[p] # "wait"

=============================================================================
