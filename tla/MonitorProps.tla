----------------------------- MODULE MonitorProps -----------------------------
(* What monitor.c owes the routines of a monitor.                          *)
EXTENDS Monitor

\* Threads in a down() that has been granted and has not returned yet
Granted == {p \in Proc : mpc[p] \in {"entering", "urgent", "waiting"} /\ wait_state[p] = "0"}

\* Who may touch the monitor's data, or will when it gets the CPU
Active == {p \in Proc : mpc[p] = "in"} \cup Granted

\* monitor.h:12, one process at a time may be active in a monitor: the right
\* to be is one token, free in mutex, or held by a thread in a routine, which
\* may sleep there, or on its way to one that was woken.
OneActive == value[mutex] + Cardinality(Active) = 1

\* Whenever a routine can look, the counters say who is asleep: count the
\* waiters of a condition variable, next_count the signallers that stepped back.
CountsExact ==
    (\E p \in Proc : mpc[p] = "in") =>
        /\ next_count = Len(wait_queue[next])
        /\ \A c \in Cv : count[c] = Len(wait_queue[c])

-----------------------------------------------------------------------------
\* The refinement: a thread between up() and its own down() counts as queued.
Holder == IF Active = {} THEN NULL ELSE CHOOSE p \in Active : TRUE
Back   == IF Is("signalled") THEN Append(wait_queue[next], current) ELSE wait_queue[next]
Asleep == [c \in Cv |-> IF Is("released") /\ cv[current] = c
                        THEN Append(wait_queue[c], current) ELSE wait_queue[c]]

Hoare == INSTANCE HoareMonitor
           WITH active <- Holder, door <- wait_queue[mutex], back <- Back, asleep <- Asleep

\* The semaphores implement a monitor with signal-and-urgent-wait: nobody runs
\* in it between a signal and the thread that is signalled.
ImplementsHoare == Hoare!Spec

=============================================================================
