--------------------------------- MODULE Stdin ---------------------------------
(***************************************************************************)
(* The keyboard: kern/fs/devs/dev_stdin.c, written by the timer interrupt  *)
(* (kern/trap/trap.c:129) and read by processes that sleep in WT_KBD until *)
(* there is something, and that may be killed there.                       *)
(*                                                                         *)
(* Characters are numbered in the order they are typed.  Interrupts are    *)
(* off in a system call, so a key arrives only in user mode or while idle. *)
(***************************************************************************)
EXTENDS Naturals, Sequences, FiniteSets, Lists

CONSTANTS
    Proc,            \* the processes that read
    NULL,            \* as current: the idle loop
    STDIN_BUFSIZE,
    MAX_LEN,         \* bound on the length of a read
    MAX_KEYS         \* bound on the keys that are typed

ASSUME StdinAssumption ==
    /\ IsFiniteSet(Proc) /\ NULL \notin Proc
    /\ STDIN_BUFSIZE \in Nat \ {0} /\ MAX_LEN \in Nat \ {0} /\ MAX_KEYS \in Nat

VARIABLES
    current, run_list, wait_state, exiting,
    wait_queue, wakeup_flags,
    stdin_buffer, p_rpos, p_wpos,
    pc,              \* "user", "wait" in schedule() of dev_stdin_read, "trapret", "dead"
    left,            \* what a read in progress still wants
    typed,           \* history: keys typed
    consumed,        \* history: characters read, by whomever, in that order
    overrun          \* history: a key was typed into a full buffer

cpuVars   == <<current, run_list, wait_state>>
waitVars  == <<wait_queue, wakeup_flags>>
inputVars == <<stdin_buffer, p_wpos, typed, overrun>>
vars == <<cpuVars, exiting, waitVars, inputVars, p_rpos, pc, left, consumed>>

Init ==
    /\ current = NULL
    /\ run_list \in {q \in [1..Cardinality(Proc) -> Proc] : Distinct(q)}
    /\ wait_state = [p \in Proc |-> "0"] /\ exiting = [p \in Proc |-> FALSE]
    /\ wait_queue = <<>> /\ wakeup_flags = [p \in Proc |-> "WT_INTERRUPTED"]
    /\ stdin_buffer = [i \in 0..(STDIN_BUFSIZE - 1) |-> 0]
    /\ p_rpos = 0 /\ p_wpos = 0
    /\ pc = [p \in Proc |-> "user"] /\ left = [p \in Proc |-> 0]
    /\ typed = 0 /\ consumed = <<>> /\ overrun = FALSE

-----------------------------------------------------------------------------
\* schedule()
Switch(queue) ==
    IF queue = <<>> THEN current' = NULL /\ run_list' = queue
                    ELSE current' = Head(queue) /\ run_list' = Tail(queue)

\* wakeup_proc of those in the sequence ws that sleep
Wakeup(ws) ==
    /\ wait_state' = [p \in Proc |-> IF p \in Elems(ws) THEN "0" ELSE wait_state[p]]
    /\ run_list' = run_list \o Keep(ws, {p \in Proc : wait_state[p] # "0"})

\* A faulty wakeup: only the first of the queue is woken, the others unlinked.
WakeupFirst ==
    /\ wait_queue' = <<>>
    /\ wakeup_flags' = [p \in Proc |-> IF p \in Elems(wait_queue) THEN "WT_KBD"
                                                                  ELSE wakeup_flags[p]]
    /\ IF wait_queue = <<>> THEN UNCHANGED <<wait_state, run_list>>
                            ELSE Wakeup(<<Head(wait_queue)>>)

\* wakeup_queue(wait_queue, WT_KBD, 1): a process woken by a kill that has not
\* run yet is still linked, and is told WT_KBD now.
WakeupQueue ==
    /\ wait_queue' = <<>>
    /\ wakeup_flags' = [p \in Proc |-> IF p \in Elems(wait_queue) THEN "WT_KBD"
                                                                  ELSE wakeup_flags[p]]
    /\ Wakeup(wait_queue)

Room == p_wpos - p_rpos < STDIN_BUFSIZE

\* dev_stdin_write from the timer interrupt: in a full buffer the character
\* replaces the oldest one nobody has read.
Type ==
    /\ current # NULL => pc[current] = "user"
    /\ typed < MAX_KEYS
    /\ typed' = typed + 1
    /\ stdin_buffer' = [stdin_buffer EXCEPT ![p_wpos % STDIN_BUFSIZE] = typed']
    /\ p_wpos' = IF Room THEN p_wpos + 1 ELSE p_wpos
    /\ overrun' = (overrun \/ p_wpos - p_rpos = STDIN_BUFSIZE)
    /\ WakeupQueue
    /\ pc' = IF current = NULL THEN pc ELSE [pc EXCEPT ![current] = "trapret"]
    /\ UNCHANGED <<current, exiting, p_rpos, left, consumed>>

\* A faulty loop: after a wakeup one character is taken without looking.
AvailableUnchecked(n) ==
    IF pc[current] = "wait" \/ n <= p_wpos - p_rpos THEN n ELSE p_wpos - p_rpos

\* What a read that wants n finds
Available(n) == IF n <= p_wpos - p_rpos THEN n ELSE p_wpos - p_rpos

\* dev_stdin_read from its label try_again, wanting n more, with the wait
\* queue as given: copy what is there, then return or sleep for the rest.
ReadOn(n, queue) ==
    LET k == Available(n)
    IN  /\ p_rpos' = p_rpos + k
        /\ consumed' = consumed \o [i \in 1..k |-> stdin_buffer[(p_rpos + i - 1) % STDIN_BUFSIZE]]
        /\ left' = [left EXCEPT ![current] = n - k]
        /\ IF k = n
           THEN /\ pc' = [pc EXCEPT ![current] = "trapret"]
                /\ wait_queue' = queue
                /\ UNCHANGED <<cpuVars, wakeup_flags>>
           ELSE /\ pc' = [pc EXCEPT ![current] = "wait"]
                /\ wait_queue' = Append(queue, current)
                /\ wakeup_flags' = [wakeup_flags EXCEPT ![current] = "WT_INTERRUPTED"]
                /\ wait_state' = [wait_state EXCEPT ![current] = "WT_KBD"]
                /\ Switch(run_list)
        /\ UNCHANGED <<exiting, inputVars>>

Running(l) == current # NULL /\ pc[current] = l

Read(n) == Running("user") /\ ReadOn(n, wait_queue)

\* A faulty end of the wait: the wait_t stays linked.
UnlinkForgotten == wait_queue

\* wait_current_del
Unlinked == Keep(wait_queue, Proc \ {current})

\* ... after its schedule(): woken by a key it tries again, killed it returns
ReadResumes ==
    /\ Running("wait")
    /\ IF wakeup_flags[current] = "WT_KBD"
       THEN ReadOn(left[current], Unlinked)
       ELSE /\ wait_queue' = Unlinked
            /\ pc' = [pc EXCEPT ![current] = "trapret"]
            /\ UNCHANGED <<cpuVars, wakeup_flags, exiting, inputVars, p_rpos, left, consumed>>

\* the tail of trap(), after a system call or an interrupt: a killed process
\* exits, another one goes on or is preempted
TrapReturn ==
    /\ Running("trapret")
    /\ IF exiting[current]
       THEN pc' = [pc EXCEPT ![current] = "dead"] /\ Switch(run_list)
       ELSE /\ pc' = [pc EXCEPT ![current] = "user"]
            /\ Switch(Append(run_list, current)) \/ UNCHANGED <<current, run_list>>
    /\ UNCHANGED <<wait_state, exiting, waitVars, inputVars, p_rpos, left, consumed>>

\* a timer interrupt without a key
Tick ==
    /\ Running("user") /\ pc' = [pc EXCEPT ![current] = "trapret"]
    /\ UNCHANGED <<cpuVars, exiting, waitVars, inputVars, p_rpos, left, consumed>>

\* do_kill
Kill(p) ==
    /\ Running("user") /\ pc[p] # "dead" /\ ~ exiting[p]
    /\ exiting' = [exiting EXCEPT ![p] = TRUE]
    /\ Wakeup(<<p>>)
    /\ pc' = [pc EXCEPT ![current] = "trapret"]
    /\ UNCHANGED <<current, waitVars, inputVars, p_rpos, left, consumed>>

Idle ==
    /\ current = NULL /\ run_list # <<>> /\ Switch(run_list)
    /\ UNCHANGED <<wait_state, exiting, waitVars, inputVars, p_rpos, pc, left, consumed>>

Next == \/ Type \/ ReadResumes \/ TrapReturn \/ Tick \/ Idle
        \/ \E n \in 1..MAX_LEN : Read(n)
        \/ \E p \in Proc : Kill(p)

Spec == Init /\ [][Next]_vars

\* The CPU goes on; programs may compute for ever, but an interrupt takes the
\* CPU away from them now and then.
FairSpec == /\ Spec /\ WF_vars(ReadResumes \/ TrapReturn \/ Idle)
            /\ SF_vars(TrapReturn /\ run_list' # run_list) /\ WF_vars(Tick)

-----------------------------------------------------------------------------
\* As long as the buffer never was full, what is read is what was typed, in
\* that order, each character once, whoever reads it.
NothingLostInOrder ==
    ~ overrun => consumed = [i \in 1..p_rpos |-> i]

\* A reader that sleeps is linked, once, and has nothing to read: the next key
\* finds and wakes all of them, and one whose character another has taken
\* waits again.  Whoever is linked is inside dev_stdin_read, on whose stack
\* its wait_t lives.
SleepersExact ==
    /\ Distinct(wait_queue)
    /\ \A p \in Elems(wait_queue) : pc[p] = "wait"
    /\ \A p \in Proc : wait_state[p] = "WT_KBD" => p \in Elems(wait_queue) /\ p_rpos = p_wpos

\* What is typed while somebody reads is read, killed readers notwithstanding.
InputIsRead ==
    \A p \in Proc :
        (pc[p] = "wait" /\ p_rpos < p_wpos) ~> (p_rpos = p_wpos \/ pc[p] # "wait")

=============================================================================
