------------------------------ MODULE PidAlloc ------------------------------
(***************************************************************************)
(* get_pid of kern/process/proc.c, with the two static variables it keeps  *)
(* between calls.  [last_pid, next_safe) is a window of pids it believes   *)
(* to be free; when the window is used up it walks the process list to     *)
(* find the next one, and starts the walk again whenever it closes.        *)
(***************************************************************************)
EXTENDS Naturals, FiniteSets

CONSTANTS MAX_PROCESS, MAX_PID

\* MAX_PID > MAX_PROCESS is the static_assert of get_pid
ASSUME PidAssumption ==
    MAX_PROCESS \in Nat /\ MAX_PROCESS > 1 /\ MAX_PID \in Nat /\ MAX_PID > MAX_PROCESS

VARIABLES
    pids,       \* pids of the processes on proc_list (idle is not on it)
    last_pid,
    next_safe,
    todo,       \* the processes the walk has not visited yet
    phase       \* "out" of get_pid, in the "walk", or about to "link" the pid

pidVars == <<pids, last_pid, next_safe, todo, phase>>

Pid == 1..MAX_PID - 1

\* The type invariant.
PidTypeOK ==
    /\ pids \subseteq Pid /\ IsFiniteSet(pids)
    /\ last_pid \in 1..MAX_PID
    /\ next_safe \in 1..MAX_PID
    /\ todo \subseteq pids
    /\ phase \in {"out", "walk", "link"}

PidInit ==
    /\ pids = {}
    /\ last_pid = MAX_PID
    /\ next_safe = MAX_PID
    /\ todo = {}
    /\ phase = "out"

\* The labels `inside' and `repeat': forget the window, walk the whole list
Restart(p) ==
    /\ last_pid' = p
    /\ next_safe' = MAX_PID
    /\ todo' = pids
    /\ phase' = "walk"

\* A faulty Room: do_fork does not look at nr_process
RoomUnlimited == TRUE

\* do_fork's limit on nr_process, which counts idle
Room == Cardinality(pids) + 1 < MAX_PROCESS

\* A faulty Call: next_safe is not compared
CallIgnoringWindow ==
    /\ phase = "out" /\ Room
    /\ LET p == last_pid + 1
       IN  IF p >= MAX_PID THEN Restart(1)
           ELSE last_pid' = p /\ phase' = "link" /\ UNCHANGED <<next_safe, todo>>
    /\ UNCHANGED pids

\* The entry of get_pid, called by do_fork when there is room: take the next
\* pid of the window or look for another.
Call ==
    /\ phase = "out" /\ Room
    /\ LET p == last_pid + 1
       IN  IF p >= MAX_PID THEN Restart(1)
           ELSE IF p >= next_safe THEN Restart(p)
           ELSE last_pid' = p /\ phase' = "link" /\ UNCHANGED <<next_safe, todo>>
    /\ UNCHANGED pids

\* A pid past the last one starts again at 1.
Wrapped(p) == IF p >= MAX_PID THEN 1 ELSE p

\* The lowest pid above the candidate that the walk has met
Bound(q) == IF q > last_pid /\ next_safe > q THEN q ELSE next_safe

\* One process of the walk, which meets them in any order: its pid is the
\* candidate, bounds the window from above, or does not matter.
Visit(q) ==
    /\ phase = "walk" /\ q \in todo
    /\ IF q = last_pid
       THEN IF last_pid + 1 >= next_safe
            THEN Restart(Wrapped(last_pid + 1))
            ELSE last_pid' = last_pid + 1 /\ todo' = todo \ {q} /\ UNCHANGED <<next_safe, phase>>
       ELSE /\ next_safe' = Bound(q)
            /\ todo' = todo \ {q}
            /\ UNCHANGED <<last_pid, phase>>
    /\ UNCHANGED pids

\* The walk came back to the head of the list: return last_pid.
Return ==
    /\ phase = "walk" /\ todo = {}
    /\ phase' = "link"
    /\ UNCHANGED <<pids, last_pid, next_safe, todo>>

\* do_fork: hash_proc and set_links
Link ==
    /\ phase = "link"
    /\ pids' = pids \cup {last_pid}
    /\ phase' = "out"
    /\ UNCHANGED <<last_pid, next_safe, todo>>

\* do_wait frees a process; get_pid's statics do not notice.
Unlink(q) ==
    /\ phase = "out" /\ q \in pids
    /\ pids' = pids \ {q}
    /\ UNCHANGED <<last_pid, next_safe, todo, phase>>

GetPid == Call \/ (\E q \in todo : Visit(q)) \/ Return \/ Link

PidNext == GetPid \/ \E q \in pids : Unlink(q)

PidSpec == PidInit /\ [][PidNext]_pidVars

\* get_pid runs with interrupts off, so nothing keeps it from going on.
FairPidSpec == PidSpec /\ WF_pidVars((\E q \in todo : Visit(q)) \/ Return)

-----------------------------------------------------------------------------
\* get_pid's header says it allocates a unique pid: the pid do_fork is about
\* to hash belongs to no process, and is neither 0 (idle) nor out of range.
PidUnique == phase = "link" => last_pid \in Pid \ pids

\* Why the window can be trusted without a walk: no process has a pid between
\* last_pid and next_safe, as far as the walk has come.
WindowFree ==
    \A q \in pids :
        /\ phase # "walk" => q <= last_pid \/ next_safe <= q
        /\ phase = "walk" /\ q \notin todo => q < last_pid \/ next_safe <= q

\* get_pid returns: the walk that starts again cannot do so for ever, because
\* do_fork's limit leaves a free pid.
WalkEnds == phase = "walk" ~> phase = "link"

=============================================================================
