--------------------------------- MODULE Stride ---------------------------------
(***************************************************************************)
(* The stride scheduling class of lab6 (kern/schedule/default_sched_       *)
(* stride.c) under schedule() and wakeup_proc() of lab6/kern/schedule/     *)
(* sched.c: a skew heap of the processes that wait for the CPU, ordered by *)
(* the sign of the difference of two strides that wrap.                    *)
(***************************************************************************)
EXTENDS Integers, FiniteSets

CONSTANTS
    Proc, initproc, idleproc, NULL,
    W,               \* strides are unsigned and wrap at W, 2^32 in the code
    Priority         \* the arguments of lab6_set_priority

BIG_STRIDE == W \div 2 - 1

VARIABLES
    current,
    state,           \* "NONE": no structure, or one that has exited
    lab6_stride, lab6_priority,
    lab6_run_pool    \* the skew heap, [proc, left, right]

vars == <<current, state, lab6_stride, lab6_priority, lab6_run_pool>>

\* skew_heap.h ------------------------------------------------------------
Empty == [proc |-> NULL]
Leaf(p) == [proc |-> p, left |-> Empty, right |-> Empty]

\* A faulty comparison: of the strides themselves
LessUnsigned(p, q, stride) == stride[p] < stride[q]

\* proc_stride_comp_f returns -1: the difference, as an int32_t, is negative.
Less(p, q, stride) == (stride[p] - stride[q]) % W >= W \div 2

RECURSIVE Merge(_, _, _)
Merge(a, b, stride) ==
    IF a = Empty THEN b ELSE IF b = Empty THEN a
    ELSE IF Less(a.proc, b.proc, stride)
    THEN [a EXCEPT !.left = Merge(a.right, b, stride), !.right = a.left]
    ELSE [b EXCEPT !.left = Merge(a, b.right, stride), !.right = b.left]

RECURSIVE Members(_)
Members(h) == IF h = Empty THEN {} ELSE {h.proc} \cup Members(h.left) \cup Members(h.right)

\* sched.c ----------------------------------------------------------------
\* A faulty BIG_STRIDE: the largest unsigned number
PassUnsigned(p) == IF lab6_priority[p] = 0 THEN W - 1 ELSE (W - 1) \div lab6_priority[p]

\* A faulty pass: a process that never set its priority is not charged
PassFree(p) == IF lab6_priority[p] = 0 THEN 0 ELSE BIG_STRIDE \div lab6_priority[p]

\* How far one turn on the CPU moves the stride of p
Pass(p) == IF lab6_priority[p] = 0 THEN BIG_STRIDE ELSE BIG_STRIDE \div lab6_priority[p]

\* schedule(): the current process goes back into the heap if it can run; the
\* root is moved on by its pass, taken out, and gets the CPU.
Schedule(stride) ==
    LET h == IF current # idleproc /\ state'[current] = "RUNNABLE"
             THEN Merge(lab6_run_pool, Leaf(current), stride) ELSE lab6_run_pool
        p == h.proc
    IN  IF h = Empty
        THEN current' = idleproc /\ lab6_stride' = stride /\ UNCHANGED lab6_run_pool
        ELSE /\ current' = p
             /\ lab6_stride' = [stride EXCEPT ![p] = (@ + Pass(p)) % W]
             /\ lab6_run_pool' = Merge(h.left, h.right, stride)

\* wakeup_proc() of a process that is not RUNNABLE, nor current
Enqueue(p) ==
    /\ state' = [state EXCEPT ![p] = "RUNNABLE"]
    /\ lab6_run_pool' = Merge(lab6_run_pool, Leaf(p), lab6_stride)

\* proc_init: init has been made by do_fork and waits for cpu_idle.
Init ==
    /\ current = idleproc
    /\ state = [p \in Proc |-> IF p = initproc THEN "RUNNABLE" ELSE "NONE"]
    /\ lab6_stride = [p \in Proc |-> 0]
    /\ lab6_priority = [p \in Proc |-> 0]
    /\ lab6_run_pool = Leaf(initproc)

Running == current # idleproc

\* cpu_idle
Idle == ~Running /\ lab6_run_pool # Empty /\ UNCHANGED <<state, lab6_priority>> /\ Schedule(lab6_stride)

\* do_yield, and stride_proc_tick at the end of a slice: need_resched is set and
\* the tail of trap() calls schedule().
Preempt == Running /\ UNCHANGED <<state, lab6_priority>> /\ Schedule(lab6_stride)

\* do_wait
Sleep ==
    /\ Running
    /\ state' = [state EXCEPT ![current] = "SLEEPING"]
    /\ UNCHANGED lab6_priority
    /\ Schedule(lab6_stride)

\* do_exit, which init must not call; the structure gets the priority and the
\* stride alloc_proc will give it
Exit ==
    /\ Running /\ current # initproc
    /\ state' = [state EXCEPT ![current] = "NONE"]
    /\ lab6_priority' = [lab6_priority EXCEPT ![current] = 0]
    /\ Schedule([lab6_stride EXCEPT ![current] = 0])

\* wakeup_proc in do_exit and do_kill
Wakeup(p) ==
    /\ Running /\ state[p] = "SLEEPING"
    /\ Enqueue(p)
    /\ UNCHANGED <<current, lab6_stride, lab6_priority>>

\* do_fork: alloc_proc and wakeup_proc
Fork(p) ==
    /\ Running /\ state[p] = "NONE"
    /\ Enqueue(p)
    /\ UNCHANGED <<current, lab6_stride, lab6_priority>>

\* lab6_set_priority, a system call; init makes none
SetPriority(n) ==
    /\ Running /\ current # initproc
    /\ lab6_priority' = [lab6_priority EXCEPT ![current] = IF n = 0 THEN 1 ELSE n]
    /\ UNCHANGED <<current, state, lab6_stride, lab6_run_pool>>

Next ==
    \/ Idle \/ Preempt \/ Sleep \/ Exit
    \/ \E p \in Proc : Wakeup(p) \/ Fork(p)
    \/ \E n \in Priority : SetPriority(n)

Spec == Init /\ [][Next]_vars

\* The slice of a running process ends, and cpu_idle looks at need_resched.
Clock == Preempt \/ Idle

-----------------------------------------------------------------------------
Queued   == Members(lab6_run_pool)
Runnable == {p \in Proc : state[p] = "RUNNABLE"}

\* How far q is ahead of p, going round
Ahead(p, q) == (lab6_stride[q] - lab6_stride[p]) % W

\* The processes of S that are behind all others of it by BIG_STRIDE at most:
\* there are none when the strides of S spread over more than that.
Least(S) == {p \in S : \A q \in S : Ahead(p, q) <= BIG_STRIDE}

\* The root of the heap has the least stride whenever there is a least one,
\* also when some strides have wrapped, and whatever order the comparison gave
\* earlier, when the strides were spread too far for it.
LeastFirst ==
    /\ Queued = Runnable \ {current}
    /\ Least(Queued) # {} => lab6_run_pool.proc \in Least(Queued)

\* What BIG_STRIDE is for, default_sched_stride.c:12: strides that are within
\* BIG_STRIDE of each other stay so, whoever is picked, preempted, falls
\* asleep, exits or changes its priority; only processes that join, new ones
\* or sleepers, can spread them further.
SpreadKept ==
    [][Least(Runnable) # {} /\ Runnable' \subseteq Runnable
           => Runnable' = {} \/ Least(Runnable)' # {}]_vars

\* Once nobody joins any more everybody that waits gets the CPU, even when the
\* strides are spread so far that the comparison is no order.
NobodyStarves ==
    <>[][~ \E p \in Proc : Wakeup(p) \/ Fork(p)]_vars
        => \A p \in Proc : p \in Queued ~> current = p

=============================================================================
