-------------------------------- MODULE Monitor --------------------------------
(***************************************************************************)
(* Monitors with condition variables: kern/sync/monitor.c, and the frame   *)
(* monitor.h:55-64 puts around every routine of a monitor.  Next is the    *)
(* most general client, whose routines wait, signal and sleep at will.     *)
(***************************************************************************)
EXTENDS Semaphores

CONSTANTS
    mutex, next,     \* the two semaphores of monitor_t
    Cv               \* the condition variables, each named by its semaphore

ASSUME MonitorAssumption ==
    /\ mutex # next /\ {mutex, next} \cap Cv = {}
    /\ Sem = {mutex, next} \cup Cv
    /\ InitialValue = [s \in Sem |-> IF s = mutex THEN 1 ELSE 0]

VARIABLES
    next_count, count,
    mpc,             \* how far a thread is in the monitor
    cv               \* the condition variable of the cond_wait it is in

monVars == <<cpuVars, semVars, next_count, count, mpc, cv>>

InitMonitor ==
    /\ SemInit
    /\ next_count = 0
    /\ count = [c \in Cv |-> 0]
    /\ mpc = [p \in Proc |-> "out"]
    /\ cv = [p \in Proc |-> NULL]

Is(l) == current # NULL /\ mpc[current] = l

\* down(s) on the way to label `in', asleep at label `blocked'
Down(s, blocked, in) ==
    \/ Take(s) /\ mpc' = [mpc EXCEPT ![current] = in]
    \/ Block(s) /\ mpc' = [mpc EXCEPT ![current] = blocked]

DownEnds(s, in) ==
    /\ Unblock(s)
    /\ mpc' = [mpc EXCEPT ![current] = IF WokenByUp THEN in ELSE "panic"]

\* A faulty exit: signallers that stepped back are forgotten.
PassOnToDoor == Up(mutex)

\* What a routine does last, and cond_wait before it blocks: a signaller that
\* stepped back goes first, then whoever stands at the door.
PassOn == IF next_count > 0 THEN Up(next) ELSE Up(mutex)

Enter ==
    /\ Is("out") /\ Down(mutex, "entering", "in")
    /\ UNCHANGED <<next_count, count, cv>>

EnterEnds ==
    /\ Is("entering") /\ DownEnds(mutex, "in")
    /\ UNCHANGED <<next_count, count, cv>>

Leave ==
    /\ Is("in") /\ PassOn
    /\ mpc' = [mpc EXCEPT ![current] = "out"]
    /\ UNCHANGED <<next_count, count, cv>>

\* A faulty cond_signal: the signaller does not step back.
SignalGoesOn(c) ==
    /\ Is("in") /\ count[c] > 0
    /\ Up(c)
    /\ UNCHANGED <<next_count, count, mpc, cv>>

\* cond_signal with somebody waiting, up to its down(next); with nobody waiting
\* it does nothing.
Signal(c) ==
    /\ Is("in") /\ count[c] > 0
    /\ next_count' = next_count + 1
    /\ Up(c)
    /\ mpc' = [mpc EXCEPT ![current] = "signalled"]
    /\ UNCHANGED <<count, cv>>

StepBack ==
    /\ Is("signalled")
    /\ \/ Take(next) /\ next_count' = next_count - 1 /\ mpc' = [mpc EXCEPT ![current] = "in"]
       \/ Block(next) /\ mpc' = [mpc EXCEPT ![current] = "urgent"] /\ UNCHANGED next_count
    /\ UNCHANGED <<count, cv>>

StepBackEnds ==
    /\ Is("urgent") /\ DownEnds(next, "in")
    /\ next_count' = next_count - 1
    /\ UNCHANGED <<count, cv>>

\* cond_wait, up to its down(cv.sem)
Wait(c) ==
    /\ Is("in")
    /\ count' = [count EXCEPT ![c] = @ + 1]
    /\ PassOn
    /\ mpc' = [mpc EXCEPT ![current] = "released"]
    /\ cv' = [cv EXCEPT ![current] = c]
    /\ UNCHANGED next_count

WaitBlocks ==
    /\ Is("released")
    /\ LET c == cv[current]
       IN  \/ /\ Take(c) /\ mpc' = [mpc EXCEPT ![current] = "in"]
              /\ count' = [count EXCEPT ![c] = @ - 1]
              /\ cv' = [cv EXCEPT ![current] = NULL]
           \/ Block(c) /\ mpc' = [mpc EXCEPT ![current] = "waiting"] /\ UNCHANGED <<count, cv>>
    /\ UNCHANGED next_count

\* A faulty cond_wait: the count is never taken back.
WaitEndsUncounted ==
    /\ Is("waiting") /\ DownEnds(cv[current], "in")
    /\ cv' = [cv EXCEPT ![current] = NULL]
    /\ UNCHANGED <<next_count, count>>

WaitEnds ==
    /\ Is("waiting") /\ DownEnds(cv[current], "in")
    /\ count' = [count EXCEPT ![cv[current]] = @ - 1]
    /\ cv' = [cv EXCEPT ![current] = NULL]
    /\ UNCHANGED next_count

-----------------------------------------------------------------------------
\* A thread sleeps, in a routine of the monitor too, and timers wake it.
Nap == (Is("out") \/ Is("in")) /\ StartSleep /\ UNCHANGED <<next_count, count, mpc, cv>>
Timer(p) == TimerFires(p) /\ UNCHANGED <<next_count, count, mpc, cv>>
Idle == IdleSchedules /\ UNCHANGED <<next_count, count, mpc, cv>>

Init == InitMonitor /\ run_list \in {q \in [1..Cardinality(Proc) -> Proc] : Distinct(q)}

\* Steps in the middle of a routine of monitor.c
Kernel == Idle \/ EnterEnds \/ StepBack \/ StepBackEnds \/ WaitBlocks \/ WaitEnds

Next == \/ Kernel \/ Enter \/ Leave \/ Nap
        \/ \E p \in Proc : Timer(p)
        \/ \E c \in Cv : Signal(c) \/ Wait(c)

Spec == Init /\ [][Next]_monVars

=============================================================================
