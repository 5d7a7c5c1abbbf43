------------------------------ MODULE SemClients ------------------------------
(***************************************************************************)
(* The most general client of Semaphores: threads that down, try and up    *)
(* any semaphore, sleep, give up the CPU, and are killed at any time.      *)
(***************************************************************************)
EXTENDS Semaphores

CONSTANT MAX_VALUE   \* bound on the units a semaphore may have got by up()

ASSUME MaxValueAssumption == MAX_VALUE \in Nat

VARIABLES
    pc,              \* "run", or "down": in the schedule() of __down
    want,            \* the semaphore a thread in down() is after
    exiting,         \* PF_EXITING
    balance          \* history: initial value and ups, less the downs returned

vars == <<cpuVars, semVars, pc, want, exiting, balance>>

Init ==
    /\ SemInit
    /\ run_list \in {q \in [1..Cardinality(Proc) -> Proc] : Distinct(q)}
    /\ pc = [p \in Proc |-> "run"]
    /\ want = [p \in Proc |-> NULL]
    /\ exiting = [p \in Proc |-> FALSE]
    /\ balance = InitialValue

Running(l) == current # NULL /\ pc[current] = l

DoUp(s) ==
    /\ Running("run")
    /\ balance[s] < MAX_VALUE
    /\ Up(s)
    /\ balance' = [balance EXCEPT ![s] = @ + 1]
    /\ UNCHANGED <<pc, want, exiting>>

DoDown(s) ==
    /\ Running("run")
    /\ \/ /\ Take(s)
          /\ balance' = [balance EXCEPT ![s] = @ - 1]
          /\ UNCHANGED <<pc, want>>
       \/ /\ Block(s)
          /\ pc' = [pc EXCEPT ![current] = "down"]
          /\ want' = [want EXCEPT ![current] = s]
          /\ UNCHANGED balance
    /\ UNCHANGED exiting

DownReturns ==
    /\ Running("down")
    /\ Unblock(want[current])
    /\ want' = [want EXCEPT ![current] = NULL]
    /\ IF WokenByUp
       THEN /\ balance' = [balance EXCEPT ![want[current]] = @ - 1]
            /\ pc' = [pc EXCEPT ![current] = "run"]
       ELSE pc' = [pc EXCEPT ![current] = "panic"] /\ UNCHANGED balance
    /\ UNCHANGED exiting

DoSleep == Running("run") /\ StartSleep /\ UNCHANGED <<pc, want, exiting, balance>>

\* the tail of trap() or a return to user mode: the others get the CPU
Yield ==
    /\ Running("run") /\ Switch(Append(run_list, current))
    /\ UNCHANGED <<wait_state, semVars, pc, want, exiting, balance>>

Timer(p) == TimerFires(p) /\ UNCHANGED <<pc, want, exiting, balance>>

\* do_kill, by the thread that has the CPU
Kill(p) ==
    /\ Running("run") /\ ~ exiting[p]
    /\ exiting' = [exiting EXCEPT ![p] = TRUE]
    /\ IF Interruptible(wait_state[p]) THEN Wakeup(p) ELSE UNCHANGED <<run_list, wait_state>>
    /\ UNCHANGED <<current, semVars, pc, want, balance>>

Idle == IdleSchedules /\ UNCHANGED <<pc, want, exiting, balance>>

Next == \/ Idle \/ DownReturns \/ DoSleep \/ Yield
        \/ \E s \in Sem : DoUp(s) \/ DoDown(s)
        \/ \E p \in Proc : Kill(p) \/ Timer(p)

Spec == Init /\ [][Next]_vars

\* The CPU never stops, and a thread gives it up now and then.
FairSpec == Spec /\ WF_vars(Idle) /\ WF_vars(DownReturns) /\ SF_vars(Yield)
            /\ \A p \in Proc : WF_vars(Timer(p))

=============================================================================
