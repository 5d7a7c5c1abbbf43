----------------------------- MODULE HoareMonitor -----------------------------
(***************************************************************************)
(* What a monitor promises: one thread at a time is active in it; a signal *)
(* makes a waiting thread active at once, in the very state the signaller  *)
(* left, and the signaller goes on before anybody new comes in.            *)
(***************************************************************************)
EXTENDS Naturals, Sequences

CONSTANTS Proc, Cv, NULL

VARIABLES
    active,          \* the thread that is active in the monitor, or NULL
    door,            \* who waits to enter
    back,            \* the signallers that stepped back
    asleep           \* who waits on each condition variable

vars == <<active, door, back, asleep>>

Init == active = NULL /\ door = <<>> /\ back = <<>> /\ asleep = [c \in Cv |-> <<>>]

\* Whom a thread that stops being active makes active
Successor ==
    IF back # <<>> THEN active' = Head(back) /\ back' = Tail(back) /\ UNCHANGED door
    ELSE IF door # <<>> THEN active' = Head(door) /\ door' = Tail(door) /\ UNCHANGED back
    ELSE active' = NULL /\ UNCHANGED <<door, back>>

Enter(p) ==
    /\ p # active
    /\ IF active = NULL THEN active' = p /\ UNCHANGED door
                        ELSE door' = Append(door, p) /\ UNCHANGED active
    /\ UNCHANGED <<back, asleep>>

Leave == active # NULL /\ Successor /\ UNCHANGED asleep

Wait(c) ==
    /\ active # NULL /\ Successor
    /\ asleep' = [asleep EXCEPT ![c] = Append(@, active)]

Signal(c) ==
    /\ active # NULL /\ asleep[c] # <<>>
    /\ active' = Head(asleep[c])
    /\ asleep' = [asleep EXCEPT ![c] = Tail(@)]
    /\ back' = Append(back, active)
    /\ UNCHANGED door

Next == \/ Leave
        \/ \E p \in Proc : Enter(p)
        \/ \E c \in Cv : Wait(c) \/ Signal(c)

Spec == Init /\ [][Next]_vars

=============================================================================
