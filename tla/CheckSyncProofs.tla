---------------------------- MODULE CheckSyncProofs ----------------------------
(***************************************************************************)
(* The dining philosophers of check_sync.c, for any number of them and any *)
(* number of meals.  Both parts keep StatesOK, what the states say of the  *)
(* forks; SemaInv and CondInv add who is in the critical section, what the *)
(* semaphores carry and how far everybody is, and SyncInv joins the two.   *)
(***************************************************************************)
EXTENDS CheckSync, MonitorProofs

\* The semaphore of the down() a philosopher of the first part sleeps in.
SemaDown == [p \in Proc |-> IF ~ blocked[p] THEN NULL
                            ELSE IF at[p] \in {"take", "put"} THEN mutex ELSE Self[p]]

\* The types of what the monitor does not know.
PhiTypeOK ==
    /\ state \in [Proc -> {"THINKING", "HUNGRY", "EATING"}]
    /\ iter \in [Proc -> Nat]

\* Neighbours do not eat at the same time.
NeighboursApart == \A i \in Proc : state[i] = "EATING" => state[Right(i)] # "EATING"

\* A hungry philosopher has a neighbour that eats, or one that has put its
\* forks down and looks to its left first.
HungryWatched ==
    \A i \in Proc : state[i] = "HUNGRY" =>
        \/ "EATING" \in {state[Left(i)], state[Right(i)]}
        \/ at[Left(i)] = "right"

\* What both parts know of the states between two steps.
StatesOK == PhiTypeOK /\ NeighboursApart /\ HungryWatched

-----------------------------------------------------------------------------
\* The first part: where a philosopher can be ...
SemaPlaces == {"think", "take", "test", "taken", "wait", "eat", "put", "left", "right", "done", "quit"}

\* ... for one at `place', inside a down() there or not, with state st and
\* wait_state ws.
SemaAt(place, asleep, st, ws) ==
    /\ asleep => place \in {"take", "put", "wait"}
    /\ place \in {"think", "take", "test", "right", "done", "quit"} => st = "THINKING"
    /\ place \in {"taken", "wait"} => st # "THINKING"
    /\ place \in {"eat", "put", "left"} => st = "EATING"
    /\ ws = "WT_TIMER" => place \in {"take", "put"}

\* A unit v in the semaphore of that philosopher, or its being woken, and what
\* it stands for.
SignalAt(v, place, asleep, st, ws) ==
    /\ v \in {0, 1}
    /\ v = 1 => ~ (place = "wait" /\ asleep)
    /\ (v = 1 \/ (place = "wait" /\ asleep /\ ws = "0")) <=> (st = "EATING" /\ place \in {"taken", "wait"})

\* Every philosopher of the first part is so, and who has quit stays off the CPU.
SemaPlace ==
    /\ at \in [Proc -> SemaPlaces] /\ blocked \in [Proc -> BOOLEAN]
    /\ \A i \in Proc : /\ SemaAt(at[i], blocked[i], state[i], wait_state[i])
                       /\ SignalAt(value[Self[i]], at[i], blocked[i], state[i], wait_state[i])
                       /\ at[i] = "quit" => i # current /\ i \notin Elems(run_list)

\* Who is in the critical section, or has been handed it.
InsideAt(place, asleep, ws) == \/ place \in {"test", "taken", "left", "right", "done"}
                               \/ place \in {"take", "put"} /\ asleep /\ ws = "0"
Inside == {p \in Proc : InsideAt(at[p], blocked[p], wait_state[p])}

\* The critical section has one token, in mutex or with who is inside.
SemaToken ==
    \/ Inside = {} /\ value[mutex] = 1
    \/ value[mutex] = 0 /\ \E p \in Proc : Inside = {p}

\* The monitor before the second part begins.
Untouched ==
    /\ next_count = 0 /\ count = [c \in Cv |-> 0]
    /\ mpc = [p \in Proc |-> "out"] /\ cv = [p \in Proc |-> NULL]

-----------------------------------------------------------------------------
\* The second part: where a philosopher can be ...
CondPlaces == {"think", "take", "check", "taken", "eat", "put", "right", "done", "quit"}

\* ... for one at `place' that is as far in the monitor as m says.
CondAt(place, m, st, ws) ==
    /\ place \in {"think", "quit", "eat"} => m = "out"
    /\ place \in {"take", "put"} => m \in {"out", "entering", "in"}
    /\ place = "check" => m = "in"
    /\ place = "taken" => m \in {"in", "released", "waiting"}
    /\ place \in {"right", "done"} => m \in {"in", "signalled", "urgent"}
    /\ place \in {"think", "take", "right", "done", "quit"} => st = "THINKING"
    /\ place = "check" => st # "THINKING"
    /\ place \in {"eat", "put"} => st = "EATING"
    /\ place = "taken" => st = IF m = "released" \/ (m = "waiting" /\ ws # "0")
                               THEN "HUNGRY" ELSE "EATING"

\* Every philosopher of the second part is so, and waits on its own cv only.
CondPlace ==
    /\ at \in [Proc -> CondPlaces]
    /\ \A i \in Proc : /\ CondAt(at[i], mpc[i], state[i], wait_state[i])
                       /\ cv[i] \in {NULL, Self[i]}

\* Who stepped back keeps the door closed.
DoorClosed == \A p \in Proc : mpc[p] \in {"signalled", "urgent"} => value[mutex] = 0

CondInv == MonInv /\ StatesOK /\ CondPlace /\ DoorClosed

-----------------------------------------------------------------------------
\* The forks of philosopher i lie between it and these two.
LEMMA Neighbours ==
    ASSUME NEW i \in Proc
    PROVE  /\ Left(i) \in Proc /\ Right(i) \in Proc
           /\ Left(i) # i /\ Right(i) # i
           /\ Left(Right(i)) = i /\ Right(Left(i)) = i
           /\ \A k \in Proc : /\ Left(k) = i <=> k = Right(i)
                              /\ Right(k) = i <=> k = Left(i)
<1>1. N \in Nat \ {0, 1} /\ Proc = 0..(N - 1)
  BY PhilosopherAssumption
<1>2. ASSUME NEW k \in Proc
      PROVE  /\ Right(k) = IF k + 1 = N THEN 0 ELSE k + 1
             /\ Left(k) = IF k = 0 THEN N - 1 ELSE k - 1
  BY <1>1 DEF Left, Right
<1>3. ASSUME NEW k \in Proc
      PROVE  /\ Left(k) \in Proc /\ Right(k) \in Proc /\ Left(k) # k /\ Right(k) # k
  BY <1>1, <1>2
<1>4. ASSUME NEW k \in Proc
      PROVE  Left(Right(k)) = k /\ Right(Left(k)) = k
  <2>1. Left(Right(k)) = k
    <3>1. Left(Right(k)) = IF Right(k) = 0 THEN N - 1 ELSE Right(k) - 1
      BY <1>2, <1>3
    <3> QED
      BY <1>1, <1>2, <3>1
  <2>2. Right(Left(k)) = k
    <3>1. Right(Left(k)) = IF Left(k) + 1 = N THEN 0 ELSE Left(k) + 1
      BY <1>2, <1>3
    <3> QED
      BY <1>1, <1>2, <3>1
  <2> QED
    BY <2>1, <2>2
<1> QED
  BY <1>3, <1>4

\* The semaphores of the philosophers.
LEMMA Semas ==
    /\ mutex \in Sem /\ NULL \notin Sem /\ NULL \notin Proc
    /\ \A i \in Proc : Self[i] \in Sem /\ Self[i] \in Cv /\ Self[i] # mutex
    /\ \A i, j \in Proc : Self[i] = Self[j] => i = j
BY Names, PhilosopherAssumption

\* phi_test, where the states are st: it lets j eat when it may, and takes
\* nobody's fork.
Tests(st, j) == state' = [st EXCEPT ![j] = IF MayEat(st, j) THEN "EATING" ELSE @]
Apart(st) == \A i \in Proc : st[i] = "EATING" => st[Right(i)] # "EATING"
Fed(st, i) == "EATING" \in {st[Left(i)], st[Right(i)]}

\* What a test does to the states.
LEMMA TestFacts ==
    ASSUME NEW st \in [Proc -> {"THINKING", "HUNGRY", "EATING"}], NEW j \in Proc, Tests(st, j),
           Apart(st)
    PROVE  /\ state' \in [Proc -> {"THINKING", "HUNGRY", "EATING"}]
           /\ \A i \in Proc : i # j => state'[i] = st[i]
           /\ MayEat(st, j) => st[j] = "HUNGRY" /\ state'[j] = "EATING"
           /\ ~ MayEat(st, j) => state'[j] = st[j]
           /\ NeighboursApart'
           /\ \A i \in Proc : Fed(st, i) => Fed(state', i)
           /\ state'[j] = "HUNGRY" => Fed(state', j)
<1>1. /\ state' \in [Proc -> {"THINKING", "HUNGRY", "EATING"}]
      /\ \A i \in Proc : i # j => state'[i] = st[i]
      /\ MayEat(st, j) => st[j] = "HUNGRY" /\ state'[j] = "EATING"
      /\ ~ MayEat(st, j) => state'[j] = st[j]
  BY DEF Tests, MayEat
<1>2. \A i \in Proc : st[i] = "EATING" => state'[i] = "EATING"
  BY <1>1
<1>3. NeighboursApart'
  <2> SUFFICES ASSUME NEW i \in Proc, state'[i] = "EATING", state'[Right(i)] = "EATING"
               PROVE  FALSE
    BY DEF NeighboursApart
  <2>0. Right(i) \in Proc /\ Right(i) # i /\ Left(Right(i)) = i
    BY Neighbours
  <2>1. CASE i = j
    <3>1. st[Right(j)] = "EATING"
      BY <2>0, <2>1, <1>1
    <3> QED
      BY <3>1, <2>1, <1>1 DEF MayEat, Apart
  <2>2. CASE Right(i) = j
    <3>1. st[i] = "EATING" /\ Left(j) = i
      BY <2>0, <2>2, <1>1
    <3> QED
      BY <3>1, <2>2, <1>1 DEF MayEat, Apart
  <2>3. CASE i # j /\ Right(i) # j
    BY <2>0, <2>3, <1>1 DEF Apart
  <2> QED
    BY <2>1, <2>2, <2>3
<1>4. ASSUME NEW i \in Proc, Fed(st, i) PROVE Fed(state', i)
  BY <1>2, <1>4, Neighbours DEF Fed
<1>5. ASSUME state'[j] = "HUNGRY" PROVE Fed(state', j)
  <2>1. st[j] = "HUNGRY" /\ ~ MayEat(st, j)
    BY <1>1, <1>5
  <2>2. Fed(st, j)
    BY <2>1 DEF MayEat, Fed
  <2> QED
    BY <1>4, <2>2
<1> QED
  BY <1>1, <1>3, <1>4, <1>5

\* A step that changes no state, and at most sends a philosopher to "right".
LEMMA SameStates ==
    ASSUME StatesOK, state' = state, iter' \in [Proc -> Nat],
           \A q \in Proc : at[q] = "right" => at'[q] = "right"
    PROVE  StatesOK'
<1>1. \A i \in Proc : Left(i) \in Proc
  BY Neighbours
<1> QED
  BY <1>1 DEF StatesOK, PhiTypeOK, NeighboursApart, HungryWatched

\* phi_take_forks becomes hungry and tests itself.
LEMMA TakeStates ==
    ASSUME StatesOK, NEW c \in Proc, state[c] = "THINKING",
           Tests([state EXCEPT ![c] = "HUNGRY"], c), iter' = iter,
           \A q \in Proc : at[q] = "right" => at'[q] = "right"
    PROVE  /\ StatesOK' /\ state'[c] \in {"HUNGRY", "EATING"}
           /\ state'[c] = "EATING" <=> MayEat([state EXCEPT ![c] = "HUNGRY"], c)
           /\ \A i \in Proc : i # c => state'[i] = state[i]
<1> DEFINE st == [state EXCEPT ![c] = "HUNGRY"]
<1>1. /\ st \in [Proc -> {"THINKING", "HUNGRY", "EATING"}] /\ st[c] = "HUNGRY"
      /\ \A i \in Proc : i # c => st[i] = state[i]
      /\ \A i \in Proc : st[i] = "EATING" <=> state[i] = "EATING"
  BY DEF StatesOK, PhiTypeOK
<1>2. Tests(st, c)
  OBVIOUS
<1> HIDE DEF st
<1>3. Apart(st)
  BY <1>1, Neighbours DEF StatesOK, NeighboursApart, Apart
<1>4. /\ state' \in [Proc -> {"THINKING", "HUNGRY", "EATING"}]
      /\ \A i \in Proc : i # c => state'[i] = st[i]
      /\ MayEat(st, c) => st[c] = "HUNGRY" /\ state'[c] = "EATING"
      /\ ~ MayEat(st, c) => state'[c] = st[c]
      /\ NeighboursApart'
      /\ \A i \in Proc : Fed(st, i) => Fed(state', i)
      /\ state'[c] = "HUNGRY" => Fed(state', c)
  BY <1>1, <1>2, <1>3, TestFacts
<1>5. HungryWatched'
  <2> SUFFICES ASSUME NEW i \in Proc, state'[i] = "HUNGRY"
               PROVE  Fed(state', i) \/ at'[Left(i)] = "right"
    BY DEF HungryWatched, Fed
  <2>1. CASE i = c
    BY <2>1, <1>4
  <2>2. CASE i # c
    <3>1. state[i] = "HUNGRY"
      BY <2>2, <1>1, <1>4
    <3>2. Fed(state, i) \/ at[Left(i)] = "right"
      BY <3>1 DEF StatesOK, HungryWatched, Fed
    <3>3. Fed(state, i) => Fed(st, i)
      BY <1>1, Neighbours DEF Fed
    <3> QED
      BY <3>2, <3>3, <1>4, Neighbours
  <2> QED
    BY <2>1, <2>2
<1> QED
  BY <1>1, <1>4, <1>5 DEF StatesOK, PhiTypeOK, st

\* phi_put_forks stops eating and tests its left neighbour.
LEMMA PutStates ==
    ASSUME StatesOK, NEW c \in Proc, state[c] = "EATING",
           Tests([state EXCEPT ![c] = "THINKING"], Left(c)), iter' = iter,
           at'[c] = "right", \A q \in Proc : at[q] = "right" => at'[q] = "right"
    PROVE  /\ StatesOK' /\ state'[c] = "THINKING"
           /\ \A i \in Proc : i # c /\ i # Left(c) => state'[i] = state[i]
           /\ MayEat([state EXCEPT ![c] = "THINKING"], Left(c))
                => state[Left(c)] = "HUNGRY" /\ state'[Left(c)] = "EATING"
           /\ ~ MayEat([state EXCEPT ![c] = "THINKING"], Left(c))
                => state'[Left(c)] = state[Left(c)]
<1> DEFINE st == [state EXCEPT ![c] = "THINKING"]
<1>0. Left(c) \in Proc /\ Left(c) # c
  BY Neighbours
<1>1. /\ st \in [Proc -> {"THINKING", "HUNGRY", "EATING"}] /\ st[c] = "THINKING"
      /\ \A i \in Proc : i # c => st[i] = state[i]
      /\ \A i \in Proc : st[i] = "EATING" => state[i] = "EATING"
  BY DEF StatesOK, PhiTypeOK
<1>2. Tests(st, Left(c))
  OBVIOUS
<1> HIDE DEF st
<1>3. Apart(st)
  BY <1>1, Neighbours DEF StatesOK, NeighboursApart, Apart
<1>4. /\ state' \in [Proc -> {"THINKING", "HUNGRY", "EATING"}]
      /\ \A i \in Proc : i # Left(c) => state'[i] = st[i]
      /\ MayEat(st, Left(c)) => st[Left(c)] = "HUNGRY" /\ state'[Left(c)] = "EATING"
      /\ ~ MayEat(st, Left(c)) => state'[Left(c)] = st[Left(c)]
      /\ NeighboursApart'
      /\ \A i \in Proc : Fed(st, i) => Fed(state', i)
      /\ state'[Left(c)] = "HUNGRY" => Fed(state', Left(c))
  BY <1>0, <1>1, <1>2, <1>3, TestFacts
<1>5. HungryWatched'
  <2> SUFFICES ASSUME NEW i \in Proc, state'[i] = "HUNGRY"
               PROVE  Fed(state', i) \/ at'[Left(i)] = "right"
    BY DEF HungryWatched, Fed
  <2>1. CASE i = Left(c)
    BY <2>1, <1>4
  <2>2. CASE i = Right(c)
    BY <2>2, Neighbours
  <2>3. CASE i # Left(c) /\ i # Right(c)
    <3>1. i # c /\ state[i] = "HUNGRY"
      BY <2>3, <1>1, <1>4
    <3>2. Fed(state, i) \/ at[Left(i)] = "right"
      BY <3>1 DEF StatesOK, HungryWatched, Fed
    <3>3. Left(i) \in Proc /\ Right(i) \in Proc /\ Left(i) # c /\ Right(i) # c
      BY <2>3, Neighbours
    <3>4. Fed(state, i) => Fed(st, i)
      BY <1>1, <3>3 DEF Fed
    <3> QED
      BY <3>2, <3>3, <3>4, <1>4
  <2> QED
    BY <2>1, <2>2, <2>3
<1>6. iter' \in [Proc -> Nat]
  BY DEF StatesOK, PhiTypeOK
<1> QED
  BY <1>0, <1>1, <1>4, <1>5, <1>6 DEF StatesOK, PhiTypeOK, st

\* ... and then its right one, which nobody else had an eye on.
LEMMA RightStates ==
    ASSUME StatesOK, NEW c \in Proc, Tests(state, Right(c)), iter' = iter,
           \A q \in Proc : q # c /\ at[q] = "right" => at'[q] = "right"
    PROVE  /\ StatesOK' /\ \A i \in Proc : i # Right(c) => state'[i] = state[i]
           /\ MayEat(state, Right(c)) => state[Right(c)] = "HUNGRY" /\ state'[Right(c)] = "EATING"
           /\ ~ MayEat(state, Right(c)) => state'[Right(c)] = state[Right(c)]
<1>0. Right(c) \in Proc /\ Right(c) # c /\ Left(Right(c)) = c
  BY Neighbours
<1>1. state \in [Proc -> {"THINKING", "HUNGRY", "EATING"}] /\ Apart(state)
  BY DEF StatesOK, PhiTypeOK, NeighboursApart, Apart
<1>4. /\ state' \in [Proc -> {"THINKING", "HUNGRY", "EATING"}]
      /\ \A i \in Proc : i # Right(c) => state'[i] = state[i]
      /\ MayEat(state, Right(c)) => state[Right(c)] = "HUNGRY" /\ state'[Right(c)] = "EATING"
      /\ ~ MayEat(state, Right(c)) => state'[Right(c)] = state[Right(c)]
      /\ NeighboursApart'
      /\ \A i \in Proc : Fed(state, i) => Fed(state', i)
      /\ state'[Right(c)] = "HUNGRY" => Fed(state', Right(c))
  BY <1>0, <1>1, TestFacts
<1>5. HungryWatched'
  <2> SUFFICES ASSUME NEW i \in Proc, state'[i] = "HUNGRY"
               PROVE  Fed(state', i) \/ at'[Left(i)] = "right"
    BY DEF HungryWatched, Fed
  <2>1. CASE i = Right(c)
    BY <2>1, <1>4
  <2>2. CASE i # Right(c)
    <3>1. state[i] = "HUNGRY"
      BY <2>2, <1>4
    <3>2. Fed(state, i) \/ at[Left(i)] = "right"
      BY <3>1 DEF StatesOK, HungryWatched, Fed
    <3>3. Left(i) \in Proc /\ Left(i) # c
      BY <2>2, <1>0, Neighbours
    <3> QED
      BY <3>2, <3>3, <1>4
  <2> QED
    BY <2>1, <2>2
<1>6. iter' \in [Proc -> Nat]
  BY DEF StatesOK, PhiTypeOK
<1> QED
  BY <1>0, <1>4, <1>5, <1>6 DEF StatesOK, PhiTypeOK

-----------------------------------------------------------------------------
(***************************************************************************)
(* The first part.  What up() and down() do to the CPU and the wait queues *)
(* is proved in MonitorProofs for any thread that sleeps in one down() at  *)
(* a time; here it is the one SemaDown tells.                              *)
(***************************************************************************)
Low == INSTANCE MonitorProofs
         WITH mpc <- [p \in Proc |-> IF blocked[p] THEN "waiting" ELSE "out"],
              cv <- SemaDown

\* Low is an instance of the same CPU and semaphores, and SemaDown its DownOf.
LEMMA LowIs ==
    /\ Low!SemAssumption /\ Low!MonitorAssumption
    /\ Low!DownOf = SemaDown /\ Low!DownOf' = SemaDown'
<1>1. Low!SemAssumption
  BY SemAssumption, Zenon DEF SemAssumption, Low!SemAssumption, IsFiniteSet, Low!IsFiniteSet
<1>4. Low!MonitorAssumption
  BY MonitorAssumption, Zenon DEF MonitorAssumption, Low!MonitorAssumption
<1>2. Low!DownOf = SemaDown
  BY DEF Low!DownOf, SemaDown
<1>3. Low!DownOf' = SemaDown'
  BY DEF Low!DownOf, SemaDown
<1> QED
  BY <1>1, <1>2, <1>3, <1>4

\* The same operations.
LEMMA LowSteps ==
    /\ \A s : /\ Sema!Take(s) <=> Low!Take(s)
              /\ Sema!Up(s) <=> Low!Up(s)
              /\ Sema!Block(s) <=> Low!Block(s)
              /\ Sema!Unblock(s) <=> Low!Unblock(s)
    /\ Sema!StartSleep <=> Low!StartSleep
    /\ \A p : Sema!TimerFires(p) <=> Low!TimerFires(p)
    /\ Sema!IdleSchedules <=> Low!IdleSchedules
    /\ Sema!Switch(run_list) <=> Low!Switch(run_list)
    /\ Sema!WokenByUp <=> Low!WokenByUp
<1>1. \A s, T : Sema!Keep(s, T) = Low!Keep(s, T)
  BY Zenon DEF Sema!Keep, Low!Keep
<1>2. \A q : Sema!Switch(q) <=> Low!Switch(q)
  BY Zenon DEF Sema!Switch, Low!Switch
<1>3. \A p : Sema!Wakeup(p) <=> Low!Wakeup(p)
  BY Zenon DEF Sema!Wakeup, Low!Wakeup
<1>4. \A s : Sema!Take(s) <=> Low!Take(s)
  BY Zenon DEF Sema!Take, Low!Take, Sema!cpuVars, Low!cpuVars
<1>5. \A s : Sema!Up(s) <=> Low!Up(s)
  BY <1>3, Zenon DEF Sema!Up, Low!Up, Sema!WakeupWait, Low!WakeupWait
<1>6. \A s : Sema!Block(s) <=> Low!Block(s)
  BY <1>2, Zenon DEF Sema!Block, Low!Block, Sema!WaitCurrentSet, Low!WaitCurrentSet
<1>7. \A s : Sema!Unblock(s) <=> Low!Unblock(s)
  BY <1>1 DEF Sema!Unblock, Low!Unblock, Sema!cpuVars, Low!cpuVars
<1>8. Sema!StartSleep <=> Low!StartSleep
  BY <1>2, Zenon DEF Sema!StartSleep, Low!StartSleep, Sema!semVars, Low!semVars
<1>9. \A p : Sema!TimerFires(p) <=> Low!TimerFires(p)
  BY <1>3, Zenon DEF Sema!TimerFires, Low!TimerFires, Sema!semVars, Low!semVars
<1>10. Sema!IdleSchedules <=> Low!IdleSchedules
  BY <1>2, Zenon DEF Sema!IdleSchedules, Low!IdleSchedules, Sema!semVars, Low!semVars
<1>11. Sema!WokenByUp <=> Low!WokenByUp
  BY Zenon DEF Sema!WokenByUp, Low!WokenByUp
<1> QED
  BY <1>2, <1>4, <1>5, <1>6, <1>7, <1>8, <1>9, <1>10, <1>11

\* The invariant of the first part.
SemaInv == Low!SemInv /\ StatesOK /\ SemaPlace /\ SemaToken /\ Untouched

\* Nobody gets the CPU, or a place in the run queue, but who had one or slept.
RunOnly == \A q \in Proc : q = current' \/ q \in Elems(run_list')
                              => q = current \/ q \in Elems(run_list) \/ wait_state[q] # "0"

\* The CPU and the semaphores between two steps.
LEMMA SemaFacts ==
    ASSUME Low!SemInv
    PROVE  /\ current \in Proc \cup {NULL} /\ run_list \in Seq(Proc)
           /\ wait_state \in [Proc -> {"0", "WT_KSEM", "WT_TIMER"}]
           /\ value \in [Sem -> Nat] /\ SemaDown \in [Proc -> Sem \cup {NULL}]
           /\ wait_queue \in [Sem -> Seq(Proc)]
           /\ current # NULL => current \in Proc /\ wait_state[current] = "0"
           /\ current \notin Elems(run_list)
           /\ \A p \in Elems(run_list) : wait_state[p] = "0"
           /\ \A p \in Proc : /\ wait_state[p] = "WT_KSEM" => SemaDown[p] # NULL
                              /\ wait_state[p] = "WT_TIMER" => SemaDown[p] = NULL
           /\ \A s \in Sem : \A p \in Proc :
                 p \in Elems(wait_queue[s]) <=> wait_state[p] = "WT_KSEM" /\ SemaDown[p] = s
<1>1. \A s : Low!Elems(s) = Elems(s)
  BY Zenon DEF Low!Elems, Elems
<1>2. Low!SemTypeOK /\ Low!CpuExact /\ Low!QueuesExact
  BY DEF Low!SemInv
<1>3. /\ current \in Proc \cup {NULL} /\ run_list \in Seq(Proc)
      /\ wait_state \in [Proc -> {"0", "WT_KSEM", "WT_TIMER"}]
      /\ value \in [Sem -> Nat] /\ SemaDown \in [Proc -> Sem \cup {NULL}]
      /\ wait_queue \in [Sem -> Seq(Proc)]
  BY <1>2, LowIs DEF Low!SemTypeOK
<1>4. /\ current # NULL => wait_state[current] = "0"
      /\ \A p \in Elems(run_list) : p # current /\ wait_state[p] = "0"
  BY <1>1, <1>2 DEF Low!CpuExact
<1>5. /\ \A p \in Proc : /\ wait_state[p] = "WT_KSEM" => SemaDown[p] # NULL
                         /\ wait_state[p] = "WT_TIMER" => SemaDown[p] = NULL
      /\ \A s \in Sem : \A p \in Proc :
            p \in Elems(wait_queue[s]) <=> wait_state[p] = "WT_KSEM" /\ SemaDown[p] = s
  BY <1>1, <1>2, LowIs DEF Low!QueuesExact
<1> QED
  BY <1>3, <1>4, <1>5

\* schedule() lets the head of the run queue go on.
LEMMA SwitchRuns ==
    ASSUME run_list \in Seq(Proc), Low!Switch(run_list)
    PROVE  /\ RunOnly
           /\ \A q \in Proc : q = current' \/ q \in Elems(run_list') => q \in Elems(run_list)
<1>1. CASE run_list = <<>>
  <2>1. current' = NULL /\ run_list' = run_list
    BY <1>1 DEF Low!Switch
  <2> QED
    BY <2>1, Semas DEF RunOnly
<1>2. CASE run_list # <<>>
  <2>1. current' = Head(run_list) /\ run_list' = Tail(run_list)
    BY <1>2 DEF Low!Switch
  <2>2. Head(run_list) \in Elems(run_list) /\ Elems(Tail(run_list)) \subseteq Elems(run_list)
    <3>1. run_list \in Seq(Proc) /\ Len(run_list) \in Nat /\ Len(run_list) # 0
      BY <1>2
    <3>2. Head(run_list) = run_list[1] /\ Len(Tail(run_list)) = Len(run_list) - 1
          /\ \A i \in 1..Len(Tail(run_list)) : Tail(run_list)[i] = run_list[i + 1]
      BY <3>1
    <3> QED
      BY <3>1, <3>2 DEF Elems
  <2> QED
    BY <2>1, <2>2 DEF RunOnly
<1> QED
  BY <1>1, <1>2

\* wakeup_proc appends a sleeper.
LEMMA WakeupRuns ==
    ASSUME run_list \in Seq(Proc), NEW p \in Proc, wait_state[p] # "0", Low!Wakeup(p),
           current' = current
    PROVE  RunOnly
<1>1. run_list' = Append(run_list, p)
  BY DEF Low!Wakeup
<1>2. Elems(run_list') \subseteq Elems(run_list) \cup {p}
  <2>1. Len(run_list') = Len(run_list) + 1 /\ Len(run_list) \in Nat
        /\ run_list'[Len(run_list) + 1] = p
        /\ \A i \in 1..Len(run_list) : run_list'[i] = run_list[i]
    BY <1>1
  <2> QED
    BY <2>1 DEF Elems
<1> QED
  BY <1>2 DEF RunOnly

\* down() that finds a unit
LEMMA SemaTakes ==
    ASSUME Low!SemInv, NEW s \in Sem, Sema!Take(s), SemaDown' = SemaDown
    PROVE  /\ Low!SemInv' /\ current' = current /\ run_list' = run_list /\ wait_state' = wait_state
           /\ \A t \in Sem : t # s => value'[t] = value[t]
           /\ value[s] > 0 /\ value'[s] = value[s] - 1
<1>1. Low!Take(s) /\ Low!DownOf' = Low!DownOf
  BY LowSteps, LowIs
<1>2. /\ Low!SemInv' /\ UNCHANGED <<Low!cpuVars, wait_queue>>
      /\ \A t \in Sem : t # s => value'[t] = value[t]
      /\ value[s] > 0 /\ value'[s] = value[s] - 1
  BY <1>1, LowIs, Low!ValueStep
<1> QED
  BY <1>2 DEF Low!cpuVars

\* up() gives the unit to the first who waits, if any.
LEMMA SemaUps ==
    ASSUME Low!SemInv, NEW s \in Sem, Sema!Up(s), SemaDown' = SemaDown
    PROVE  /\ Low!SemInv' /\ current' = current /\ RunOnly
           /\ \A t \in Sem : t # s => value'[t] = value[t]
           /\ \/ /\ \A p \in Proc : ~ (wait_state[p] = "WT_KSEM" /\ SemaDown[p] = s)
                 /\ value'[s] = value[s] + 1 /\ wait_state' = wait_state
              \/ /\ value'[s] = value[s]
                 /\ \E p \in Proc : /\ wait_state[p] = "WT_KSEM" /\ SemaDown[p] = s
                                    /\ p # current /\ wait_state'[p] = "0"
                                    /\ \A q \in Proc : q # p => wait_state'[q] = wait_state[q]
<1>1. Low!Up(s) /\ Low!DownOf' = Low!DownOf
  BY LowSteps, LowIs
<1>2. CASE wait_queue[s] = <<>>
  <2>1. /\ Low!SemInv' /\ UNCHANGED <<Low!cpuVars, wait_queue>>
        /\ \A t \in Sem : t # s => value'[t] = value[t]
        /\ value'[s] = value[s] + 1
    BY <1>1, <1>2, LowIs, Low!ValueStep
  <2>2. \A p \in Proc : ~ (wait_state[p] = "WT_KSEM" /\ SemaDown[p] = s)
    <3>1. \A p : p \notin Elems(wait_queue[s])
      BY <1>2 DEF Elems
    <3> QED
      BY <3>1, SemaFacts
  <2>3. RunOnly
    BY <2>1 DEF RunOnly, Low!cpuVars
  <2> QED
    BY <2>1, <2>2, <2>3 DEF Low!cpuVars
<1>3. CASE wait_queue[s] # <<>>
  <2> DEFINE p == Head(wait_queue[s])
  <2>1. /\ Low!SemInv' /\ value' = value /\ current' = current
        /\ p \in Proc /\ p # current /\ wait_state[p] = "WT_KSEM" /\ Low!DownOf[p] = s
        /\ wait_state'[p] = "0" /\ \A q \in Proc : q # p => wait_state'[q] = wait_state[q]
    BY <1>1, <1>3, LowIs, Low!HandStep
  <2>2. Low!Wakeup(p)
    BY <1>1, <1>3 DEF Low!Up, Low!WakeupWait
  <2> HIDE DEF p
  <2>3. RunOnly
    BY <2>1, <2>2, SemaFacts, WakeupRuns
  <2> QED
    BY <2>1, <2>3, LowIs
<1> QED
  BY <1>2, <1>3

\* down() that finds none, up to its schedule()
LEMMA SemaBlocks ==
    ASSUME Low!SemInv, NEW s \in Sem, current # NULL, Sema!Block(s),
           SemaDown[current] = NULL, SemaDown' = [SemaDown EXCEPT ![current] = s]
    PROVE  /\ Low!SemInv' /\ value' = value /\ value[s] = 0 /\ RunOnly
           /\ current \in Proc /\ wait_state'[current] = "WT_KSEM"
           /\ \A q \in Proc : q # current => wait_state'[q] = wait_state[q]
<1>1. Low!Block(s) /\ Low!DownOf[current] = NULL
      /\ Low!DownOf' = [Low!DownOf EXCEPT ![current] = s]
  BY LowSteps, LowIs
<1>2. /\ Low!SemInv' /\ value' = value /\ value[s] = 0
      /\ current \in Proc /\ wait_state'[current] = "WT_KSEM"
      /\ \A q \in Proc : q # current => wait_state'[q] = wait_state[q]
  BY <1>1, LowIs, Low!BlockStep
<1>3. RunOnly
  BY <1>1, SemaFacts, SwitchRuns DEF Low!Block
<1> QED
  BY <1>2, <1>3

\* ... and after it
LEMMA SemaReturns ==
    ASSUME Low!SemInv, current # NULL, SemaDown[current] # NULL, Sema!Unblock(SemaDown[current]),
           SemaDown' = [SemaDown EXCEPT ![current] = NULL]
    PROVE  /\ Low!SemInv' /\ current' = current /\ run_list' = run_list
           /\ wait_state' = wait_state /\ value' = value
           /\ current \in Proc /\ wait_state[current] = "0"
<1>1. Low!DownOf[current] # NULL /\ Low!Unblock(Low!DownOf[current])
      /\ Low!DownOf' = [Low!DownOf EXCEPT ![current] = NULL]
  BY LowSteps, LowIs
<1>2. /\ Low!SemInv' /\ UNCHANGED <<Low!cpuVars, value, wait_queue>>
      /\ current \in Proc /\ wait_state[current] = "0"
  BY <1>1, LowIs, Low!ReturnStep
<1> QED
  BY <1>2 DEF Low!cpuVars

\* Who gets the CPU back in a down() was woken by an up().
LEMMA SemaWoken ==
    ASSUME Low!SemInv, current # NULL, SemaDown[current] # NULL
    PROVE  Sema!WokenByUp
<1>1. current \in Proc /\ wait_state[current] = "0"
  BY SemaFacts
<1>2. wakeup_flags[current] = "WT_KSEM"
  BY <1>1, LowIs DEF Low!SemInv, Low!QueuesExact
<1> QED
  BY <1>2 DEF Sema!WokenByUp

\* Sleeping, waking from it, and giving up the CPU.
LEMMA SemaCpu ==
    ASSUME Low!SemInv, SemaDown' = SemaDown,
           \/ current # NULL /\ SemaDown[current] = NULL /\ Sema!StartSleep
           \/ \E p \in Proc : Sema!TimerFires(p)
           \/ Sema!IdleSchedules
           \/ Sema!Switch(run_list) /\ UNCHANGED <<wait_state, Sema!semVars>>
    PROVE  /\ Low!SemInv' /\ value' = value /\ RunOnly
           /\ \A p \in Proc : SemaDown[p] # NULL => wait_state'[p] = wait_state[p]
           /\ \A p \in Proc : wait_state'[p] = "WT_TIMER" =>
                 \/ wait_state[p] = "WT_TIMER"
                 \/ p = current /\ Sema!StartSleep
           /\ (\E p \in Proc : Sema!TimerFires(p)) \/ Sema!IdleSchedules
                 => \A p \in Proc : wait_state'[p] = "WT_TIMER" => wait_state[p] = "WT_TIMER"
<1>1. /\ Low!DownOf' = Low!DownOf
      /\ \/ current # NULL /\ Low!DownOf[current] = NULL /\ Low!StartSleep
         \/ \E p \in Proc : Low!TimerFires(p)
         \/ Low!IdleSchedules
         \/ Low!Switch(run_list) /\ UNCHANGED <<wait_state, Low!semVars>>
  BY LowSteps, LowIs DEF Sema!semVars, Low!semVars
<1>2. /\ Low!SemInv' /\ UNCHANGED Low!semVars
      /\ \A p \in Proc : SemaDown[p] # NULL => wait_state'[p] = wait_state[p]
  BY <1>1, LowIs, Low!CpuStep
<1>3. run_list \in Seq(Proc) /\ wait_state \in [Proc -> {"0", "WT_KSEM", "WT_TIMER"}]
  BY SemaFacts
<1>4. ASSUME Low!Switch(run_list) PROVE RunOnly
  BY <1>3, <1>4, SwitchRuns
<1>5. ASSUME NEW p \in Proc, Low!TimerFires(p)
      PROVE  /\ RunOnly
             /\ \A q \in Proc : wait_state'[q] = "WT_TIMER" => wait_state[q] = "WT_TIMER"
  <2>1. wait_state[p] = "WT_TIMER" /\ Low!Wakeup(p) /\ current' = current
    BY <1>5 DEF Low!TimerFires
  <2>2. RunOnly
    BY <1>3, <2>1, WakeupRuns
  <2>3. wait_state' = [wait_state EXCEPT ![p] = "0"]
    BY <2>1 DEF Low!Wakeup
  <2> QED
    BY <1>3, <2>2, <2>3
<1>6. ASSUME current # NULL, Low!StartSleep
      PROVE  /\ RunOnly /\ Sema!StartSleep
             /\ \A q \in Proc : wait_state'[q] = "WT_TIMER" => wait_state[q] = "WT_TIMER" \/ q = current
  <2>1. Low!Switch(run_list) /\ wait_state' = [wait_state EXCEPT ![current] = "WT_TIMER"]
    BY <1>6 DEF Low!StartSleep
  <2> QED
    BY <1>3, <1>4, <1>6, <2>1, LowSteps
<1>7. ASSUME Low!IdleSchedules PROVE Low!Switch(run_list) /\ wait_state' = wait_state
  BY <1>7 DEF Low!IdleSchedules
<1>8. value' = value
  BY <1>2 DEF Low!semVars
<1>9. (\E p \in Proc : Sema!TimerFires(p)) \/ Sema!IdleSchedules
        => \A p \in Proc : wait_state'[p] = "WT_TIMER" => wait_state[p] = "WT_TIMER"
  BY <1>5, <1>7, LowSteps
<1>10. ASSUME Low!Switch(run_list), wait_state' = wait_state
       PROVE  RunOnly /\ \A p \in Proc : wait_state'[p] = "WT_TIMER" => wait_state[p] = "WT_TIMER"
  BY <1>4, <1>10
<1> QED
  BY <1>1, <1>2, <1>5, <1>6, <1>7, <1>8, <1>9, <1>10

-----------------------------------------------------------------------------
\* What the invariant says of one thread, and of who has the CPU.
LEMMA SemaThread ==
    ASSUME SemaInv, NEW p \in Proc
    PROVE  /\ at[p] \in SemaPlaces /\ blocked[p] \in BOOLEAN
           /\ state[p] \in {"THINKING", "HUNGRY", "EATING"}
           /\ wait_state[p] \in {"0", "WT_KSEM", "WT_TIMER"}
           /\ SemaAt(at[p], blocked[p], state[p], wait_state[p])
           /\ SignalAt(value[Self[p]], at[p], blocked[p], state[p], wait_state[p])
           /\ wait_state[p] = "WT_KSEM" => blocked[p]
           /\ blocked[p] => wait_state[p] # "WT_TIMER"
           /\ ~ blocked[p] => SemaDown[p] = NULL
           /\ blocked[p] /\ at[p] = "wait" => SemaDown[p] = Self[p]
           /\ blocked[p] /\ at[p] # "wait" => SemaDown[p] = mutex
           /\ at[p] = "quit" => p # current /\ p \notin Elems(run_list) /\ wait_state[p] = "0"
           /\ current = p => wait_state[p] = "0"
<1>1. /\ wait_state \in [Proc -> {"0", "WT_KSEM", "WT_TIMER"}]
      /\ current = p => wait_state[p] = "0"
      /\ wait_state[p] = "WT_KSEM" => SemaDown[p] # NULL
      /\ wait_state[p] = "WT_TIMER" => SemaDown[p] = NULL
  BY SemaFacts, Semas DEF SemaInv
<1>2. /\ at \in [Proc -> SemaPlaces] /\ blocked \in [Proc -> BOOLEAN]
      /\ state \in [Proc -> {"THINKING", "HUNGRY", "EATING"}]
      /\ SemaAt(at[p], blocked[p], state[p], wait_state[p])
      /\ SignalAt(value[Self[p]], at[p], blocked[p], state[p], wait_state[p])
      /\ at[p] = "quit" => p # current /\ p \notin Elems(run_list)
  BY DEF SemaInv, SemaPlace, StatesOK, PhiTypeOK
<1>3. SemaDown[p] = IF ~ blocked[p] THEN NULL
                    ELSE IF at[p] \in {"take", "put"} THEN mutex ELSE Self[p]
  BY DEF SemaDown
<1>4. Self[p] # NULL /\ mutex # NULL
  BY Semas
<1> QED
  BY <1>1, <1>2, <1>3, <1>4 DEF SemaAt, SemaPlaces

\* What is left to show of a step.
LEMMA SemaKeeps ==
    ASSUME SemaInv, Low!SemInv', StatesOK', RunOnly, SemaToken', UNCHANGED inMonitor,
           at' \in [Proc -> SemaPlaces], blocked' \in [Proc -> BOOLEAN],
           \A q \in Proc : /\ SemaAt(at'[q], blocked'[q], state'[q], wait_state'[q])
                           /\ SignalAt(value'[Self[q]], at'[q], blocked'[q], state'[q], wait_state'[q])
                           /\ at'[q] = "quit" => at[q] = "quit"
    PROVE  SemaInv'
<1>1. Untouched'
  BY DEF SemaInv, Untouched, inMonitor
<1>2. ASSUME NEW q \in Proc, at'[q] = "quit" PROVE q # current' /\ q \notin Elems(run_list')
  BY <1>2, SemaThread DEF RunOnly
<1>3. SemaPlace'
  BY <1>2 DEF SemaPlace
<1> QED
  BY <1>1, <1>3 DEF SemaInv

\* Somebody else's critical section is left alone.
LEMMA SameToken ==
    ASSUME SemaInv, value'[mutex] = value[mutex],
           \A q \in Proc : InsideAt(at'[q], blocked'[q], wait_state'[q])
                              <=> InsideAt(at[q], blocked[q], wait_state[q])
    PROVE  SemaToken'
<1>1. Inside' = Inside
  BY DEF Inside
<1> QED
  BY <1>1 DEF SemaInv, SemaToken

\* Sleeping, and being woken from it.
LEMMA SemaSleeps ==
    ASSUME SemaInv, UNCHANGED inMonitor,
           \/ Sema!Sleep("think", "take") \/ Sema!Sleep("eat", "put")
    PROVE  SemaInv'
<1> DEFINE c == current
<1>1. PICK from, to : /\ <<from, to>> \in {<<"think", "take">>, <<"eat", "put">>}
                      /\ Sema!Sleep(from, to)
  OBVIOUS
<1>2. /\ c # NULL /\ at[c] = from /\ Sema!StartSleep
      /\ at' = [at EXCEPT ![c] = to] /\ UNCHANGED <<state, blocked, iter>>
  BY <1>1 DEF Sema!Sleep, Sema!On, Sema!GoTo
<1>3. /\ \/ from = "think" /\ to = "take"
         \/ from = "eat" /\ to = "put"
      /\ from # to
  BY <1>1
<1>4. c \in Proc /\ Low!SemInv
  BY <1>2, SemaFacts DEF SemaInv
<1>5. ~ blocked[c] /\ blocked \in [Proc -> BOOLEAN] /\ at \in [Proc -> SemaPlaces]
  BY <1>2, <1>3, <1>4, SemaThread DEF SemaAt, SemaInv, SemaPlace
<1>6. /\ at' \in [Proc -> SemaPlaces] /\ at'[c] = to
      /\ \A q \in Proc : q # c => at'[q] = at[q]
  BY <1>2, <1>3, <1>4, <1>5 DEF SemaPlaces
<1>7. SemaDown[c] = NULL /\ SemaDown' = SemaDown
  BY <1>2, <1>3, <1>4, <1>5, <1>6 DEF SemaDown
<1> HIDE DEF c
<1>8. /\ Low!SemInv' /\ value' = value /\ RunOnly
      /\ \A p \in Proc : SemaDown[p] # NULL => wait_state'[p] = wait_state[p]
      /\ \A p \in Proc : wait_state'[p] = "WT_TIMER" => wait_state[p] = "WT_TIMER" \/ p = c
  BY <1>2, <1>4, <1>7, SemaCpu DEF c
<1>9. StatesOK'
  <2>1. \A q \in Proc : at[q] = "right" => at'[q] = "right"
    BY <1>2, <1>3, <1>6
  <2> QED
    BY <2>1, <1>2, SameStates DEF SemaInv, StatesOK, PhiTypeOK
<1>10. ASSUME NEW q \in Proc
       PROVE  /\ SemaAt(at'[q], blocked'[q], state'[q], wait_state'[q])
              /\ SignalAt(value'[Self[q]], at'[q], blocked'[q], state'[q], wait_state'[q])
              /\ at'[q] = "quit" => at[q] = "quit"
              /\ InsideAt(at'[q], blocked'[q], wait_state'[q])
                   <=> InsideAt(at[q], blocked[q], wait_state[q])
  <2>1. /\ SemaAt(at[q], blocked[q], state[q], wait_state[q])
        /\ SignalAt(value[Self[q]], at[q], blocked[q], state[q], wait_state[q])
        /\ blocked[q] => wait_state'[q] = wait_state[q]
    <3>1. blocked[q] => SemaDown[q] # NULL
      BY SemaThread, Semas
    <3> QED
      BY <3>1, <1>8, SemaThread
  <2>2. UNCHANGED <<blocked, state, value>>
    BY <1>2, <1>8
  <2>3. CASE q = c
    <3>1. at[q] = from /\ at'[q] = to /\ ~ blocked[q]
      BY <1>2, <1>5, <1>6, <2>3
    <3> QED
      BY <3>1, <2>1, <2>2, <1>3 DEF SemaAt, SignalAt, InsideAt
  <2>4. CASE q # c
    <3>1. at'[q] = at[q] /\ (wait_state'[q] = "WT_TIMER" => wait_state[q] = "WT_TIMER")
      BY <1>6, <1>8, <2>4
    <3> QED
      BY <3>1, <2>1, <2>2 DEF SemaAt, SignalAt, InsideAt
  <2> QED
    BY <2>3, <2>4
<1>11. SemaToken'
  BY <1>8, <1>10, SameToken
<1> QED
  BY <1>2, <1>5, <1>6, <1>8, <1>9, <1>10, <1>11, SemaKeeps

\* The idle loop, and run_timer_list.
LEMMA SemaWakes ==
    ASSUME SemaInv, UNCHANGED inMonitor,
           Sema!Waits \/ \E i \in Proc : Sema!Wakes(i)
    PROVE  SemaInv'
<1>1. /\ UNCHANGED <<state, at, blocked, iter>>
      /\ Sema!IdleSchedules \/ \E p \in Proc : Sema!TimerFires(p)
  BY DEF Sema!Waits, Sema!Wakes
<1>2. SemaDown' = SemaDown
  BY <1>1 DEF SemaDown
<1>3. Low!SemInv /\ at \in [Proc -> SemaPlaces] /\ blocked \in [Proc -> BOOLEAN]
  BY DEF SemaInv, SemaPlace
<1>4. /\ Low!SemInv' /\ value' = value /\ RunOnly
      /\ \A p \in Proc : SemaDown[p] # NULL => wait_state'[p] = wait_state[p]
      /\ \A p \in Proc : wait_state'[p] = "WT_TIMER" => wait_state[p] = "WT_TIMER"
  BY <1>1, <1>2, <1>3, SemaCpu
<1>5. StatesOK'
  BY <1>1, SameStates DEF SemaInv, StatesOK, PhiTypeOK
<1>6. ASSUME NEW q \in Proc
      PROVE  /\ SemaAt(at'[q], blocked'[q], state'[q], wait_state'[q])
             /\ SignalAt(value'[Self[q]], at'[q], blocked'[q], state'[q], wait_state'[q])
             /\ InsideAt(at'[q], blocked'[q], wait_state'[q])
                  <=> InsideAt(at[q], blocked[q], wait_state[q])
  <2>1. /\ SemaAt(at[q], blocked[q], state[q], wait_state[q])
        /\ SignalAt(value[Self[q]], at[q], blocked[q], state[q], wait_state[q])
        /\ blocked[q] => wait_state'[q] = wait_state[q]
    BY <1>4, SemaThread, Semas
  <2> QED
    BY <1>1, <1>4, <2>1 DEF SemaAt, SignalAt, InsideAt
<1>7. SemaToken'
  BY <1>4, <1>6, SameToken
<1> QED
  BY <1>1, <1>3, <1>4, <1>5, <1>6, <1>7, SemaKeeps

\* down() for the critical section, and for one's own semaphore.
LEMMA SemaDowns ==
    ASSUME SemaInv, UNCHANGED inMonitor, current # NULL, NEW s, NEW from, NEW to,
           \/ s = mutex /\ \/ from = "take" /\ to = "test"
                           \/ from = "put" /\ to = "left"
           \/ s = Self[current] /\ from = "wait" /\ to = "eat",
           Sema!Down(s, from, to)
    PROVE  SemaInv'
<1> DEFINE c == current
<1>1. /\ at[c] = from /\ UNCHANGED <<state, iter>>
      /\ \/ ~ blocked[c] /\ Sema!Take(s) /\ at' = [at EXCEPT ![c] = to] /\ UNCHANGED blocked
         \/ ~ blocked[c] /\ Sema!Block(s) /\ UNCHANGED at /\ blocked' = [blocked EXCEPT ![c] = TRUE]
         \/ /\ blocked[c] /\ Sema!Unblock(s) /\ blocked' = [blocked EXCEPT ![c] = FALSE]
            /\ at' = [at EXCEPT ![c] = IF Sema!WokenByUp THEN to ELSE "panic"]
  BY DEF Sema!Down, Sema!On, Sema!GoTo
<1>2. /\ c \in Proc /\ Low!SemInv /\ wait_state[c] = "0"
      /\ at \in [Proc -> SemaPlaces] /\ blocked \in [Proc -> BOOLEAN]
      /\ value \in [Sem -> Nat] /\ iter' \in [Proc -> Nat]
  BY <1>1, SemaFacts DEF SemaInv, SemaPlace, StatesOK, PhiTypeOK
<1>3. /\ s \in Sem /\ to \in SemaPlaces /\ from \in {"take", "put", "wait"}
      /\ to \in {"test", "left", "eat"}
      /\ \A q \in Proc : Self[q] \in Sem /\ Self[q] # mutex /\ (q # c => Self[q] # Self[c])
  BY <1>2, Semas DEF SemaPlaces
<1> HIDE DEF c
<1>4. s = mutex \/ s = Self[c]
  BY DEF c
<1>5. /\ SemaAt(from, blocked[c], state[c], "0")
      /\ SignalAt(value[Self[c]], from, blocked[c], state[c], "0")
  BY <1>1, <1>2, SemaThread
<1>6. ASSUME StatesOK' \/ (\A q \in Proc : at[q] = "right" => at'[q] = "right"),
             Low!SemInv', RunOnly, SemaToken',
             at' \in [Proc -> SemaPlaces], blocked' \in [Proc -> BOOLEAN],
             \A q \in Proc : q # c => /\ at'[q] = at[q] /\ blocked'[q] = blocked[q]
                                      /\ wait_state'[q] = wait_state[q]
                                      /\ value'[Self[q]] = value[Self[q]],
             /\ SemaAt(at'[c], blocked'[c], state'[c], wait_state'[c])
             /\ SignalAt(value'[Self[c]], at'[c], blocked'[c], state'[c], wait_state'[c])
             /\ at'[c] # "quit"
      PROVE  SemaInv'
  <2>1. StatesOK'
    BY <1>1, <1>2, <1>6, SameStates DEF SemaInv
  <2>2. \A q \in Proc : /\ SemaAt(at'[q], blocked'[q], state'[q], wait_state'[q])
                        /\ SignalAt(value'[Self[q]], at'[q], blocked'[q], state'[q], wait_state'[q])
                        /\ at'[q] = "quit" => at[q] = "quit"
    BY <1>1, <1>6, SemaThread
  <2> QED
    BY <1>6, <2>1, <2>2, SemaKeeps
<1>7. CASE /\ ~ blocked[c] /\ Sema!Take(s) /\ at' = [at EXCEPT ![c] = to] /\ UNCHANGED blocked
  <2>1. /\ at' \in [Proc -> SemaPlaces] /\ at'[c] = to
        /\ \A q \in Proc : q # c => at'[q] = at[q]
    BY <1>2, <1>3, <1>7
  <2>2. SemaDown' = SemaDown
    BY <1>2, <1>7, <2>1 DEF SemaDown
  <2>3. /\ Low!SemInv' /\ current' = current /\ run_list' = run_list /\ wait_state' = wait_state
        /\ \A t \in Sem : t # s => value'[t] = value[t]
        /\ value[s] > 0 /\ value'[s] = value[s] - 1
    BY <1>2, <1>3, <1>7, <2>2, SemaTakes
  <2>4. RunOnly
    BY <2>3 DEF RunOnly
  <2>5. SemaToken'
    <3>1. CASE s = mutex
      <4>1. Inside = {} /\ value[mutex] = 1 /\ value'[mutex] = 0
        BY <2>3, <3>1 DEF SemaInv, SemaToken
      <4>2. InsideAt(at'[c], blocked'[c], wait_state'[c])
        <5>1. to \in {"test", "left"}
          BY <3>1, <1>2, <1>3 DEF c
        <5> QED
          BY <5>1, <2>1 DEF InsideAt
      <4>3. \A q \in Proc : q # c => ~ InsideAt(at'[q], blocked'[q], wait_state'[q])
        BY <4>1, <2>1, <2>3, <1>7 DEF Inside
      <4>4. Inside' = {c}
        BY <4>2, <4>3, <1>2 DEF Inside
      <4> QED
        BY <4>1, <4>4, <1>2 DEF SemaToken
    <3>2. CASE s # mutex
      <4>1. value'[mutex] = value[mutex]
        BY <2>3, <3>2, Semas
      <4>2. from = "wait" /\ to = "eat"
        BY <3>2
      <4>3. \A q \in Proc : InsideAt(at'[q], blocked'[q], wait_state'[q])
                              <=> InsideAt(at[q], blocked[q], wait_state[q])
        BY <1>1, <1>7, <2>1, <2>3, <4>2 DEF InsideAt
      <4> QED
        BY <4>1, <4>3, SameToken
    <3> QED
      BY <3>1, <3>2
  <2>6. /\ SemaAt(to, FALSE, state[c], "0")
        /\ SignalAt(value'[Self[c]], to, FALSE, state[c], "0")
    <3>1. CASE s = mutex
      <4>1. value'[Self[c]] = value[Self[c]]
        BY <1>2, <1>3, <2>3, <3>1
      <4>2. \/ from = "take" /\ to = "test"
            \/ from = "put" /\ to = "left"
        BY <3>1, <1>2, <1>3 DEF c
      <4> QED
        BY <4>1, <4>2, <1>5, <1>7 DEF SemaAt, SignalAt
    <3>2. CASE s # mutex
      <4>1. from = "wait" /\ to = "eat" /\ s = Self[c]
        BY <3>2, <1>4
      <4>2. value[Self[c]] = 1 /\ value'[Self[c]] = 0
        BY <2>3, <1>5, <4>1 DEF SignalAt
      <4> QED
        BY <4>1, <4>2, <1>5, <1>7 DEF SemaAt, SignalAt
    <3> QED
      BY <3>1, <3>2
  <2>7. /\ SemaAt(at'[c], blocked'[c], state'[c], wait_state'[c])
        /\ SignalAt(value'[Self[c]], at'[c], blocked'[c], state'[c], wait_state'[c])
        /\ at'[c] # "quit"
    <3>1. at'[c] = to /\ blocked'[c] = FALSE /\ state'[c] = state[c] /\ wait_state'[c] = "0"
      BY <1>1, <1>2, <1>7, <2>1, <2>3
    <3> QED
      BY <3>1, <2>6, <1>3
  <2>8. \A q \in Proc : q # c => /\ at'[q] = at[q] /\ blocked'[q] = blocked[q]
                                 /\ wait_state'[q] = wait_state[q]
                                 /\ value'[Self[q]] = value[Self[q]]
    BY <1>2, <1>3, <1>4, <1>7, <2>1, <2>3
  <2>9. \A q \in Proc : at[q] = "right" => at'[q] = "right"
    BY <1>1, <1>3, <2>1
  <2> QED
    BY <1>2, <1>6, <1>7, <2>1, <2>3, <2>4, <2>5, <2>7, <2>8, <2>9
<1>8. CASE ~ blocked[c] /\ Sema!Block(s) /\ UNCHANGED at /\ blocked' = [blocked EXCEPT ![c] = TRUE]
  <2>1. /\ blocked' \in [Proc -> BOOLEAN] /\ blocked'[c] = TRUE
        /\ \A q \in Proc : q # c => blocked'[q] = blocked[q]
    BY <1>2, <1>8
  <2>2. /\ SemaDown[c] = NULL
        /\ SemaDown' = [SemaDown EXCEPT ![c] = s]
    <3>1. s = IF from \in {"take", "put"} THEN mutex ELSE Self[c]
      BY DEF c
    <3> QED
      BY <1>1, <1>2, <1>8, <2>1, <3>1 DEF SemaDown
  <2>3. /\ Low!SemInv' /\ value' = value /\ value[s] = 0 /\ RunOnly
        /\ wait_state'[c] = "WT_KSEM"
        /\ \A q \in Proc : q # c => wait_state'[q] = wait_state[q]
    BY <1>2, <1>3, <1>8, <2>2, SemaBlocks DEF c
  <2>4. SemaToken'
    <3>1. \A q \in Proc : InsideAt(at'[q], blocked'[q], wait_state'[q])
                            <=> InsideAt(at[q], blocked[q], wait_state[q])
      BY <1>8, <2>1, <2>3 DEF InsideAt
    <3> QED
      BY <2>3, <3>1, SameToken
  <2>5. /\ SemaAt(at'[c], blocked'[c], state'[c], wait_state'[c])
        /\ SignalAt(value'[Self[c]], at'[c], blocked'[c], state'[c], wait_state'[c])
        /\ at'[c] # "quit"
    <3>1. /\ at'[c] = from /\ blocked'[c] = TRUE /\ state'[c] = state[c]
          /\ wait_state'[c] = "WT_KSEM" /\ value'[Self[c]] = value[Self[c]]
      BY <1>1, <1>8, <2>1, <2>3
    <3>2. from = "wait" => value[Self[c]] = 0
      BY <2>3 DEF c
    <3> QED
      BY <3>1, <3>2, <1>3, <1>5, <1>8 DEF SemaAt, SignalAt
  <2>6. \A q \in Proc : at[q] = "right" => at'[q] = "right"
    BY <1>8
  <2> QED
    BY <1>2, <1>6, <1>8, <2>1, <2>3, <2>4, <2>5, <2>6
<1>9. CASE /\ blocked[c] /\ Sema!Unblock(s) /\ blocked' = [blocked EXCEPT ![c] = FALSE]
           /\ at' = [at EXCEPT ![c] = IF Sema!WokenByUp THEN to ELSE "panic"]
  <2>1. SemaDown[c] = s
    <3>1. s = IF from \in {"take", "put"} THEN mutex ELSE Self[c]
      BY DEF c
    <3> QED
      BY <1>1, <1>2, <1>9, <3>1 DEF SemaDown
  <2>2. Sema!WokenByUp
    BY <1>2, <1>3, <2>1, Semas, SemaWoken DEF c
  <2>3. /\ at' \in [Proc -> SemaPlaces] /\ at'[c] = to
        /\ \A q \in Proc : q # c => at'[q] = at[q]
        /\ blocked' \in [Proc -> BOOLEAN] /\ blocked'[c] = FALSE
        /\ \A q \in Proc : q # c => blocked'[q] = blocked[q]
    BY <1>2, <1>3, <1>9, <2>2
  <2>4. SemaDown' = [SemaDown EXCEPT ![c] = NULL]
    BY <1>2, <2>3 DEF SemaDown
  <2>5. /\ Low!SemInv' /\ current' = current /\ run_list' = run_list
        /\ wait_state' = wait_state /\ value' = value
    <3>1. Sema!Unblock(SemaDown[c]) /\ SemaDown[c] # NULL
      BY <1>3, <1>9, <2>1, Semas
    <3> QED
      BY <1>2, <2>4, <3>1, SemaReturns DEF c
  <2>6. RunOnly
    BY <2>5 DEF RunOnly
  <2>7. SemaToken'
    <3>1. \A q \in Proc : q # c => (InsideAt(at'[q], blocked'[q], wait_state'[q])
                                      <=> InsideAt(at[q], blocked[q], wait_state[q]))
      BY <2>3, <2>5
    <3>2. InsideAt(to, FALSE, "0") <=> InsideAt(from, TRUE, "0")
      BY DEF InsideAt
    <3>3. /\ at'[c] = to /\ blocked'[c] = FALSE /\ wait_state'[c] = "0"
          /\ at[c] = from /\ blocked[c] = TRUE /\ wait_state[c] = "0"
      BY <1>1, <1>2, <1>9, <2>3, <2>5
    <3>4. \A q \in Proc : InsideAt(at'[q], blocked'[q], wait_state'[q])
                            <=> InsideAt(at[q], blocked[q], wait_state[q])
      BY <3>1, <3>2, <3>3
    <3> QED
      BY <2>5, <3>4, SameToken
  <2>8. /\ SemaAt(at'[c], blocked'[c], state'[c], wait_state'[c])
        /\ SignalAt(value'[Self[c]], at'[c], blocked'[c], state'[c], wait_state'[c])
        /\ at'[c] # "quit"
    <3>1. /\ at'[c] = to /\ blocked'[c] = FALSE /\ state'[c] = state[c]
          /\ wait_state'[c] = "0" /\ value'[Self[c]] = value[Self[c]] /\ blocked[c] = TRUE
      BY <1>1, <1>2, <1>9, <2>3, <2>5
    <3>2. SemaAt(from, TRUE, state[c], "0") /\ SignalAt(value[Self[c]], from, TRUE, state[c], "0")
      BY <3>1, <1>5
    <3>3. SemaAt(to, FALSE, state[c], "0") /\ SignalAt(value[Self[c]], to, FALSE, state[c], "0")
      BY <3>2 DEF SemaAt, SignalAt
    <3> QED
      BY <3>1, <3>3, <1>3
  <2>9. \A q \in Proc : at[q] = "right" => at'[q] = "right"
    BY <1>1, <1>3, <2>3
  <2> QED
    BY <1>2, <1>6, <2>3, <2>5, <2>6, <2>7, <2>8, <2>9
<1> QED
  BY <1>1, <1>7, <1>8, <1>9

\* up(&mutex), the end of both routines' critical sections.
LEMMA SemaLeaves ==
    ASSUME SemaInv, UNCHANGED inMonitor, current # NULL, NEW from, NEW to, at[current] = from,
           \/ from = "taken" /\ to = "wait"
           \/ from = "done" /\ to = "think",
           Sema!Up(mutex), at' = [at EXCEPT ![current] = to],
           UNCHANGED <<state, blocked>>, iter' \in [Proc -> Nat]
    PROVE  SemaInv'
<1> DEFINE c == current
<1>1. /\ c \in Proc /\ Low!SemInv /\ wait_state[c] = "0" /\ at[c] = from
      /\ at \in [Proc -> SemaPlaces] /\ blocked \in [Proc -> BOOLEAN]
  BY SemaFacts DEF SemaInv, SemaPlace
<1>2. ~ blocked[c] /\ from \in {"taken", "done"} /\ to \in {"wait", "think"}
  BY <1>1, SemaThread DEF SemaAt
<1>3. /\ at' \in [Proc -> SemaPlaces] /\ at'[c] = to /\ \A q \in Proc : q # c => at'[q] = at[q]
  BY <1>1, <1>2 DEF SemaPlaces
<1>4. SemaDown' = SemaDown
  BY <1>1, <1>2, <1>3 DEF SemaDown
<1> HIDE DEF c
<1>5. /\ Low!SemInv' /\ current' = current /\ RunOnly
      /\ \A t \in Sem : t # mutex => value'[t] = value[t]
      /\ \/ value'[mutex] = value[mutex] + 1 /\ wait_state' = wait_state
         \/ /\ value'[mutex] = value[mutex]
            /\ \E p \in Proc : /\ wait_state[p] = "WT_KSEM" /\ SemaDown[p] = mutex
                               /\ p # current /\ wait_state'[p] = "0"
                               /\ \A q \in Proc : q # p => wait_state'[q] = wait_state[q]
  BY <1>1, <1>4, Semas, SemaUps
<1>6. Inside = {c} /\ value[mutex] = 0
  <2>1. c \in Inside
    BY <1>1, <1>2 DEF Inside, InsideAt
  <2> QED
    BY <2>1 DEF SemaInv, SemaToken
<1>7. ~ InsideAt(at'[c], blocked'[c], wait_state'[c])
  BY <1>2, <1>3 DEF InsideAt
<1>8. ASSUME NEW q \in Proc, wait_state'[q] = wait_state[q]
      PROVE  /\ SemaAt(at'[q], blocked'[q], state'[q], wait_state'[q])
             /\ SignalAt(value'[Self[q]], at'[q], blocked'[q], state'[q], wait_state'[q])
             /\ ~ InsideAt(at'[q], blocked'[q], wait_state'[q])
  <2>1. /\ SemaAt(at[q], blocked[q], state[q], wait_state[q])
        /\ SignalAt(value[Self[q]], at[q], blocked[q], state[q], wait_state[q])
        /\ value'[Self[q]] = value[Self[q]] /\ blocked'[q] = blocked[q] /\ state'[q] = state[q]
    BY <1>5, Semas, SemaThread
  <2>2. CASE q = c
    <3>1. /\ SemaAt(from, FALSE, state[q], "0")
          /\ SignalAt(value[Self[q]], from, FALSE, state[q], "0")
      BY <1>1, <1>2, <2>1, <2>2, SemaThread
    <3>2. /\ SemaAt(to, FALSE, state[q], "0")
          /\ SignalAt(value[Self[q]], to, FALSE, state[q], "0")
      <4>1. CASE from = "taken" /\ to = "wait"
        BY <3>1, <4>1 DEF SemaAt, SignalAt
      <4>2. CASE from = "done" /\ to = "think"
        BY <3>1, <4>2 DEF SemaAt, SignalAt
      <4> QED
        BY <4>1, <4>2
    <3>3. at'[q] = to /\ blocked'[q] = FALSE /\ wait_state'[q] = "0"
      <4>1. blocked[q] \in BOOLEAN
        BY <1>1
      <4> QED
        BY <4>1, <1>1, <1>2, <1>3, <1>8, <2>1, <2>2
    <3> QED
      BY <2>1, <2>2, <3>2, <3>3, <1>7
  <2>3. CASE q # c
    <3>1. at'[q] = at[q] /\ ~ InsideAt(at[q], blocked[q], wait_state[q])
      BY <1>3, <1>6, <2>3 DEF Inside
    <3> QED
      BY <1>8, <2>1, <3>1
  <2> QED
    BY <2>2, <2>3
<1>9. \A q \in Proc : at'[q] # "quit" \/ at[q] = "quit"
  BY <1>2, <1>3
<1>10. StatesOK'
  <2>1. \A q \in Proc : at[q] = "right" => at'[q] = "right"
    BY <1>1, <1>2, <1>3
  <2> QED
    BY <2>1, SameStates DEF SemaInv
<1>11. CASE value'[mutex] = value[mutex] + 1 /\ wait_state' = wait_state
  <2>1. \A q \in Proc : /\ SemaAt(at'[q], blocked'[q], state'[q], wait_state'[q])
                        /\ SignalAt(value'[Self[q]], at'[q], blocked'[q], state'[q], wait_state'[q])
                        /\ ~ InsideAt(at'[q], blocked'[q], wait_state'[q])
    BY <1>8, <1>11
  <2>2. SemaToken'
    BY <1>6, <1>11, <2>1 DEF SemaToken, Inside
  <2> QED
    BY <1>1, <1>3, <1>5, <1>9, <1>10, <2>1, <2>2, SemaKeeps
<1>12. ASSUME value'[mutex] = value[mutex],
              NEW p \in Proc, wait_state[p] = "WT_KSEM", SemaDown[p] = mutex,
              wait_state'[p] = "0", \A q \in Proc : q # p => wait_state'[q] = wait_state[q]
       PROVE  SemaInv'
  <2>1. blocked[p] = TRUE /\ at[p] \in {"take", "put"} /\ p # c
    <3>1. blocked[p] = TRUE /\ p # c
      BY <1>1, <1>2, <1>12, SemaThread
    <3>2. at[p] # "wait"
      BY <3>1, <1>12, SemaThread, Semas
    <3> QED
      BY <3>1, <3>2, SemaThread DEF SemaAt
  <2>2. /\ at'[p] = at[p] /\ blocked'[p] = TRUE /\ state'[p] = state[p]
        /\ value'[Self[p]] = value[Self[p]]
    BY <1>3, <1>5, <2>1, Semas
  <2>3. /\ SemaAt(at'[p], blocked'[p], state'[p], wait_state'[p])
        /\ SignalAt(value'[Self[p]], at'[p], blocked'[p], state'[p], wait_state'[p])
        /\ InsideAt(at'[p], blocked'[p], wait_state'[p])
    <3>1. /\ SemaAt(at[p], TRUE, state[p], wait_state[p])
          /\ SignalAt(value[Self[p]], at[p], TRUE, state[p], wait_state[p])
      BY <2>1, SemaThread
    <3>2. /\ SemaAt(at[p], TRUE, state[p], "0")
          /\ SignalAt(value[Self[p]], at[p], TRUE, state[p], "0")
          /\ InsideAt(at[p], TRUE, "0")
      BY <2>1, <3>1 DEF SemaAt, SignalAt, InsideAt
    <3> QED
      BY <3>2, <2>2, <1>12
  <2>4. \A q \in Proc : q # p => ~ InsideAt(at'[q], blocked'[q], wait_state'[q])
    BY <1>8, <1>12
  <2>5. \A q \in Proc : /\ SemaAt(at'[q], blocked'[q], state'[q], wait_state'[q])
                        /\ SignalAt(value'[Self[q]], at'[q], blocked'[q], state'[q], wait_state'[q])
    BY <1>8, <1>12, <2>3
  <2>6. SemaToken'
    <3>1. Inside' = {p}
      BY <2>3, <2>4 DEF Inside
    <3> QED
      BY <3>1, <1>6, <1>12 DEF SemaToken
  <2> QED
    BY <1>1, <1>3, <1>5, <1>9, <1>10, <2>5, <2>6, SemaKeeps
<1> QED
  BY <1>5, <1>11, <1>12

\* up() of the semaphore of a philosopher that has no unit and was handed none.
LEMMA SemaGrants ==
    ASSUME SemaInv, NEW j \in Proc, Sema!Up(Self[j]), SemaDown' = SemaDown,
           ~ (state[j] = "EATING" /\ at[j] \in {"taken", "wait"})
    PROVE  /\ Low!SemInv' /\ RunOnly
           /\ \A q \in Proc : q # j => value'[Self[q]] = value[Self[q]] /\ wait_state'[q] = wait_state[q]
           /\ value'[mutex] = value[mutex]
           /\ \/ /\ value'[Self[j]] = 1 /\ ~ (at[j] = "wait" /\ blocked[j])
                 /\ wait_state'[j] = wait_state[j]
              \/ /\ value'[Self[j]] = 0 /\ at[j] = "wait" /\ blocked[j] = TRUE
                 /\ wait_state'[j] = "0"
<1>1. /\ Low!SemInv' /\ RunOnly
      /\ \A t \in Sem : t # Self[j] => value'[t] = value[t]
      /\ \/ /\ \A p \in Proc : ~ (wait_state[p] = "WT_KSEM" /\ SemaDown[p] = Self[j])
            /\ value'[Self[j]] = value[Self[j]] + 1 /\ wait_state' = wait_state
         \/ /\ value'[Self[j]] = value[Self[j]]
            /\ \E p \in Proc : /\ wait_state[p] = "WT_KSEM" /\ SemaDown[p] = Self[j]
                               /\ p # current /\ wait_state'[p] = "0"
                               /\ \A q \in Proc : q # p => wait_state'[q] = wait_state[q]
  BY Semas, SemaUps DEF SemaInv
<1>2. /\ \A q \in Proc : q # j => value'[Self[q]] = value[Self[q]]
      /\ value'[mutex] = value[mutex]
  BY <1>1, Semas
<1>3. value[Self[j]] = 0 /\ ~ (at[j] = "wait" /\ blocked[j] /\ wait_state[j] = "0")
  BY SemaThread DEF SignalAt
<1>4. ASSUME \A p \in Proc : ~ (wait_state[p] = "WT_KSEM" /\ SemaDown[p] = Self[j])
      PROVE  ~ (at[j] = "wait" /\ blocked[j])
  BY <1>3, <1>4, SemaThread
<1>5. ASSUME NEW p \in Proc, wait_state[p] = "WT_KSEM", SemaDown[p] = Self[j]
      PROVE  p = j /\ at[j] = "wait" /\ blocked[j] = TRUE
  <2>1. blocked[p] = TRUE /\ SemaDown[p] # mutex /\ (at[p] = "wait" => SemaDown[p] = Self[p])
    BY <1>5, SemaThread, Semas
  <2>2. at[p] = "wait"
    BY <2>1, SemaThread
  <2> QED
    BY <1>5, <2>1, <2>2, Semas
<1>6. CASE /\ \A p \in Proc : ~ (wait_state[p] = "WT_KSEM" /\ SemaDown[p] = Self[j])
           /\ value'[Self[j]] = value[Self[j]] + 1 /\ wait_state' = wait_state
  BY <1>1, <1>2, <1>3, <1>4, <1>6
<1>7. ASSUME value'[Self[j]] = value[Self[j]],
             NEW p \in Proc, wait_state[p] = "WT_KSEM", SemaDown[p] = Self[j],
             wait_state'[p] = "0", \A q \in Proc : q # p => wait_state'[q] = wait_state[q]
      PROVE  /\ value'[Self[j]] = 0 /\ at[j] = "wait" /\ blocked[j] = TRUE
             /\ wait_state'[j] = "0" /\ \A q \in Proc : q # j => wait_state'[q] = wait_state[q]
  BY <1>3, <1>5, <1>7
<1> QED
  BY <1>1, <1>2, <1>6, <1>7

\* phi_test_sema of j by who has the CPU.
LEMMA SemaTests ==
    ASSUME SemaInv, UNCHANGED inMonitor, current # NULL, at[current] \in {"test", "left", "right"},
           at' \in [Proc -> SemaPlaces], at'[current] \in {"taken", "right", "done"},
           \A q \in Proc : q # current => at'[q] = at[q], UNCHANGED <<blocked, iter>>, StatesOK',
           NEW j \in Proc, \A i \in Proc : i # current /\ i # j => state'[i] = state[i],
           \/ /\ Sema!Up(Self[j]) /\ state'[j] = "EATING" /\ (j # current => state[j] = "HUNGRY")
           \/ /\ UNCHANGED <<Sema!cpuVars, Sema!semVars>>
              /\ state'[j] = IF j = current THEN "HUNGRY" ELSE state[j],
           \/ j = current /\ at[current] = "test" /\ at'[current] = "taken"
           \/ j # current /\ at'[current] # "taken" /\ state'[current] = "THINKING"
    PROVE  SemaInv'
<1> DEFINE c == current
           from == at[current]
           to == at'[current]
<1>1. /\ c \in Proc /\ Low!SemInv /\ wait_state[c] = "0" /\ at[c] = from
      /\ at \in [Proc -> SemaPlaces] /\ blocked \in [Proc -> BOOLEAN]
  BY SemaFacts DEF SemaInv, SemaPlace
<1>2. /\ ~ blocked[c] /\ SemaAt(from, FALSE, state[c], "0")
      /\ value[Self[c]] = 0
  <2>1. /\ ~ blocked[c]
    BY <1>1, SemaThread DEF SemaAt
  <2>2. blocked[c] = FALSE
    BY <1>1, <2>1
  <2> QED
    BY <1>1, <2>2, SemaThread DEF SignalAt
<1>3. /\ at' \in [Proc -> SemaPlaces] /\ at'[c] = to /\ \A q \in Proc : q # c => at'[q] = at[q]
  OBVIOUS
<1>4. SemaDown' = SemaDown
  BY <1>1, <1>2, <1>3 DEF SemaDown
<1>5. blocked' = blocked /\ blocked'[c] = FALSE
  BY <1>1, <1>2
<1> HIDE DEF c, from, to
<1>6. ASSUME Low!SemInv', RunOnly, value'[mutex] = value[mutex],
             \A q \in Proc : at[q] # "wait" => wait_state'[q] = wait_state[q],
             \A q \in Proc : q # j /\ q # c => /\ wait_state'[q] = wait_state[q]
                                     /\ value'[Self[q]] = value[Self[q]],
             /\ SemaAt(at'[c], blocked'[c], state'[c], wait_state'[c])
             /\ SignalAt(value'[Self[c]], at'[c], blocked'[c], state'[c], wait_state'[c])
             /\ SemaAt(at'[j], blocked'[j], state'[j], wait_state'[j])
             /\ SignalAt(value'[Self[j]], at'[j], blocked'[j], state'[j], wait_state'[j])
      PROVE  SemaInv'
  <2>1. ASSUME NEW q \in Proc
        PROVE  /\ SemaAt(at'[q], blocked'[q], state'[q], wait_state'[q])
               /\ SignalAt(value'[Self[q]], at'[q], blocked'[q], state'[q], wait_state'[q])
    <3>1. CASE q # c /\ q # j
      <4>1. /\ at'[q] = at[q] /\ blocked'[q] = blocked[q] /\ state'[q] = state[q]
            /\ wait_state'[q] = wait_state[q] /\ value'[Self[q]] = value[Self[q]]
        BY <1>3, <1>5, <1>6, <3>1 DEF c, from, to
      <4> QED
        BY <4>1, SemaThread
    <3> QED
      BY <1>6, <3>1
  <2>2. ASSUME NEW q \in Proc
        PROVE  InsideAt(at'[q], blocked'[q], wait_state'[q])
                 <=> InsideAt(at[q], blocked[q], wait_state[q])
    <3>1. CASE q = c
      BY <3>1, <1>1, <1>3 DEF InsideAt, c, from, to
    <3>2. CASE q # c
      <4>1. at'[q] = at[q] /\ blocked'[q] = blocked[q]
            /\ (at[q] # "wait" => wait_state'[q] = wait_state[q])
        BY <1>3, <1>5, <1>6, <3>2
      <4> QED
        BY <4>1 DEF InsideAt
    <3> QED
      BY <3>1, <3>2
  <2>3. SemaToken'
    BY <1>6, <2>2, SameToken
  <2>4. \A q \in Proc : at'[q] = "quit" => at[q] = "quit"
    BY <1>1, <1>3
  <2> QED
    BY <1>1, <1>3, <1>5, <1>6, <2>1, <2>3, <2>4, SemaKeeps
<1>7. CASE /\ UNCHANGED <<Sema!cpuVars, Sema!semVars>>
           /\ state'[j] = IF j = current THEN "HUNGRY" ELSE state[j]
  <2>1. UNCHANGED <<current, run_list, wait_state, value>> /\ UNCHANGED <<Sema!cpuVars, Sema!semVars>>
    BY <1>7 DEF Sema!cpuVars, Sema!semVars
  <2>2. Low!SemInv' /\ RunOnly
    <3>1. UNCHANGED <<current, run_list, wait_state, value, wait_queue, wakeup_flags>>
          /\ Low!DownOf' = Low!DownOf
      BY <2>1, <1>4, LowIs DEF Sema!cpuVars, Sema!semVars
    <3>2. Low!SemInv'
      BY <1>1, <3>1 DEF Low!SemInv, Low!SemTypeOK, Low!CpuExact, Low!QueuesExact
    <3> QED
      BY <3>1, <3>2 DEF RunOnly
  <2>3. /\ at'[c] = to /\ blocked'[c] = FALSE /\ wait_state'[c] = "0" /\ value'[Self[c]] = 0
    BY <1>1, <1>2, <1>3, <1>5, <2>1
  <2>4. /\ SemaAt(at'[c], blocked'[c], state'[c], wait_state'[c])
        /\ SignalAt(value'[Self[c]], at'[c], blocked'[c], state'[c], wait_state'[c])
    <3>1. CASE j = c
      <4>1. to = "taken" /\ state'[c] = "HUNGRY"
        BY <1>7, <3>1 DEF c, from, to
      <4> QED
        BY <2>3, <4>1 DEF SemaAt, SignalAt
    <3>2. CASE j # c
      <4>1. to \in {"right", "done"} /\ state'[c] = "THINKING"
        BY <1>7, <3>2 DEF c, from, to
      <4> QED
        BY <2>3, <4>1 DEF SemaAt, SignalAt
    <3> QED
      BY <3>1, <3>2
  <2>5. /\ SemaAt(at'[j], blocked'[j], state'[j], wait_state'[j])
        /\ SignalAt(value'[Self[j]], at'[j], blocked'[j], state'[j], wait_state'[j])
    <3>1. CASE j = c
      BY <3>1, <2>4
    <3>2. CASE j # c
      <4>1. /\ at'[j] = at[j] /\ blocked'[j] = blocked[j] /\ state'[j] = state[j]
            /\ wait_state'[j] = wait_state[j] /\ value'[Self[j]] = value[Self[j]]
        BY <1>3, <1>5, <1>7, <2>1, <3>2 DEF c, from, to
      <4> QED
        BY <4>1, SemaThread
    <3> QED
      BY <3>1, <3>2
  <2> QED
    BY <1>6, <2>1, <2>2, <2>4, <2>5
<1>8. CASE Sema!Up(Self[j]) /\ state'[j] = "EATING" /\ (j # current => state[j] = "HUNGRY")
  <2>1. ~ (state[j] = "EATING" /\ at[j] \in {"taken", "wait"})
    <3>1. j = c => at[j] = "test"
      BY <1>1 DEF c, from, to
    <3> QED
      BY <1>8, <3>1 DEF c, from, to
  <2>2. /\ Low!SemInv' /\ RunOnly
        /\ \A q \in Proc : q # j => value'[Self[q]] = value[Self[q]] /\ wait_state'[q] = wait_state[q]
        /\ value'[mutex] = value[mutex]
        /\ \/ /\ value'[Self[j]] = 1 /\ ~ (at[j] = "wait" /\ blocked[j])
              /\ wait_state'[j] = wait_state[j]
           \/ /\ value'[Self[j]] = 0 /\ at[j] = "wait" /\ blocked[j] = TRUE
              /\ wait_state'[j] = "0"
    BY <1>4, <1>8, <2>1, SemaGrants
  <2>3. CASE j = c
    <3>1. to = "taken" /\ state'[c] = "EATING"
      BY <1>8, <2>3 DEF c, from, to
    <3>2. value'[Self[c]] = 1 /\ wait_state'[c] = "0"
      BY <1>1, <1>2, <2>2, <2>3, <3>1
    <3>3. /\ SemaAt(at'[c], blocked'[c], state'[c], wait_state'[c])
          /\ SignalAt(value'[Self[c]], at'[c], blocked'[c], state'[c], wait_state'[c])
      BY <1>3, <1>5, <3>1, <3>2 DEF SemaAt, SignalAt
    <3>4. \A q \in Proc : wait_state'[q] = wait_state[q]
      BY <1>1, <2>2, <2>3, <3>2
    <3> QED
      BY <1>6, <2>2, <2>3, <3>3, <3>4
  <2>4. CASE j # c
    <3>1. /\ state'[c] = "THINKING" /\ to \in {"right", "done"}
          /\ state[j] = "HUNGRY" /\ state'[j] = "EATING"
      BY <1>8, <2>4 DEF c, from, to
    <3>2. value'[Self[c]] = 0 /\ wait_state'[c] = "0"
      BY <1>1, <1>2, <2>2, <2>4
    <3>3. /\ SemaAt(at'[c], blocked'[c], state'[c], wait_state'[c])
          /\ SignalAt(value'[Self[c]], at'[c], blocked'[c], state'[c], wait_state'[c])
      BY <1>3, <1>5, <3>1, <3>2 DEF SemaAt, SignalAt
    <3>4. /\ SemaAt(at'[j], blocked'[j], state'[j], wait_state'[j])
          /\ SignalAt(value'[Self[j]], at'[j], blocked'[j], state'[j], wait_state'[j])
      <4>1. /\ at'[j] = at[j] /\ blocked'[j] = blocked[j] /\ blocked[j] \in BOOLEAN
        BY <1>1, <1>3, <1>5, <2>4
      <4>2. SemaAt(at[j], blocked[j], "HUNGRY", wait_state[j])
        BY <3>1, SemaThread
      <4>3. at[j] \in {"taken", "wait"}
        BY <4>2, SemaThread DEF SemaAt, SemaPlaces
      <4> QED
        BY <2>2, <3>1, <4>1, <4>2, <4>3 DEF SemaAt, SignalAt
    <3>5. \A q \in Proc : at[q] # "wait" => wait_state'[q] = wait_state[q]
      BY <2>2
    <3> QED
      BY <1>6, <2>2, <3>3, <3>4, <3>5
  <2> QED
    BY <2>3, <2>4
<1> QED
  BY <1>7, <1>8

\* The same tables as in the second part.
LEMMA SameTests ==
    \A i : /\ Sema!Left(i) = Left(i) /\ Sema!Right(i) = Right(i)
           /\ \A st : Sema!MayEat(st, i) <=> MayEat(st, i)
BY Zenon DEF Sema!Left, Left, Sema!Right, Right, Sema!MayEat, MayEat

\* The three tests of the first part.
LEMMA SemaTestSteps ==
    ASSUME SemaInv, UNCHANGED inMonitor, current # NULL,
           \/ Sema!Test("test", [state EXCEPT ![current] = "HUNGRY"], current, "taken")
           \/ Sema!Test("left", [state EXCEPT ![current] = "THINKING"], Sema!Left(current), "right")
           \/ Sema!Test("right", state, Sema!Right(current), "done")
    PROVE  SemaInv'
<1> DEFINE c == current
<1>1. /\ c \in Proc /\ StatesOK /\ at \in [Proc -> SemaPlaces]
      /\ SemaAt(at[c], blocked[c], state[c], wait_state[c])
      /\ Left(c) \in Proc /\ Right(c) \in Proc /\ Left(c) # c /\ Right(c) # c
  BY SemaFacts, SemaThread, Neighbours DEF SemaInv, SemaPlace
<1>2. state \in [Proc -> {"THINKING", "HUNGRY", "EATING"}]
  BY <1>1 DEF StatesOK, PhiTypeOK
<1>3. ASSUME NEW st, NEW j, NEW from, NEW to, Sema!Test(from, st, j, to)
      PROVE  /\ at[c] = from /\ at' = [at EXCEPT ![c] = to] /\ UNCHANGED <<blocked, iter>>
             /\ Tests(st, j)
             /\ IF MayEat(st, j) THEN Sema!Up(Self[j]) ELSE UNCHANGED <<Sema!cpuVars, Sema!semVars>>
             /\ MayEat(st, j) \in BOOLEAN
  BY <1>3, SameTests DEF Sema!Test, Sema!On, Sema!GoTo, Sema!PhiTest, Tests, MayEat
<1>4. CASE Sema!Test("test", [state EXCEPT ![current] = "HUNGRY"], current, "taken")
  <2> DEFINE st == [state EXCEPT ![c] = "HUNGRY"]
  <2>1. /\ at[c] = "test" /\ at' = [at EXCEPT ![c] = "taken"] /\ UNCHANGED <<blocked, iter>>
        /\ Tests(st, c)
        /\ IF MayEat(st, c) THEN Sema!Up(Self[c]) ELSE UNCHANGED <<Sema!cpuVars, Sema!semVars>>
        /\ MayEat(st, c) \in BOOLEAN
    BY <1>3, <1>4
  <2>2. state[c] = "THINKING"
    BY <1>1, <2>1 DEF SemaAt
  <2>3. \A q \in Proc : at[q] = "right" => at'[q] = "right"
    BY <1>1, <2>1
  <2>4. /\ StatesOK' /\ state'[c] \in {"HUNGRY", "EATING"}
        /\ state'[c] = "EATING" <=> MayEat(st, c)
        /\ \A i \in Proc : i # c => state'[i] = state[i]
    BY <1>1, <2>1, <2>2, <2>3, TakeStates
  <2>5. \/ Sema!Up(Self[c]) /\ state'[c] = "EATING"
        \/ UNCHANGED <<Sema!cpuVars, Sema!semVars>> /\ state'[c] = "HUNGRY"
    BY <2>1, <2>4
  <2> HIDE DEF st
  <2> QED
    <3>1. /\ current # NULL /\ at[current] = "test" /\ at'[current] = "taken"
          /\ at' \in [Proc -> SemaPlaces] /\ \A q \in Proc : q # current => at'[q] = at[q]
          /\ UNCHANGED <<blocked, iter>> /\ StatesOK' /\ current \in Proc
          /\ \A i \in Proc : i # current => state'[i] = state[i]
          /\ \/ Sema!Up(Self[current]) /\ state'[current] = "EATING"
             \/ UNCHANGED <<Sema!cpuVars, Sema!semVars>> /\ state'[current] = "HUNGRY"
      BY <1>1, <2>1, <2>4, <2>5 DEF c, SemaPlaces
    <3> QED
      BY <3>1, SemaTests
<1>5. CASE Sema!Test("left", [state EXCEPT ![current] = "THINKING"], Sema!Left(current), "right")
  <2> DEFINE st == [state EXCEPT ![c] = "THINKING"]
             j == Left(c)
  <2>1. /\ at[c] = "left" /\ at' = [at EXCEPT ![c] = "right"] /\ UNCHANGED <<blocked, iter>>
        /\ Tests(st, j)
        /\ IF MayEat(st, j) THEN Sema!Up(Self[j]) ELSE UNCHANGED <<Sema!cpuVars, Sema!semVars>>
        /\ MayEat(st, j) \in BOOLEAN
    BY <1>3, <1>5, SameTests
  <2>2. state[c] = "EATING"
    BY <1>1, <2>1 DEF SemaAt
  <2>3. at'[c] = "right" /\ \A q \in Proc : at[q] = "right" => at'[q] = "right"
    BY <1>1, <2>1
  <2>4. /\ StatesOK' /\ state'[c] = "THINKING"
        /\ \A i \in Proc : i # c /\ i # j => state'[i] = state[i]
        /\ MayEat(st, j) => state[j] = "HUNGRY" /\ state'[j] = "EATING"
        /\ ~ MayEat(st, j) => state'[j] = state[j]
    BY <1>1, <2>1, <2>2, <2>3, PutStates
  <2>5. \/ Sema!Up(Self[j]) /\ state[j] = "HUNGRY" /\ state'[j] = "EATING"
        \/ UNCHANGED <<Sema!cpuVars, Sema!semVars>> /\ state'[j] = state[j]
    BY <2>1, <2>4
  <2>6. j \in Proc /\ j # c
    BY <1>1
  <2> HIDE DEF st, j
  <2> QED
    <3>1. /\ current # NULL /\ at[current] = "left" /\ at'[current] = "right"
          /\ at' \in [Proc -> SemaPlaces] /\ \A q \in Proc : q # current => at'[q] = at[q]
          /\ UNCHANGED <<blocked, iter>> /\ StatesOK' /\ j \in Proc
          /\ \A i \in Proc : i # current /\ i # j => state'[i] = state[i]
          /\ j # current /\ state'[current] = "THINKING"
      BY <1>1, <2>1, <2>4, <2>6 DEF c, SemaPlaces
    <3> QED
      BY <3>1, <2>5, SemaTests
<1>6. CASE Sema!Test("right", state, Sema!Right(current), "done")
  <2> DEFINE j == Right(c)
  <2>1. /\ at[c] = "right" /\ at' = [at EXCEPT ![c] = "done"] /\ UNCHANGED <<blocked, iter>>
        /\ Tests(state, j)
        /\ IF MayEat(state, j) THEN Sema!Up(Self[j]) ELSE UNCHANGED <<Sema!cpuVars, Sema!semVars>>
        /\ MayEat(state, j) \in BOOLEAN
    BY <1>3, <1>6, SameTests
  <2>2. \A q \in Proc : q # c /\ at[q] = "right" => at'[q] = "right"
    BY <1>1, <2>1
  <2>3. /\ StatesOK' /\ \A i \in Proc : i # j => state'[i] = state[i]
        /\ MayEat(state, j) => state[j] = "HUNGRY" /\ state'[j] = "EATING"
        /\ ~ MayEat(state, j) => state'[j] = state[j]
    BY <1>1, <2>1, <2>2, RightStates
  <2>4. \/ Sema!Up(Self[j]) /\ state[j] = "HUNGRY" /\ state'[j] = "EATING"
        \/ UNCHANGED <<Sema!cpuVars, Sema!semVars>> /\ state'[j] = state[j]
    BY <2>1, <2>3
  <2>5. j \in Proc /\ j # c /\ state'[c] = "THINKING"
    <3>1. state[c] = "THINKING"
      BY <1>1, <2>1 DEF SemaAt
    <3> QED
      BY <1>1, <2>3, <3>1
  <2> HIDE DEF j
  <2> QED
    <3>1. /\ current # NULL /\ at[current] = "right" /\ at'[current] = "done"
          /\ at' \in [Proc -> SemaPlaces] /\ \A q \in Proc : q # current => at'[q] = at[q]
          /\ UNCHANGED <<blocked, iter>> /\ StatesOK' /\ j \in Proc
          /\ \A i \in Proc : i # current /\ i # j => state'[i] = state[i]
          /\ j # current /\ state'[current] = "THINKING"
      BY <1>1, <2>1, <2>3, <2>5 DEF c, SemaPlaces
    <3> QED
      BY <3>1, <2>4, SemaTests
<1> QED
  BY <1>4, <1>5, <1>6

\* do_exit, after the last meal
LEMMA SemaQuits ==
    ASSUME SemaInv, UNCHANGED inMonitor, Sema!Quit
    PROVE  SemaInv'
<1> DEFINE c == current
<1>1. /\ c # NULL /\ at[c] = "think" /\ at' = [at EXCEPT ![c] = "quit"]
      /\ Sema!Switch(run_list) /\ UNCHANGED <<wait_state, Sema!semVars, state, blocked, iter>>
  BY DEF Sema!Quit, Sema!On, Sema!GoTo
<1>2. /\ c \in Proc /\ Low!SemInv /\ run_list \in Seq(Proc) /\ c \notin Elems(run_list)
      /\ at \in [Proc -> SemaPlaces] /\ blocked \in [Proc -> BOOLEAN]
  BY <1>1, SemaFacts DEF SemaInv, SemaPlace
<1>3. ~ blocked[c] /\ SemaAt(at[c], blocked[c], state[c], wait_state[c])
      /\ SignalAt(value[Self[c]], at[c], blocked[c], state[c], wait_state[c])
  BY <1>1, <1>2, SemaThread DEF SemaAt
<1>4. /\ at' \in [Proc -> SemaPlaces] /\ at'[c] = "quit"
      /\ \A q \in Proc : q # c => at'[q] = at[q]
  BY <1>1, <1>2 DEF SemaPlaces
<1>5. SemaDown' = SemaDown
  BY <1>1, <1>2, <1>3, <1>4 DEF SemaDown
<1>6. /\ Low!SemInv' /\ value' = value /\ wait_state' = wait_state
  BY <1>1, <1>2, <1>5, SemaCpu
<1>7. \A q \in Proc : q = current' \/ q \in Elems(run_list') => q \in Elems(run_list)
  BY <1>1, <1>2, LowSteps, SwitchRuns
<1> HIDE DEF c
<1>8. ASSUME NEW q \in Proc
      PROVE  /\ SemaAt(at'[q], blocked'[q], state'[q], wait_state'[q])
             /\ SignalAt(value'[Self[q]], at'[q], blocked'[q], state'[q], wait_state'[q])
             /\ InsideAt(at'[q], blocked'[q], wait_state'[q])
                  <=> InsideAt(at[q], blocked[q], wait_state[q])
  <2>1. CASE q = c
    BY <2>1, <1>1, <1>3, <1>4, <1>6 DEF SemaAt, SignalAt, InsideAt
  <2>2. CASE q # c
    BY <2>2, <1>1, <1>4, <1>6, SemaThread
  <2> QED
    BY <2>1, <2>2
<1>9. SemaToken'
  BY <1>6, <1>8, SameToken
<1>10. StatesOK'
  <2>1. \A q \in Proc : at[q] = "right" => at'[q] = "right"
    BY <1>1, <1>4
  <2> QED
    BY <1>1, <2>1, SameStates DEF SemaInv, StatesOK, PhiTypeOK
<1>11. ASSUME NEW q \in Proc, at'[q] = "quit" PROVE q # current' /\ q \notin Elems(run_list')
  <2>1. q \notin Elems(run_list)
    BY <1>2, <1>4, <1>11, SemaThread
  <2> QED
    BY <1>7, <2>1
<1>12. SemaPlace'
  BY <1>1, <1>2, <1>4, <1>8, <1>11 DEF SemaPlace
<1>13. Untouched'
  BY DEF SemaInv, Untouched, inMonitor
<1> QED
  BY <1>6, <1>9, <1>10, <1>12, <1>13 DEF SemaInv

\* The invariant of the first part is inductive.
LEMMA SemaStepKeeps ==
    ASSUME SemaInv, UNCHANGED inMonitor,
           \/ Sema!Philosopher \/ Sema!Waits
           \/ \E i \in Proc : Sema!Wakes(i)
    PROVE  SemaInv'
<1>1. CASE Sema!Sleep("think", "take") \/ Sema!Sleep("eat", "put")
  BY <1>1, SemaSleeps
<1>2. CASE Sema!Waits \/ \E i \in Proc : Sema!Wakes(i)
  BY <1>2, SemaWakes
<1>3. CASE Sema!Quit
  BY <1>3, SemaQuits
<1>4. iter \in [Proc -> Nat] /\ (current # NULL => current \in Proc)
  BY SemaFacts DEF SemaInv, StatesOK, PhiTypeOK
<1>5. CASE Sema!TakeForks
  <2>1. CASE Sema!Down(mutex, "take", "test")
    BY <2>1, SemaDowns DEF Sema!Down, Sema!On
  <2>2. CASE Sema!Test("test", [state EXCEPT ![current] = "HUNGRY"], current, "taken")
    BY <2>2, SemaTestSteps DEF Sema!Test, Sema!On
  <2>3. CASE Sema!On("taken") /\ Sema!Up(mutex) /\ Sema!GoTo("wait") /\ UNCHANGED <<state, blocked, iter>>
    <3>1. /\ current # NULL /\ at[current] = "taken" /\ Sema!Up(mutex)
          /\ at' = [at EXCEPT ![current] = "wait"] /\ UNCHANGED <<state, blocked>>
          /\ iter' \in [Proc -> Nat]
      BY <1>4, <2>3 DEF Sema!On, Sema!GoTo
    <3> QED
      BY <3>1, SemaLeaves
  <2>4. CASE current # NULL /\ Sema!Down(Self[current], "wait", "eat")
    BY <2>4, SemaDowns
  <2> QED
    BY <1>5, <2>1, <2>2, <2>3, <2>4 DEF Sema!TakeForks
<1>6. CASE Sema!PutForks
  <2>1. CASE Sema!Down(mutex, "put", "left")
    BY <2>1, SemaDowns DEF Sema!Down, Sema!On
  <2>2. CASE \/ Sema!Test("left", [state EXCEPT ![current] = "THINKING"], Sema!Left(current), "right")
             \/ Sema!Test("right", state, Sema!Right(current), "done")
    BY <2>2, SemaTestSteps DEF Sema!Test, Sema!On
  <2>3. CASE /\ Sema!On("done") /\ Sema!Up(mutex) /\ Sema!GoTo("think")
             /\ iter' = [iter EXCEPT ![current] = @ + 1]
             /\ UNCHANGED <<state, blocked>>
    <3>1. /\ current # NULL /\ at[current] = "done" /\ Sema!Up(mutex)
          /\ at' = [at EXCEPT ![current] = "think"] /\ UNCHANGED <<state, blocked>>
          /\ iter' \in [Proc -> Nat]
      BY <1>4, <2>3 DEF Sema!On, Sema!GoTo
    <3> QED
      BY <3>1, SemaLeaves
  <2> QED
    BY <1>6, <2>1, <2>2, <2>3 DEF Sema!PutForks
<1> QED
  BY <1>1, <1>2, <1>3, <1>5, <1>6 DEF Sema!Philosopher

-----------------------------------------------------------------------------
(***************************************************************************)
(* The second part.  What the monitor does is proved in MonitorProofs.     *)
(***************************************************************************)
\* What the invariant says of one thread.
LEMMA CondThread ==
    ASSUME CondInv, NEW p \in Proc
    PROVE  /\ at[p] \in CondPlaces /\ mpc[p] \in Places
           /\ state[p] \in {"THINKING", "HUNGRY", "EATING"}
           /\ CondAt(at[p], mpc[p], state[p], wait_state[p]) /\ cv[p] \in {NULL, Self[p]}
           /\ mpc[p] \in {"released", "waiting"} => cv[p] = Self[p]
           /\ mpc[p] \notin {"released", "waiting"} => cv[p] = NULL
           /\ mpc[p] = "waiting" => DownOf[p] = Self[p]
           /\ \A q \in Proc : DownOf[p] = Self[q] => p = q /\ mpc[p] = "waiting"
           /\ current = p => wait_state[p] = "0"
<1>1. /\ at[p] \in CondPlaces /\ state[p] \in {"THINKING", "HUNGRY", "EATING"}
      /\ CondAt(at[p], mpc[p], state[p], wait_state[p]) /\ cv[p] \in {NULL, Self[p]}
  BY DEF CondInv, CondPlace, StatesOK, PhiTypeOK
<1>2. mpc[p] \in Places /\ (cv[p] # NULL <=> mpc[p] \in {"released", "waiting"})
  BY DEF CondInv, MonInv, PlaceExact
<1>3. \A q \in Proc : Self[q] \in Cv /\ Self[q] # mutex /\ Self[q] # next /\ Self[q] # NULL
                      /\ (Self[p] = Self[q] => p = q)
  BY Semas, Names
<1>4. DownOf[p] = IF mpc[p] = "entering" THEN mutex
                  ELSE IF mpc[p] = "urgent" THEN next
                  ELSE IF mpc[p] = "waiting" THEN cv[p] ELSE NULL
  BY DEF DownOf
<1>5. current = p => wait_state[p] = "0"
  BY Semas, CurrentFacts DEF CondInv, MonInv
<1> QED
  BY <1>1, <1>2, <1>3, <1>4, <1>5

\* What is left to show of a step.
LEMMA CondKeeps ==
    ASSUME CondInv, MonInv', StatesOK', at' \in [Proc -> CondPlaces],
           \A q \in Proc : /\ CondAt(at'[q], mpc'[q], state'[q], wait_state'[q])
                           /\ cv'[q] \in {NULL, Self[q]},
           \/ value'[mutex] = 0
           \/ \A q \in Proc : mpc'[q] \notin {"signalled", "urgent"}
    PROVE  CondInv'
<1>1. CondPlace'
  BY DEF CondPlace
<1>2. DoorClosed'
  BY DEF DoorClosed
<1> QED
  BY <1>1, <1>2 DEF CondInv

\* Threads a step of the monitor does not touch, but for waking a sleeper.
LEMMA CondOthers ==
    ASSUME CondInv, NEW c \in Proc,
           \A q \in Proc : q # c => /\ at'[q] = at[q] /\ mpc'[q] = mpc[q] /\ cv'[q] = cv[q]
                                    /\ state'[q] = state[q]
                                    /\ mpc[q] = "waiting" => wait_state'[q] = wait_state[q]
    PROVE  \A q \in Proc : q # c => /\ CondAt(at'[q], mpc'[q], state'[q], wait_state'[q])
                                    /\ cv'[q] \in {NULL, Self[q]}
<1> SUFFICES ASSUME NEW q \in Proc, q # c
             PROVE  /\ CondAt(at'[q], mpc'[q], state'[q], wait_state'[q])
                    /\ cv'[q] \in {NULL, Self[q]}
  OBVIOUS
<1>1. /\ CondAt(at[q], mpc[q], state[q], wait_state[q]) /\ cv[q] \in {NULL, Self[q]}
  BY CondThread
<1>2. /\ at'[q] = at[q] /\ mpc'[q] = mpc[q] /\ cv'[q] = cv[q] /\ state'[q] = state[q]
      /\ mpc[q] = "waiting" => wait_state'[q] = wait_state[q]
  OBVIOUS
<1>3. CondAt(at[q], mpc[q], state[q], wait_state'[q])
  BY <1>1, <1>2 DEF CondAt
<1> QED
  BY <1>1, <1>2, <1>3

\* Whom an up() wakes.
LEMMA UpWakes ==
    ASSUME MonInv, NEW s \in Sem, Up(s)
    PROVE  /\ \A t \in Sem : t # s => value'[t] = value[t]
           /\ \A q \in Proc : DownOf[q] # s => wait_state'[q] = wait_state[q]
           /\ wait_queue[s] # <<>> => /\ value' = value
                                      /\ \E p \in Proc : DownOf[p] = s /\ wait_state'[p] = "0"
<1>1. /\ wait_queue[s] \in Seq(Proc) /\ value \in [Sem -> Nat]
      /\ wait_state \in [Proc -> {"0", "WT_KSEM", "WT_TIMER"}]
      /\ \A p \in Proc : p \in Elems(wait_queue[s]) <=> wait_state[p] = "WT_KSEM" /\ DownOf[p] = s
  BY DEF MonInv, SemInv, SemTypeOK, QueuesExact
<1>2. CASE wait_queue[s] = <<>>
  BY <1>1, <1>2 DEF Up
<1>3. CASE wait_queue[s] # <<>>
  <2>1. Head(wait_queue[s]) \in Proc /\ Head(wait_queue[s]) \in Elems(wait_queue[s])
    BY <1>1, <1>3, TailList
  <2>2. value' = value /\ wait_state' = [wait_state EXCEPT ![Head(wait_queue[s])] = "0"]
    BY <1>3 DEF Up, WakeupWait, Wakeup
  <2> QED
    BY <1>1, <2>1, <2>2
<1> QED
  BY <1>2, <1>3

\* The idle loop, run_timer_list, do_sleep outside the monitor, and do_exit.
LEMMA CondCpu ==
    ASSUME CondInv, UNCHANGED <<next_count, count, mpc, cv, state, iter>>,
           \/ /\ current # NULL
              /\ \/ /\ StartSleep
                    /\ \/ at[current] = "think" /\ at' = [at EXCEPT ![current] = "take"]
                       \/ at[current] = "eat" /\ at' = [at EXCEPT ![current] = "put"]
                 \/ /\ Switch(run_list) /\ UNCHANGED <<wait_state, semVars>>
                    /\ at[current] = "think" /\ at' = [at EXCEPT ![current] = "quit"]
           \/ at' = at /\ (IdleSchedules \/ \E p \in Proc : TimerFires(p))
    PROVE  CondInv'
<1>1. /\ MonInv /\ SemInv /\ StatesOK /\ at \in [Proc -> CondPlaces] /\ DoorClosed
      /\ current # NULL => current \in Proc
  BY CurrentFacts DEF CondInv, CondPlace, MonInv
<1>2. /\ at' = at /\ (IdleSchedules \/ \E p \in Proc : TimerFires(p))
      \/ /\ current # NULL /\ DownOf[current] = NULL /\ Is("out")
         /\ StartSleep \/ (Switch(run_list) /\ UNCHANGED <<wait_state, semVars>>)
         /\ at[current] # "right" /\ at' \in [Proc -> CondPlaces]
         /\ \A q \in Proc : q # current => at'[q] = at[q]
         /\ \A st, ws : CondAt(at[current], "out", st, ws) => CondAt(at'[current], "out", st, ws)
  <2> SUFFICES ASSUME current # NULL, \/ at[current] = "think" /\ at' = [at EXCEPT ![current] = "take"]
                                      \/ at[current] = "eat" /\ at' = [at EXCEPT ![current] = "put"]
                                      \/ at[current] = "think" /\ at' = [at EXCEPT ![current] = "quit"]
               PROVE  /\ DownOf[current] = NULL /\ Is("out")
                      /\ at[current] # "right" /\ at' \in [Proc -> CondPlaces]
                      /\ \A q \in Proc : q # current => at'[q] = at[q]
                      /\ \A st, ws : CondAt(at[current], "out", st, ws) => CondAt(at'[current], "out", st, ws)
    OBVIOUS
  <2>1. mpc[current] = "out"
    BY <1>1, CondThread DEF CondAt
  <2> QED
    BY <1>1, <2>1 DEF DownOf, Is, CondAt, CondPlaces
<1>3. MonInv'
  BY <1>1, <1>2, CpuOnlyStep
<1>4. UNCHANGED semVars /\ \A p \in Proc : DownOf[p] # NULL => wait_state'[p] = wait_state[p]
  <2>1. DownOf' = DownOf
    BY DEF DownOf
  <2> QED
    BY <1>1, <1>2, <2>1, CpuStep
<1>5. value' = value
  BY <1>4 DEF semVars
<1>6. \A q \in Proc : mpc[q] = "waiting" => wait_state'[q] = wait_state[q]
  BY <1>4, CondThread, Semas
<1>7. ASSUME NEW q \in Proc
      PROVE  /\ CondAt(at'[q], mpc'[q], state'[q], wait_state'[q])
             /\ cv'[q] \in {NULL, Self[q]}
  <2>1. /\ CondAt(at[q], mpc[q], state[q], wait_state[q]) /\ cv[q] \in {NULL, Self[q]}
    BY CondThread
  <2>2. CondAt(at[q], mpc[q], state[q], wait_state'[q])
    BY <1>6, <2>1 DEF CondAt
  <2>3. CondAt(at'[q], mpc[q], state[q], wait_state'[q])
    BY <1>2, <2>2 DEF Is
  <2> QED
    BY <2>1, <2>3
<1>8. StatesOK'
  <2>1. \A q \in Proc : at[q] = "right" => at'[q] = "right"
    BY <1>2
  <2> QED
    BY <1>1, <2>1, SameStates DEF StatesOK, PhiTypeOK
<1>9. value'[mutex] = 0 \/ \A q \in Proc : mpc'[q] \notin {"signalled", "urgent"}
  BY <1>1, <1>5 DEF DoorClosed
<1>10. at' \in [Proc -> CondPlaces]
  BY <1>1, <1>2
<1> QED
  BY <1>3, <1>7, <1>8, <1>9, <1>10, CondKeeps

\* down(&mtp->mutex) at the head of a routine, and the middle of cond_signal and
\* cond_wait, where units come by hand only.
LEMMA CondDowns ==
    ASSUME CondInv, NEW l, Is(l), UNCHANGED <<state, at, iter>>, NEW to, NEW s \in Sem,
           \/ l = "out" /\ to \in {"in", "entering"} /\ at[current] \in {"take", "put"} /\ Enter
           \/ l = "entering" /\ to = "in" /\ EnterEnds
           \/ l = "signalled" /\ to = "urgent" /\ StepBack
           \/ l = "urgent" /\ to = "in" /\ StepBackEnds
           \/ l = "released" /\ to = "waiting" /\ WaitBlocks
           \/ l = "waiting" /\ to = "in" /\ WaitEnds,
           \/ Take(mutex) /\ to = "in" /\ l = "out"
           \/ Block(s) /\ to \in {"entering", "urgent", "waiting"}
           \/ Unblock(s) /\ to = "in",
           mpc' = [mpc EXCEPT ![current] = to],
           cv' = cv \/ cv' = [cv EXCEPT ![current] = NULL]
    PROVE  CondInv'
<1> DEFINE c == current
<1>1. /\ c # NULL /\ c \in Proc /\ mpc[c] = l /\ wait_state[c] = "0" /\ MonInv /\ StatesOK
      /\ wait_state \in [Proc -> {"0", "WT_KSEM", "WT_TIMER"}] /\ value \in [Sem -> Nat]
      /\ mpc \in [Proc -> Places] /\ cv \in [Proc -> Cv \cup {NULL}]
      /\ at \in [Proc -> CondPlaces] /\ DoorClosed
  BY CurrentFacts DEF Is, CondInv, CondPlace, MonInv, SemInv, SemTypeOK, PlaceExact
<1>2. /\ mpc'[c] = to /\ \A q \in Proc : q # c => mpc'[q] = mpc[q] /\ cv'[q] = cv[q]
      /\ cv'[c] \in {cv[c], NULL}
  BY <1>1
<1>3. MonInv'
  <2>1. Next
    BY DEF Next, Kernel
  <2> QED
    BY <1>1, <2>1, MonitorStep
<1> HIDE DEF c
<1>4. /\ \A q \in Proc : q # c => wait_state'[q] = wait_state[q]
      /\ to \in {"in"} \/ wait_state'[c] = "WT_KSEM"
      /\ value' = value \/ (value[mutex] > 0 /\ l = "out")
  <2>1. CASE Take(mutex) /\ to = "in" /\ l = "out"
    BY <2>1 DEF Take, cpuVars
  <2>2. CASE Block(s) /\ to \in {"entering", "urgent", "waiting"}
    BY <1>1, <2>2 DEF Block, WaitCurrentSet, c
  <2>3. CASE Unblock(s) /\ to = "in"
    BY <2>3 DEF Unblock, cpuVars
  <2> QED
    BY <2>1, <2>2, <2>3
<1>5. StatesOK'
  <2>1. UNCHANGED <<state, at, iter>>
    OBVIOUS
  <2> QED
    BY <1>1, <2>1, SameStates DEF StatesOK, PhiTypeOK
<1>6. CondAt(at'[c], mpc'[c], state'[c], wait_state'[c]) /\ cv'[c] \in {NULL, Self[c]}
  <2>1. CondAt(at[c], l, state[c], "0") /\ cv[c] \in {NULL, Self[c]} /\ at[c] \in CondPlaces
    BY <1>1, CondThread
  <2>2. at'[c] = at[c] /\ state'[c] = state[c]
    OBVIOUS
  <2>3. CondAt(at[c], to, state[c], wait_state'[c])
    BY <1>4, <2>1 DEF CondAt, CondPlaces, c
  <2> QED
    BY <1>2, <2>1, <2>2, <2>3
<1>7. value'[mutex] = 0 \/ \A q \in Proc : mpc'[q] \notin {"signalled", "urgent"}
  <2>1. CASE value' = value
    <3>1. CASE value[mutex] = 0
      BY <2>1, <3>1
    <3>2. CASE value[mutex] # 0
      <4>1. \A q \in Proc : mpc[q] \notin {"signalled", "urgent"}
        BY <1>1, <3>2 DEF DoorClosed
      <4>2. to # "urgent" /\ to # "signalled"
        BY <1>1, <4>1
      <4> QED
        BY <1>2, <4>1, <4>2
    <3> QED
      BY <3>1, <3>2
  <2>2. CASE value[mutex] > 0 /\ l = "out"
    <3>1. \A q \in Proc : mpc[q] \notin {"signalled", "urgent"}
      BY <1>1, <2>2 DEF DoorClosed
    <3>2. to \in {"in", "entering"}
      BY <2>2
    <3> QED
      BY <1>2, <3>1, <3>2
  <2> QED
    BY <1>4, <2>1, <2>2
<1>8. \A q \in Proc : q # c => /\ CondAt(at'[q], mpc'[q], state'[q], wait_state'[q])
                               /\ cv'[q] \in {NULL, Self[q]}
  BY <1>1, <1>2, <1>4, CondOthers
<1> QED
  BY <1>1, <1>3, <1>5, <1>6, <1>7, <1>8, CondKeeps

\* ... as steps of the program.
LEMMA CondGoesOn ==
    ASSUME CondInv, GoIn \/ InMonitor
    PROVE  CondInv'
<1>1. MonInv /\ UNCHANGED <<state, at, iter>>
  BY DEF CondInv, GoIn, InMonitor
<1>2. mutex \in Sem /\ next \in Sem /\ mutex # next
  BY Names
<1>3. \A s \in Sem \ {mutex} : ~ Take(s)
  BY <1>1, NoUnits
<1>4. ASSUME NEW l \in {"entering", "urgent", "waiting"}, Is(l)
      PROVE  WokenByUp /\ current \in Proc /\ current # NULL
  <2>1. SemInv /\ PlaceExact /\ current # NULL
    BY <1>1, <1>4 DEF MonInv, Is
  <2>2. current \in Proc /\ wait_state[current] = "0" /\ DownOf[current] # NULL
    BY <1>4, <2>1, CurrentFacts, DownIs DEF Is
  <2> QED
    BY <2>1, <2>2 DEF SemInv, QueuesExact, WokenByUp
<1>5. CASE GoIn /\ Enter
  <2>1. /\ Is("out") /\ at[current] \in {"take", "put"} /\ cv' = cv
        /\ \/ Take(mutex) /\ mpc' = [mpc EXCEPT ![current] = "in"]
           \/ Block(mutex) /\ mpc' = [mpc EXCEPT ![current] = "entering"]
    BY <1>5 DEF GoIn, On, Enter, Down
  <2> QED
    BY <1>1, <1>2, <1>5, <2>1, CondDowns
<1>6. CASE GoIn /\ EnterEnds
  <2>1. /\ Is("entering") /\ cv' = cv /\ Unblock(mutex)
        /\ mpc' = [mpc EXCEPT ![current] = IF WokenByUp THEN "in" ELSE "panic"]
    BY <1>6 DEF EnterEnds, DownEnds
  <2>2. mpc' = [mpc EXCEPT ![current] = "in"]
    BY <1>4, <2>1
  <2> QED
    BY <1>1, <1>2, <1>6, <2>1, <2>2, CondDowns
<1>7. CASE StepBack
  <2>1. /\ Is("signalled") /\ cv' = cv
        /\ Block(next) /\ mpc' = [mpc EXCEPT ![current] = "urgent"]
    BY <1>2, <1>3, <1>7 DEF StepBack
  <2> QED
    BY <1>1, <1>2, <1>7, <2>1, CondDowns
<1>8. CASE StepBackEnds
  <2>1. /\ Is("urgent") /\ cv' = cv /\ Unblock(next)
        /\ mpc' = [mpc EXCEPT ![current] = IF WokenByUp THEN "in" ELSE "panic"]
    BY <1>8 DEF StepBackEnds, DownEnds
  <2>2. mpc' = [mpc EXCEPT ![current] = "in"]
    BY <1>4, <2>1
  <2> QED
    BY <1>1, <1>2, <1>8, <2>1, <2>2, CondDowns
<1>9. ASSUME Is("released") \/ Is("waiting")
      PROVE  cv[current] \in Sem \ {mutex}
  <2>1. current \in Proc
    BY <1>1, <1>9, CurrentFacts DEF Is, MonInv
  <2>2. cv[current] = Self[current]
    BY <1>9, <2>1, CondThread DEF Is
  <2> QED
    BY <2>1, <2>2, Semas
<1>10. CASE WaitBlocks
  <2>1. Is("released")
    BY <1>10 DEF WaitBlocks
  <2>2. /\ cv' = cv /\ Block(cv[current]) /\ mpc' = [mpc EXCEPT ![current] = "waiting"]
    BY <1>3, <1>9, <1>10, <2>1 DEF WaitBlocks
  <2> QED
    BY <1>1, <1>9, <1>10, <2>1, <2>2, CondDowns
<1>11. CASE WaitEnds
  <2>1. /\ Is("waiting") /\ cv' = [cv EXCEPT ![current] = NULL] /\ Unblock(cv[current])
        /\ mpc' = [mpc EXCEPT ![current] = IF WokenByUp THEN "in" ELSE "panic"]
    BY <1>11 DEF WaitEnds, DownEnds
  <2>2. mpc' = [mpc EXCEPT ![current] = "in"]
    BY <1>4, <2>1
  <2> QED
    BY <1>1, <1>9, <1>11, <2>1, <2>2, CondDowns
<1> QED
  BY <1>5, <1>6, <1>7, <1>8, <1>10, <1>11 DEF GoIn, InMonitor

\* Who leaves the monitor, or waits in it, lets somebody else in: a signaller
\* that stepped back, or else nobody did.
LEMMA PassOnLets ==
    ASSUME CondInv, Is("in"), PassOn
    PROVE  /\ \A q \in Proc : mpc[q] = "waiting" => wait_state'[q] = wait_state[q]
           /\ value'[mutex] = 0 \/ \A q \in Proc : mpc[q] \notin {"signalled", "urgent"}
<1>1. current \in Proc /\ mpc[current] = "in" /\ MonInv
  BY CurrentFacts DEF Is, CondInv, MonInv
<1>2. /\ value[mutex] = 0 /\ SteppedBack = Elems(wait_queue[next])
      /\ next_count = Len(wait_queue[next])
  BY <1>1, InFacts
<1>3. wait_queue[next] \in Seq(Proc)
  BY <1>1, Names DEF MonInv, SemInv, SemTypeOK
<1>4. \A q \in Proc : mpc[q] = "waiting" => DownOf[q] # mutex /\ DownOf[q] # next
  BY CondThread, Semas, Names
<1>5. CASE next_count > 0
  <2>1. Up(next) /\ wait_queue[next] # <<>>
    BY <1>2, <1>3, <1>5 DEF PassOn
  <2> QED
    BY <1>1, <1>2, <1>4, <2>1, UpWakes, Names
<1>6. CASE ~ next_count > 0
  <2>1. Up(mutex) /\ Len(wait_queue[next]) = 0
    BY <1>2, <1>3, <1>6 DEF PassOn
  <2>2. SteppedBack = {}
    BY <1>2, <1>3, <2>1 DEF Elems
  <2> QED
    BY <1>1, <1>4, <2>1, <2>2, UpWakes, Names DEF SteppedBack
<1> QED
  BY <1>5, <1>6

\* The end of both routines, and cond_wait up to its down().
LEMMA CondLeaves ==
    ASSUME CondInv, \/ On("taken") /\ Leave /\ GoTo("eat") /\ iter' = iter
                    \/ On("done") /\ Leave /\ GoTo("think") /\ iter' \in [Proc -> Nat]
                    \/ /\ On("check") /\ Is("in") /\ Wait(Self[current]) /\ GoTo("taken")
                       /\ state[current] = "HUNGRY" /\ iter' = iter,
           state' = state
    PROVE  CondInv'
<1> DEFINE c == current
<1>1. /\ c # NULL /\ c \in Proc /\ mpc[c] = "in" /\ MonInv /\ StatesOK /\ PassOn /\ Is("in")
      /\ mpc \in [Proc -> Places] /\ cv \in [Proc -> Cv \cup {NULL}]
      /\ at \in [Proc -> CondPlaces]
  BY CurrentFacts DEF On, Leave, Wait, Is, CondInv, CondPlace, MonInv, PlaceExact
<1>2. /\ \A q \in Proc : mpc[q] = "waiting" => wait_state'[q] = wait_state[q]
      /\ value'[mutex] = 0 \/ \A q \in Proc : mpc[q] \notin {"signalled", "urgent"}
  BY <1>1, PassOnLets
<1>3. MonInv'
  <2>1. Next
    BY <1>1, Semas DEF Next
  <2> QED
    BY <1>1, <2>1, MonitorStep
<1>4. PICK from, to, m : /\ \/ from = "taken" /\ to = "eat" /\ m = "out" /\ cv' = cv
                            \/ from = "done" /\ to = "think" /\ m = "out" /\ cv' = cv
                            \/ /\ from = "check" /\ to = "taken" /\ m = "released"
                               /\ state[c] = "HUNGRY" /\ cv' = [cv EXCEPT ![c] = Self[c]]
                         /\ at[c] = from /\ at' = [at EXCEPT ![c] = to]
                         /\ mpc' = [mpc EXCEPT ![c] = m]
  BY DEF On, GoTo, Leave, Wait
<1> HIDE DEF c
<1>5. /\ at' \in [Proc -> CondPlaces] /\ at'[c] = to /\ mpc'[c] = m /\ cv'[c] \in {cv[c], Self[c]}
      /\ \A q \in Proc : q # c => at'[q] = at[q] /\ mpc'[q] = mpc[q] /\ cv'[q] = cv[q]
  BY <1>1, <1>4 DEF CondPlaces
<1>6. StatesOK'
  <2>1. \A q \in Proc : at[q] = "right" => at'[q] = "right"
    BY <1>1, <1>4
  <2>2. iter' \in [Proc -> Nat]
    BY <1>1 DEF StatesOK, PhiTypeOK
  <2> QED
    BY <1>1, <2>1, <2>2, SameStates
<1>7. CondAt(at'[c], mpc'[c], state'[c], wait_state'[c]) /\ cv'[c] \in {NULL, Self[c]}
  <2>1. CondAt(from, "in", state[c], wait_state[c]) /\ cv[c] \in {NULL, Self[c]}
    BY <1>1, <1>4, CondThread
  <2>2. CondAt(to, m, state[c], wait_state'[c])
    BY <1>4, <2>1 DEF CondAt
  <2> QED
    BY <1>5, <2>1, <2>2
<1>8. \A q \in Proc : q # c => /\ CondAt(at'[q], mpc'[q], state'[q], wait_state'[q])
                               /\ cv'[q] \in {NULL, Self[q]}
  BY <1>1, <1>2, <1>5, CondOthers
<1>9. value'[mutex] = 0 \/ \A q \in Proc : mpc'[q] \notin {"signalled", "urgent"}
  BY <1>2, <1>4, <1>5
<1> QED
  BY <1>1, <1>3, <1>5, <1>6, <1>7, <1>8, <1>9, CondKeeps

\* What phi_test_condvar finds on the condition variable of j: its own thread
\* or nobody.
LEMMA Sleepers ==
    ASSUME CondInv, Is("in"), NEW j \in Proc
    PROVE  /\ count[Self[j]] > 0 <=> mpc[j] = "waiting"
           /\ j # current /\ state[j] = "HUNGRY" => mpc[j] = "waiting"
           /\ mpc[j] = "waiting" => j # current /\ wait_queue[Self[j]] # <<>>
<1>1. current \in Proc /\ mpc[current] = "in" /\ MonInv
  BY CurrentFacts DEF Is, CondInv, MonInv
<1>2. /\ \A q \in Proc : (mpc[q] = "in" => q = current) /\ mpc[q] \notin {"signalled", "released"}
      /\ InWait[Self[j]] = Elems(wait_queue[Self[j]])
      /\ count[Self[j]] = Len(wait_queue[Self[j]])
      /\ wait_queue[Self[j]] \in Seq(Proc)
  BY <1>1, InFacts, Semas DEF MonInv, SemInv, SemTypeOK
<1>3. \A p : p \in InWait[Self[j]] <=> p = j /\ mpc[j] = "waiting"
  <2>1. InWait[Self[j]] = {p \in Proc : cv[p] = Self[j]}
    BY Semas DEF InWait
  <2>2. \A p \in Proc : cv[p] = Self[j] <=> p = j /\ mpc[j] = "waiting"
    BY <1>2, CondThread, Semas
  <2> QED
    BY <2>1, <2>2
<1>4. count[Self[j]] > 0 <=> wait_queue[Self[j]] # <<>>
  BY <1>2
<1>5. wait_queue[Self[j]] # <<>> <=> \E p : p \in InWait[Self[j]]
  <2>1. CASE wait_queue[Self[j]] = <<>>
    BY <1>2, <2>1, EmptyList
  <2>2. CASE wait_queue[Self[j]] # <<>>
    <3>1. Head(wait_queue[Self[j]]) \in Elems(wait_queue[Self[j]])
      BY <1>2, <2>2, TailList
    <3> QED
      BY <1>2, <2>2, <3>1
  <2> QED
    BY <2>1, <2>2
<1>6. j # current /\ state[j] = "HUNGRY" => mpc[j] = "waiting"
  BY <1>2, CondThread DEF CondAt, CondPlaces
<1> QED
  BY <1>1, <1>3, <1>4, <1>5, <1>6

\* phi_test_condvar of a neighbour j, by who puts its forks down.
LEMMA CondTests ==
    ASSUME CondInv, Is("in"), at[current] \in {"put", "right"}, at' \in [Proc -> CondPlaces],
           at'[current] \in {"right", "done"}, \A q \in Proc : q # current => at'[q] = at[q],
           StatesOK', NEW j \in Proc, j # current, state'[current] = "THINKING",
           \A i \in Proc : i # current /\ i # j => state'[i] = state[i],
           \/ Signal(Self[j]) /\ state[j] = "HUNGRY" /\ state'[j] = "EATING"
           \/ UNCHANGED monVars /\ state'[j] = state[j]
    PROVE  CondInv'
<1> DEFINE c == current
<1>1. /\ c # NULL /\ c \in Proc /\ mpc[c] = "in" /\ cv[c] = NULL /\ MonInv /\ value[mutex] = 0
      /\ mpc \in [Proc -> Places]
  <2>1. c # NULL /\ c \in Proc /\ mpc[c] = "in" /\ MonInv /\ mpc \in [Proc -> Places]
    BY CurrentFacts DEF Is, CondInv, MonInv, PlaceExact
  <2> QED
    BY <2>1, InFacts, CondThread
<1> HIDE DEF c
<1>2. ASSUME MonInv', value' = value, cv' = cv, mpc'[c] \in {"in", "signalled"},
             \A q \in Proc : q # c => mpc'[q] = mpc[q],
             \A q \in Proc : q # c /\ q # j /\ mpc[q] = "waiting" => wait_state'[q] = wait_state[q],
             CondAt(at'[j], mpc'[j], state'[j], wait_state'[j])
      PROVE  CondInv'
  <2>1. CondAt(at'[c], mpc'[c], state'[c], wait_state'[c]) /\ cv'[c] \in {NULL, Self[c]}
    <3>1. at'[c] \in {"right", "done"} /\ state'[c] = "THINKING"
      BY DEF c
    <3> QED
      BY <1>1, <1>2, <3>1 DEF CondAt
  <2>2. ASSUME NEW q \in Proc
        PROVE  /\ CondAt(at'[q], mpc'[q], state'[q], wait_state'[q])
               /\ cv'[q] \in {NULL, Self[q]}
    <3>1. CASE q # c /\ q # j
      <4>1. /\ at'[q] = at[q] /\ mpc'[q] = mpc[q] /\ state'[q] = state[q]
            /\ mpc[q] = "waiting" => wait_state'[q] = wait_state[q]
        BY <1>2, <3>1 DEF c
      <4>2. CondAt(at[q], mpc[q], state[q], wait_state[q]) /\ cv[q] \in {NULL, Self[q]}
        BY CondThread
      <4>3. CondAt(at[q], mpc[q], state[q], wait_state'[q])
        BY <4>1, <4>2 DEF CondAt
      <4> QED
        BY <1>2, <4>1, <4>2, <4>3
    <3>2. CASE q = j
      BY <1>2, <3>2, CondThread
    <3> QED
      BY <2>1, <3>1, <3>2
  <2>3. value'[mutex] = 0
    BY <1>1, <1>2
  <2> QED
    BY <1>2, <2>2, <2>3, CondKeeps
<1>3. CASE Signal(Self[j]) /\ state[j] = "HUNGRY" /\ state'[j] = "EATING"
  <2>1. /\ Up(Self[j]) /\ mpc' = [mpc EXCEPT ![c] = "signalled"] /\ cv' = cv
    BY <1>3 DEF Signal, c
  <2>2. MonInv'
    <3>1. Next
      BY <1>3, Semas DEF Next
    <3> QED
      BY <1>1, <3>1, MonitorStep
  <2>3. mpc[j] = "waiting" /\ wait_queue[Self[j]] # <<>>
    BY <1>3, Sleepers
  <2>4. /\ value' = value /\ \A q \in Proc : DownOf[q] # Self[j] => wait_state'[q] = wait_state[q]
        /\ \E p \in Proc : DownOf[p] = Self[j] /\ wait_state'[p] = "0"
    BY <1>1, <2>1, <2>3, Semas, UpWakes
  <2>5. wait_state'[j] = "0"
    BY <2>4, CondThread
  <2>6. \A q \in Proc : q # j => wait_state'[q] = wait_state[q]
    BY <2>4, CondThread
  <2>7. at[j] = "taken"
    BY <2>3, CondThread DEF CondAt, CondPlaces
  <2>8. mpc'[c] = "signalled" /\ \A q \in Proc : q # c => mpc'[q] = mpc[q]
    BY <1>1, <2>1
  <2>9. CondAt(at'[j], mpc'[j], state'[j], wait_state'[j])
    <3>1. at'[j] = "taken" /\ mpc'[j] = "waiting" /\ state'[j] = "EATING" /\ wait_state'[j] = "0"
      BY <1>3, <2>3, <2>5, <2>7, <2>8 DEF c
    <3> QED
      BY <3>1 DEF CondAt
  <2> QED
    BY <1>2, <2>1, <2>2, <2>4, <2>6, <2>8, <2>9
<1>4. CASE UNCHANGED monVars /\ state'[j] = state[j]
  <2>1. value' = value /\ cv' = cv /\ mpc' = mpc /\ wait_state' = wait_state
    BY <1>4 DEF monVars, cpuVars, semVars
  <2>2. MonInv'
    BY <1>1, <1>4, MonitorStutter
  <2>3. CondAt(at'[j], mpc'[j], state'[j], wait_state'[j])
    <3>1. at'[j] = at[j] /\ mpc'[j] = mpc[j] /\ state'[j] = state[j] /\ wait_state'[j] = wait_state[j]
      BY <1>4, <2>1 DEF c
    <3> QED
      BY <3>1, CondThread
  <2> QED
    BY <1>1, <1>2, <2>1, <2>2, <2>3
<1> QED
  BY <1>3, <1>4

\* A step in a routine that leaves the monitor alone.
LEMMA CondAlone ==
    ASSUME CondInv, Is("in"), UNCHANGED monVars, at' \in [Proc -> CondPlaces], StatesOK',
           \A q \in Proc : q # current => at'[q] = at[q] /\ state'[q] = state[q],
           \A ws : CondAt(at'[current], "in", state'[current], ws)
    PROVE  CondInv'
<1> DEFINE c == current
<1>1. c \in Proc /\ mpc[c] = "in" /\ MonInv /\ DoorClosed
  BY CurrentFacts DEF Is, CondInv, MonInv
<1>2. value' = value /\ cv' = cv /\ mpc' = mpc /\ wait_state' = wait_state
  BY DEF monVars, cpuVars, semVars
<1>3. MonInv'
  BY <1>1, MonitorStutter
<1>4. ASSUME NEW q \in Proc
      PROVE  /\ CondAt(at'[q], mpc'[q], state'[q], wait_state'[q])
             /\ cv'[q] \in {NULL, Self[q]}
  <2>1. /\ CondAt(at[q], mpc[q], state[q], wait_state[q]) /\ cv[q] \in {NULL, Self[q]}
    BY CondThread
  <2>2. CASE q = c
    BY <1>1, <1>2, <2>1, <2>2
  <2>3. CASE q # c
    BY <1>2, <2>1, <2>3
  <2> QED
    BY <2>2, <2>3
<1>5. value'[mutex] = 0 \/ \A q \in Proc : mpc'[q] \notin {"signalled", "urgent"}
  BY <1>1, <1>2 DEF DoorClosed
<1> QED
  BY <1>3, <1>4, <1>5, CondKeeps

\* The routines of the philosophers.
LEMMA CondRoutines ==
    ASSUME CondInv, TakeForks \/ TakeWaits \/ PutForks \/ PutRight
    PROVE  CondInv'
<1> DEFINE c == current
<1>1. /\ c # NULL /\ c \in Proc /\ mpc[c] = "in" /\ Is("in") /\ StatesOK
      /\ at \in [Proc -> CondPlaces] /\ state \in [Proc -> {"THINKING", "HUNGRY", "EATING"}]
      /\ iter \in [Proc -> Nat]
  BY CurrentFacts DEF TakeForks, TakeWaits, PutForks, PutRight, Is, CondInv, CondPlace, MonInv,
                      StatesOK, PhiTypeOK
<1>2. /\ Left(c) \in Proc /\ Left(c) # c /\ Right(c) \in Proc /\ Right(c) # c
      /\ CondAt(at[c], "in", state[c], wait_state[c])
  BY <1>1, Neighbours, CondThread
<1>3. ASSUME NEW st, NEW j \in Proc, PhiTest(st, j), state[j] = "HUNGRY" \/ ~ MayEat(st, j)
      PROVE  Tests(st, j) /\ (Signal(Self[j]) \/ UNCHANGED monVars)
             /\ (MayEat(st, j) /\ j # c => Signal(Self[j])) /\ (~ MayEat(st, j) => UNCHANGED monVars)
  BY <1>1, <1>3, Sleepers DEF PhiTest, Tests
<1>4. CASE TakeForks
  <2> DEFINE st == [state EXCEPT ![c] = "HUNGRY"]
  <2>1. at[c] = "take" /\ at' = [at EXCEPT ![c] = "check"] /\ iter' = iter /\ PhiTest(st, c)
    BY <1>4 DEF TakeForks, On, GoTo
  <2>2. ~ count[Self[c]] > 0
    BY <1>1, Sleepers
  <2>3. UNCHANGED monVars /\ Tests(st, c)
    BY <2>1, <2>2 DEF PhiTest, Tests
  <2>4. state[c] = "THINKING"
    BY <1>2, <2>1 DEF CondAt
  <2>5. \A q \in Proc : at[q] = "right" => at'[q] = "right"
    BY <1>1, <2>1
  <2>6. /\ StatesOK' /\ state'[c] \in {"HUNGRY", "EATING"}
        /\ \A i \in Proc : i # c => state'[i] = state[i]
    BY <1>1, <2>1, <2>3, <2>4, <2>5, TakeStates
  <2> HIDE DEF st
  <2>7. /\ at' \in [Proc -> CondPlaces] /\ at'[c] = "check"
        /\ \A q \in Proc : q # c => at'[q] = at[q]
    BY <1>1, <2>1 DEF CondPlaces
  <2>8. \A ws : CondAt(at'[c], "in", state'[c], ws)
    BY <2>6, <2>7 DEF CondAt
  <2> QED
    BY <1>1, <2>3, <2>6, <2>7, <2>8, CondAlone
<1>5. CASE TakeWaits
  <2>1. at[c] = "check" /\ at' = [at EXCEPT ![c] = "taken"] /\ UNCHANGED <<state, iter>>
        /\ IF state[c] = "HUNGRY" THEN Wait(Self[c]) ELSE UNCHANGED monVars
    BY <1>5 DEF TakeWaits, On, GoTo
  <2>2. CASE state[c] = "HUNGRY"
    BY <1>1, <1>5, <2>1, <2>2, CondLeaves DEF TakeWaits
  <2>3. CASE state[c] # "HUNGRY"
    <3>1. state'[c] = "EATING"
      BY <1>1, <1>2, <2>1, <2>3 DEF CondAt
    <3>2. /\ at' \in [Proc -> CondPlaces] /\ at'[c] = "taken"
          /\ \A q \in Proc : q # c => at'[q] = at[q] /\ state'[q] = state[q]
      BY <1>1, <2>1 DEF CondPlaces
    <3>3. StatesOK'
      <4>1. \A q \in Proc : at[q] = "right" => at'[q] = "right"
        BY <2>1, <3>2
      <4> QED
        BY <1>1, <2>1, <4>1, SameStates
    <3>4. \A ws : CondAt(at'[c], "in", state'[c], ws)
      BY <3>1, <3>2 DEF CondAt
    <3> QED
      BY <1>1, <2>1, <2>3, <3>2, <3>3, <3>4, CondAlone
  <2> QED
    BY <2>2, <2>3
<1>6. CASE PutForks
  <2> DEFINE st == [state EXCEPT ![c] = "THINKING"]
             j == Left(c)
  <2>1. at[c] = "put" /\ at' = [at EXCEPT ![c] = "right"] /\ iter' = iter /\ PhiTest(st, j)
    BY <1>6 DEF PutForks, On, GoTo
  <2>2. state[c] = "EATING"
    BY <1>2, <2>1 DEF CondAt
  <2>3. /\ at' \in [Proc -> CondPlaces] /\ at'[c] = "right"
        /\ \A q \in Proc : q # c => at'[q] = at[q]
    BY <1>1, <2>1 DEF CondPlaces
  <2>4. Tests(st, j)
    BY <2>1 DEF PhiTest, Tests
  <2>5. /\ StatesOK' /\ state'[c] = "THINKING"
        /\ \A i \in Proc : i # c /\ i # j => state'[i] = state[i]
        /\ MayEat(st, j) => state[j] = "HUNGRY" /\ state'[j] = "EATING"
        /\ ~ MayEat(st, j) => state'[j] = state[j]
    <3>1. at'[c] = "right" /\ \A q \in Proc : at[q] = "right" => at'[q] = "right"
      BY <2>1, <2>3
    <3> QED
      BY <1>1, <2>1, <2>2, <2>4, <3>1, PutStates
  <2>6. j \in Proc /\ j # c
    BY <1>2
  <2>7. \/ Signal(Self[j]) /\ state[j] = "HUNGRY" /\ state'[j] = "EATING"
        \/ UNCHANGED monVars /\ state'[j] = state[j]
    <3> HIDE DEF st, j
    <3> QED
      BY <1>3, <2>1, <2>5, <2>6
  <2> HIDE DEF st, j
  <2>8. /\ at[current] \in {"put", "right"} /\ at'[current] \in {"right", "done"}
        /\ \A q \in Proc : q # current => at'[q] = at[q]
        /\ \A i \in Proc : i # current /\ i # j => state'[i] = state[i]
        /\ state'[current] = "THINKING" /\ j # current
    BY <2>1, <2>3, <2>5, <2>6
  <2> QED
    BY <1>1, <2>3, <2>5, <2>6, <2>7, <2>8, CondTests
<1>7. CASE PutRight
  <2> DEFINE j == Right(c)
  <2>1. at[c] = "right" /\ at' = [at EXCEPT ![c] = "done"] /\ iter' = iter /\ PhiTest(state, j)
    BY <1>7 DEF PutRight, On, GoTo
  <2>2. state[c] = "THINKING"
    BY <1>2, <2>1 DEF CondAt
  <2>3. /\ at' \in [Proc -> CondPlaces] /\ at'[c] = "done"
        /\ \A q \in Proc : q # c => at'[q] = at[q]
    BY <1>1, <2>1 DEF CondPlaces
  <2>4. Tests(state, j)
    BY <2>1 DEF PhiTest, Tests
  <2>5. /\ StatesOK'
        /\ \A i \in Proc : i # j => state'[i] = state[i]
        /\ MayEat(state, j) => state[j] = "HUNGRY" /\ state'[j] = "EATING"
        /\ ~ MayEat(state, j) => state'[j] = state[j]
    <3>1. \A q \in Proc : q # c /\ at[q] = "right" => at'[q] = "right"
      BY <2>1, <2>3
    <3> QED
      BY <1>1, <2>1, <2>4, <3>1, RightStates
  <2>6. j \in Proc /\ j # c
    BY <1>2
  <2>7. \/ Signal(Self[j]) /\ state[j] = "HUNGRY" /\ state'[j] = "EATING"
        \/ UNCHANGED monVars /\ state'[j] = state[j]
    <3> HIDE DEF j
    <3> QED
      BY <1>3, <2>1, <2>5, <2>6
  <2> HIDE DEF j
  <2>8. /\ at[current] \in {"put", "right"} /\ at'[current] \in {"right", "done"}
        /\ \A q \in Proc : q # current => at'[q] = at[q]
        /\ \A i \in Proc : i # current /\ i # j => state'[i] = state[i]
        /\ state'[current] = "THINKING" /\ j # current
    BY <1>1, <2>1, <2>2, <2>3, <2>5, <2>6
  <2> QED
    BY <1>1, <2>3, <2>5, <2>6, <2>7, <2>8, CondTests
<1> QED
  BY <1>4, <1>5, <1>6, <1>7

\* The invariant of the second part is inductive.
LEMMA CondStepKeeps ==
    ASSUME CondInv,
           \/ Philosopher \/ Waits
           \/ \E i \in Proc : Wakes(i)
    PROVE  CondInv'
<1>1. iter \in [Proc -> Nat]
  BY DEF CondInv, StatesOK, PhiTypeOK
<1>2. CASE Think \/ Eat \/ Quit \/ Waits \/ \E i \in Proc : Wakes(i)
  <2>1. UNCHANGED <<next_count, count, mpc, cv, state, iter>>
    BY <1>2 DEF Think, Eat, Sleep, Quit, Waits, Idle, Wakes, Timer
  <2>2. CASE Think \/ Eat \/ Quit
    <3>1. /\ current # NULL
          /\ \/ /\ StartSleep
                /\ \/ at[current] = "think" /\ at' = [at EXCEPT ![current] = "take"]
                   \/ at[current] = "eat" /\ at' = [at EXCEPT ![current] = "put"]
             \/ /\ Switch(run_list) /\ UNCHANGED <<wait_state, semVars>>
                /\ at[current] = "think" /\ at' = [at EXCEPT ![current] = "quit"]
      BY <2>2 DEF Think, Eat, Sleep, Quit, On, GoTo
    <3> QED
      BY <2>1, <3>1, CondCpu
  <2>3. CASE Waits \/ \E i \in Proc : Wakes(i)
    <3>1. at' = at /\ (IdleSchedules \/ \E p \in Proc : TimerFires(p))
      BY <2>3 DEF Waits, Idle, Wakes, Timer
    <3> QED
      BY <2>1, <3>1, CondCpu
  <2> QED
    BY <1>2, <2>2, <2>3
<1>3. CASE GoIn \/ InMonitor
  BY <1>3, CondGoesOn
<1>4. CASE TakeForks \/ TakeWaits \/ PutForks \/ PutRight
  BY <1>4, CondRoutines
<1>5. CASE TakeLeaves
  BY <1>5, CondLeaves DEF TakeLeaves
<1>6. CASE PutLeaves
  <2>1. iter' \in [Proc -> Nat]
    <3>1. current \in Proc /\ iter' = [iter EXCEPT ![current] = @ + 1]
      BY <1>6, CurrentFacts DEF PutLeaves, On, CondInv, MonInv
    <3> QED
      BY <1>1, <3>1
  <2> QED
    BY <1>6, <2>1, CondLeaves DEF PutLeaves
<1> QED
  BY <1>2, <1>3, <1>4, <1>5, <1>6 DEF Philosopher

-----------------------------------------------------------------------------
\* The threads in the order they are made.
LEMMA NewThreads ==
    LET made == [k \in 1..N |-> k - 1]
    IN  made \in Seq(Proc) /\ Distinct(made)
<1>1. N \in Nat /\ Proc = 0..(N - 1)
  BY PhilosopherAssumption
<1>2. [k \in 1..N |-> k - 1] \in [1..N -> Proc]
  BY <1>1
<1>3. \A i, j \in 1..N : i # j => [k \in 1..N |-> k - 1][i] # [k \in 1..N |-> k - 1][j]
  BY <1>1
<1> QED
  BY <1>1, <1>2, <1>3, FunctionList DEF Distinct

\* The first part begins well.
LEMMA SemaStarts ==
    ASSUME SyncInit PROVE SemaInv
<1>1. /\ InitMonitor /\ run_list = [k \in 1..N |-> k - 1]
      /\ state = [i \in Proc |-> "THINKING"] /\ at = [i \in Proc |-> "think"]
      /\ iter = [i \in Proc |-> 0] /\ blocked = [i \in Proc |-> FALSE]
  BY DEF SyncInit, PhiInit, Sema!Init
<1>2. run_list \in Seq(Proc) /\ Distinct(run_list)
  BY <1>1, NewThreads
<1>3. /\ current = NULL /\ wait_state = [p \in Proc |-> "0"] /\ value = InitialValue
      /\ next_count = 0 /\ count = [c \in Cv |-> 0]
      /\ mpc = [p \in Proc |-> "out"] /\ cv = [p \in Proc |-> NULL]
      /\ InitialValue = [s \in Sem |-> IF s = mutex THEN 1 ELSE 0]
  BY <1>1, MonitorAssumption DEF InitMonitor, SemInit
<1>4. Low!SemInv
  <2>1. [p \in Proc |-> IF blocked[p] THEN "waiting" ELSE "out"] = [p \in Proc |-> "out"]
        /\ SemaDown = [p \in Proc |-> NULL]
    BY <1>1 DEF SemaDown
  <2>2. Low!InitMonitor
    BY <1>1, <1>3, <2>1 DEF InitMonitor, Low!InitMonitor, SemInit, Low!SemInit
  <2>3. Low!Distinct(run_list)
    BY <1>2 DEF Distinct, Low!Distinct
  <2>4. Low!MonInv
    BY <1>2, <2>2, <2>3, LowIs, Low!MonitorInit
  <2> QED
    BY <2>4 DEF Low!MonInv
<1>5. StatesOK
  BY <1>1, Neighbours DEF StatesOK, PhiTypeOK, NeighboursApart, HungryWatched
<1>6. SemaPlace
  BY <1>1, <1>3, Semas DEF SemaPlace, SemaPlaces, SemaAt, SignalAt
<1>7. SemaToken
  BY <1>1, <1>3, Semas DEF SemaToken, Inside, InsideAt
<1> QED
  BY <1>3, <1>4, <1>5, <1>6, <1>7 DEF SemaInv, Untouched

\* The second part begins well: the threads of the first have quit, and left
\* nothing behind.
LEMMA CondStarts ==
    ASSUME SemaInv, SecondPart PROVE CondInv'
<1>1. /\ run_list' = [k \in 1..N |-> k - 1] /\ value' = InitialValue
      /\ wait_queue' = [s \in Sem |-> <<>>]
      /\ state' = [i \in Proc |-> "THINKING"] /\ at' = [i \in Proc |-> "think"]
      /\ iter' = [i \in Proc |-> 0] /\ wakeup_flags' = [p \in Proc |-> "WT_INTERRUPTED"]
      /\ UNCHANGED <<current, wait_state, next_count, count, mpc, cv>>
      /\ \A i \in Proc : at[i] = "quit"
      /\ InitialValue = [s \in Sem |-> IF s = mutex THEN 1 ELSE 0]
  BY MonitorAssumption DEF SecondPart, inMonitor
<1>2. current' = NULL /\ wait_state' = [p \in Proc |-> "0"]
  <2>1. current \in Proc \cup {NULL} /\ wait_state \in [Proc -> {"0", "WT_KSEM", "WT_TIMER"}]
    BY SemaFacts DEF SemaInv
  <2>2. \A p \in Proc : p # current /\ wait_state[p] = "0"
    BY <1>1, SemaThread
  <2> QED
    BY <1>1, <2>1, <2>2
<1>3. /\ next_count' = 0 /\ count' = [c \in Cv |-> 0]
      /\ mpc' = [p \in Proc |-> "out"] /\ cv' = [p \in Proc |-> NULL]
  BY <1>1 DEF SemaInv, Untouched
<1>4. run_list' \in Seq(Proc) /\ Distinct(run_list')
  BY <1>1, NewThreads
<1>5. MonInv'
  <2>1. DownOf' = [p \in Proc |-> NULL]
    BY <1>3 DEF DownOf
  <2>2. SemTypeOK'
    BY <1>1, <1>2, <1>4, <2>1, SemAssumption DEF SemTypeOK
  <2>3. CpuExact'
    <3>1. Elems(run_list') \subseteq Proc
      BY <1>4, ElemsIn
    <3> QED
      BY <1>2, <1>4, <3>1, Names DEF CpuExact
  <2>4. QueuesExact'
    BY <1>1, <1>2, <2>1, Names, EmptyList DEF QueuesExact
  <2>5. PlaceExact'
    BY <1>3, Names DEF PlaceExact, Places
  <2>6. TokenExact'
    <3>1. Active' = {}
      BY <1>3 DEF Active, Granted
    <3> QED
      BY <1>1, <3>1, Names DEF TokenExact
  <2>7. Counting'
    <3>1. SteppedBack' = {} /\ \A c \in Cv : InWait'[c] = {}
      BY <1>3, Names DEF SteppedBack, InWait
    <3>2. Cardinality({}) = 0
      BY FS_EmptySet
    <3> QED
      BY <1>3, <3>1, <3>2 DEF Counting
  <2> QED
    BY <2>2, <2>3, <2>4, <2>5, <2>6, <2>7 DEF MonInv, SemInv
<1>6. StatesOK'
  BY <1>1, Neighbours DEF StatesOK, PhiTypeOK, NeighboursApart, HungryWatched
<1>7. CondPlace'
  BY <1>1, <1>3, Semas DEF CondPlace, CondPlaces, CondAt
<1>8. DoorClosed'
  BY <1>3 DEF DoorClosed
<1> QED
  BY <1>5, <1>6, <1>7, <1>8 DEF CondInv

\* The inductive invariant of check_sync().
SyncInv == \/ part = "sema" /\ SemaInv
           \/ part = "condvar" /\ CondInv

\* SyncInv is inductive.
LEMMA SyncStep ==
    ASSUME SyncInv, [SyncNext]_syncVars PROVE SyncInv'
<1>1. CASE UNCHANGED syncVars
  <2>1. UNCHANGED <<current, run_list, wait_state, value, wait_queue, wakeup_flags, next_count, count,
                    mpc, cv, state, at, iter, part, blocked>>
    BY <1>1 DEF syncVars, phiVars, monVars, cpuVars, semVars
  <2>2. StatesOK => StatesOK'
    BY <2>1 DEF StatesOK, PhiTypeOK, NeighboursApart, HungryWatched
  <2>3. CASE part = "sema" /\ SemaInv
    <3>1. Low!SemInv'
      <4>1. Low!DownOf' = Low!DownOf
        BY <2>1, LowIs DEF SemaDown
      <4> QED
        BY <2>1, <2>3, <4>1 DEF SemaInv, Low!SemInv, Low!SemTypeOK, Low!CpuExact, Low!QueuesExact
    <3>2. SemaPlace' /\ Untouched'
      BY <2>1, <2>3 DEF SemaInv, SemaPlace, Untouched
    <3>3. SemaToken'
      BY <2>1, <2>3, SameToken
    <3> QED
      BY <2>1, <2>2, <2>3, <3>1, <3>2, <3>3 DEF SyncInv, SemaInv
  <2>4. CASE part = "condvar" /\ CondInv
    <3>1. MonInv'
      BY <1>1, <2>4, MonitorStutter DEF CondInv, syncVars, phiVars
    <3>2. CondPlace' /\ DoorClosed'
      BY <2>1, <2>4 DEF CondInv, CondPlace, DoorClosed
    <3> QED
      BY <2>1, <2>2, <2>4, <3>1, <3>2 DEF SyncInv, CondInv
  <2> QED
    BY <2>3, <2>4 DEF SyncInv
<1>2. CASE \/ SemaStep(Sema!Philosopher \/ Sema!Waits)
           \/ \E i \in Proc : SemaStep(Sema!Wakes(i))
  <2>1. /\ part = "sema" /\ part' = part /\ UNCHANGED inMonitor
        /\ \/ Sema!Philosopher \/ Sema!Waits
           \/ \E i \in Proc : Sema!Wakes(i)
    BY <1>2 DEF SemaStep
  <2> QED
    BY <2>1, SemaStepKeeps DEF SyncInv
<1>3. CASE \/ CondvarStep(Philosopher \/ Waits)
           \/ \E i \in Proc : CondvarStep(Wakes(i))
  <2>1. /\ part = "condvar" /\ part' = part
        /\ \/ Philosopher \/ Waits
           \/ \E i \in Proc : Wakes(i)
    BY <1>3 DEF CondvarStep
  <2> QED
    BY <2>1, CondStepKeeps DEF SyncInv
<1>4. CASE SecondPart
  BY <1>4, CondStarts DEF SyncInv, SecondPart
<1> QED
  BY <1>1, <1>2, <1>3, <1>4 DEF SyncNext, Thread, Clock

\* ... and implies what check_sync.c promises.
LEMMA SyncInvImplies ==
    ASSUME SyncInv PROVE ForksHeldOnce /\ HungryHasEatingNeighbour /\ SignalsExact
<1>1. StatesOK /\ \A i \in Proc : at[i] \in {"eat", "put"} => state[i] = "EATING"
  <2>1. CASE part = "sema" /\ SemaInv
    BY <2>1, SemaThread DEF SemaInv, SemaAt
  <2>2. CASE part = "condvar" /\ CondInv
    BY <2>2, CondThread DEF CondInv, CondAt
  <2> QED
    BY <2>1, <2>2 DEF SyncInv
<1>2. ForksHeldOnce
  BY <1>1 DEF ForksHeldOnce, StatesOK, NeighboursApart
<1>3. HungryHasEatingNeighbour
  <2> SUFFICES ASSUME value[mutex] = 1, NEW i \in Proc, state[i] = "HUNGRY"
               PROVE  "EATING" \in {state[Left(i)], state[Right(i)]}
    BY DEF HungryHasEatingNeighbour
  <2>1. Left(i) \in Proc
    BY Neighbours
  <2>2. at[Left(i)] # "right"
    <3>1. CASE part = "sema" /\ SemaInv
      <4>1. Inside = {}
        BY <3>1 DEF SemaInv, SemaToken
      <4> QED
        BY <2>1, <4>1 DEF Inside, InsideAt
    <3>2. CASE part = "condvar" /\ CondInv
      <4>1. ASSUME at[Left(i)] = "right" PROVE mpc[Left(i)] \in {"in", "signalled", "urgent"}
        BY <2>1, <3>2, <4>1, CondThread DEF CondAt
      <4>2. mpc[Left(i)] # "in"
        BY <2>1, <3>2, InFacts DEF CondInv
      <4>3. mpc[Left(i)] \notin {"signalled", "urgent"}
        BY <2>1, <3>2 DEF CondInv, DoorClosed
      <4> QED
        BY <4>1, <4>2, <4>3
    <3> QED
      BY <3>1, <3>2 DEF SyncInv
  <2> QED
    BY <1>1, <2>2 DEF StatesOK, HungryWatched
<1>4. SignalsExact
  <2> SUFFICES ASSUME part = "sema", NEW i \in Proc
               PROVE  /\ value[Self[i]] <= 1
                      /\ Sema!SignalPending(i) <=> (state[i] = "EATING" /\ at[i] \in {"taken", "wait"})
    BY DEF SignalsExact
  <2>1. SignalAt(value[Self[i]], at[i], blocked[i], state[i], wait_state[i])
    BY SemaThread DEF SyncInv
  <2> QED
    BY <2>1 DEF SignalAt, Sema!SignalPending
<1> QED
  BY <1>2, <1>3, <1>4

\* SyncInv holds throughout.
LEMMA SyncInductive == SyncSpec => []SyncInv
<1>1. SyncInit => SyncInv
  BY SemaStarts DEF SyncInv, SyncInit
<1>2. SyncInv /\ [SyncNext]_syncVars => SyncInv'
  BY SyncStep
<1> QED
  BY <1>1, <1>2, PTL DEF SyncSpec

\* No fork of check_sync.c is in two hands, and whoever has its forks eats, for
\* any number of philosophers and meals.
THEOREM ForksAreHeldOnce == SyncSpec => []ForksHeldOnce
<1>1. SyncInv => ForksHeldOnce
  BY SyncInvImplies
<1> QED
  BY <1>1, SyncInductive, PTL

\* No meal is missed: with the critical section free, somebody beside a hungry
\* philosopher eats and will look at it.
THEOREM NoMealIsMissed == SyncSpec => []HungryHasEatingNeighbour
<1>1. SyncInv => HungryHasEatingNeighbour
  BY SyncInvImplies
<1> QED
  BY <1>1, SyncInductive, PTL

\* A unit of s[i] is there, or handed to i, exactly while i eats and is not past
\* its down(): no signal of the first part is lost or left over.
THEOREM SignalsAreExact == SyncSpec => []SignalsExact
<1>1. SyncInv => SignalsExact
  BY SyncInvImplies
<1> QED
  BY <1>1, SyncInductive, PTL

=============================================================================
