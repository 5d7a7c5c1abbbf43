---------------------------- MODULE MonitorProofs ----------------------------
(***************************************************************************)
(* The safety of monitor.c under any client, for any number of threads and *)
(* condition variables: one thread is active at a time, the counters are   *)
(* right, and the semaphores implement HoareMonitor.                       *)
(***************************************************************************)
EXTENDS MonitorProps, Foundations, FiniteSetTheorems, TLAPS

\* The semaphore of the down() a thread is asleep in, or has been woken in and
\* not returned from.
DownOf == [p \in Proc |-> IF mpc[p] = "entering" THEN mutex
                          ELSE IF mpc[p] = "urgent" THEN next
                          ELSE IF mpc[p] = "waiting" THEN cv[p] ELSE NULL]

SemTypeOK ==
    /\ current \in Proc \cup {NULL}
    /\ run_list \in Seq(Proc)
    /\ wait_state \in [Proc -> {"0", "WT_KSEM", "WT_TIMER"}]
    /\ value \in [Sem -> Nat]
    /\ wait_queue \in [Sem -> Seq(Proc)]
    /\ wakeup_flags \in [Proc -> {"WT_INTERRUPTED", "WT_KSEM"}]
    /\ DownOf \in [Proc -> Sem \cup {NULL}]

\* Who has the CPU or waits for it is RUNNABLE, and there once.
CpuExact ==
    /\ Distinct(run_list)
    /\ current # NULL => wait_state[current] = "0"
    /\ \A p \in Elems(run_list) : p # current /\ wait_state[p] = "0"

\* A thread is linked into a wait queue, once, exactly while it sleeps in
\* down() of that semaphore, and nothing but up() wakes it there.
QueuesExact ==
    /\ \A s \in Sem :
        /\ Distinct(wait_queue[s])
        /\ \A p \in Proc : p \in Elems(wait_queue[s])
                               <=> wait_state[p] = "WT_KSEM" /\ DownOf[p] = s
    /\ \A p \in Proc :
        /\ wait_state[p] = "WT_KSEM" => DownOf[p] # NULL
        /\ wait_state[p] = "WT_TIMER" => DownOf[p] = NULL
        /\ DownOf[p] # NULL /\ wait_state[p] = "0" => wakeup_flags[p] = "WT_KSEM"

SemInv == SemTypeOK /\ CpuExact /\ QueuesExact

-----------------------------------------------------------------------------
\* schedule() with a queue of RUNNABLE threads.
LEMMA SwitchFacts ==
    ASSUME NEW ws, NEW queue \in Seq(Proc), Distinct(queue),
           \A p \in Elems(queue) : ws[p] = "0", Switch(queue)
    PROVE  /\ current' \in Proc \cup {NULL} /\ run_list' \in Seq(Proc)
           /\ Distinct(run_list')
           /\ current' # NULL => ws[current'] = "0"
           /\ \A p \in Elems(run_list') : p # current' /\ ws[p] = "0"
<1>1. CASE queue = <<>>
  BY <1>1, EmptyList DEF Switch
<1>2. CASE queue # <<>>
  <2>1. current' = Head(queue) /\ run_list' = Tail(queue)
    BY <1>2 DEF Switch
  <2>2. /\ Head(queue) \in Elems(queue) /\ Head(queue) \in Proc
        /\ Tail(queue) \in Seq(Proc) /\ Distinct(Tail(queue))
        /\ Elems(Tail(queue)) = Elems(queue) \ {Head(queue)}
    BY <1>2, TailList
  <2> QED
    BY <2>1, <2>2
<1> QED
  BY <1>1, <1>2

\* wakeup_proc of a thread that sleeps: it joins the run queue.
LEMMA WakeupFacts ==
    ASSUME SemInv, NEW p \in Proc, wait_state[p] # "0", Wakeup(p), current' = current
    PROVE  /\ p # current
           /\ wait_state' \in [Proc -> {"0", "WT_KSEM", "WT_TIMER"}]
           /\ wait_state'[p] = "0"
           /\ \A q \in Proc : q # p => wait_state'[q] = wait_state[q]
           /\ run_list' \in Seq(Proc)
           /\ CpuExact'
<1>0. run_list \in Seq(Proc) /\ Distinct(run_list) /\ Elems(run_list) \subseteq Proc
  BY ElemsIn DEF SemInv, SemTypeOK, CpuExact
<1>1. /\ wait_state' = [wait_state EXCEPT ![p] = "0"]
      /\ run_list' = Append(run_list, p)
  BY DEF Wakeup
<1>2. p # current /\ p \notin Elems(run_list)
  BY SemAssumption DEF SemInv, CpuExact
<1>3. /\ run_list' \in Seq(Proc)
      /\ Elems(run_list') = Elems(run_list) \cup {p}
      /\ Distinct(run_list')
  BY <1>0, <1>1, <1>2, AppendList
<1>4. /\ wait_state' \in [Proc -> {"0", "WT_KSEM", "WT_TIMER"}]
      /\ wait_state'[p] = "0"
      /\ \A q \in Proc : q # p => wait_state'[q] = wait_state[q]
  BY <1>1 DEF SemInv, SemTypeOK
<1>5. CpuExact'
  BY SemAssumption, <1>0, <1>2, <1>3, <1>4 DEF CpuExact, SemInv, SemTypeOK
<1> QED
  BY <1>2, <1>3, <1>4, <1>5

\* Who has the CPU.
LEMMA CurrentFacts ==
    ASSUME SemInv, current # NULL
    PROVE  /\ current \in Proc /\ wait_state[current] = "0"
           /\ run_list \in Seq(Proc) /\ Distinct(run_list) /\ Elems(run_list) \subseteq Proc
           /\ \A p \in Elems(run_list) : p # current /\ wait_state[p] = "0"
           /\ \A s \in Sem : current \notin Elems(wait_queue[s])
<1>1. run_list \in Seq(Proc)
  BY DEF SemInv, SemTypeOK
<1>2. Elems(run_list) \subseteq Proc
  BY <1>1, ElemsIn
<1>3. current \in Proc /\ wait_state[current] = "0"
  BY DEF SemInv, SemTypeOK, CpuExact
<1> QED
  BY <1>1, <1>2, <1>3 DEF SemInv, CpuExact, QueuesExact

\* Taking a unit, and giving one where nobody waits.
LEMMA ValueStep ==
    ASSUME SemInv, NEW s \in Sem,
           \/ Take(s)
           \/ Up(s) /\ wait_queue[s] = <<>>,
           DownOf' = DownOf
    PROVE  /\ SemInv' /\ UNCHANGED <<cpuVars, wait_queue>>
           /\ \A t \in Sem : t # s => value'[t] = value[t]
           /\ Take(s) => value[s] > 0 /\ value'[s] = value[s] - 1
           /\ Up(s) /\ wait_queue[s] = <<>> => value'[s] = value[s] + 1
<1>1. UNCHANGED <<current, run_list, wait_state, wait_queue, wakeup_flags>>
  BY DEF Take, Up, cpuVars
<1>2. value \in [Sem -> Nat]
  BY DEF SemInv, SemTypeOK
<1>3. /\ value' \in [Sem -> Nat] /\ \A t \in Sem : t # s => value'[t] = value[t]
      /\ Take(s) => value[s] > 0 /\ value'[s] = value[s] - 1
      /\ Up(s) /\ wait_queue[s] = <<>> => value'[s] = value[s] + 1
  BY <1>2 DEF Take, Up
<1>4. SemTypeOK'
  BY <1>1, <1>3 DEF SemInv, SemTypeOK
<1>5. CpuExact' /\ QueuesExact'
  BY <1>1 DEF SemInv, CpuExact, QueuesExact
<1> QED
  BY <1>1, <1>3, <1>4, <1>5 DEF SemInv, cpuVars

\* up() hands the unit to the first who waits.
LEMMA HandStep ==
    ASSUME SemInv, NEW s \in Sem, Up(s), wait_queue[s] # <<>>, DownOf' = DownOf,
           NEW p, p = Head(wait_queue[s])
    PROVE  /\ SemInv' /\ value' = value /\ current' = current
           /\ p \in Proc /\ p # current /\ wait_state[p] = "WT_KSEM" /\ DownOf[p] = s
           /\ wait_queue' = [wait_queue EXCEPT ![s] = Tail(@)]
           /\ wait_state'[p] = "0" /\ \A q \in Proc : q # p => wait_state'[q] = wait_state[q]
<1>1. /\ wait_queue[s] \in Seq(Proc) /\ Distinct(wait_queue[s])
      /\ p \in Proc /\ p \in Elems(wait_queue[s])
      /\ Tail(wait_queue[s]) \in Seq(Proc) /\ Distinct(Tail(wait_queue[s]))
      /\ Elems(Tail(wait_queue[s])) = Elems(wait_queue[s]) \ {p}
  <2>1. wait_queue[s] \in Seq(Proc) /\ Distinct(wait_queue[s])
    BY DEF SemInv, SemTypeOK, QueuesExact
  <2> QED
    BY <2>1, TailList
<1>2. /\ wait_queue' = [wait_queue EXCEPT ![s] = Tail(@)]
      /\ wakeup_flags' = [wakeup_flags EXCEPT ![p] = "WT_KSEM"]
      /\ Wakeup(p) /\ value' = value /\ current' = current
  BY DEF Up, WakeupWait
<1>3. wait_state[p] = "WT_KSEM" /\ DownOf[p] = s
  BY <1>1 DEF SemInv, QueuesExact
<1>4. /\ p # current
      /\ wait_state' \in [Proc -> {"0", "WT_KSEM", "WT_TIMER"}]
      /\ wait_state'[p] = "0"
      /\ \A q \in Proc : q # p => wait_state'[q] = wait_state[q]
      /\ run_list' \in Seq(Proc)
      /\ CpuExact'
  BY <1>1, <1>2, <1>3, WakeupFacts
<1>5. /\ wakeup_flags' \in [Proc -> {"WT_INTERRUPTED", "WT_KSEM"}]
      /\ wakeup_flags'[p] = "WT_KSEM"
      /\ \A q \in Proc : q # p => wakeup_flags'[q] = wakeup_flags[q]
  BY <1>1, <1>2 DEF SemInv, SemTypeOK
<1>6. /\ wait_queue' \in [Sem -> Seq(Proc)] /\ wait_queue'[s] = Tail(wait_queue[s])
      /\ \A t \in Sem : t # s => wait_queue'[t] = wait_queue[t]
  BY <1>1, <1>2 DEF SemInv, SemTypeOK
<1>7. SemTypeOK'
  BY <1>2, <1>4, <1>5, <1>6 DEF SemInv, SemTypeOK
<1>8. QueuesExact'
  <2>1. \A t \in Sem : Distinct(wait_queue'[t])
    BY <1>1, <1>6 DEF SemInv, QueuesExact
  <2>2. ASSUME NEW t \in Sem, NEW q \in Proc
        PROVE  q \in Elems(wait_queue'[t]) <=> wait_state'[q] = "WT_KSEM" /\ DownOf'[q] = t
    <3>1. q \in Elems(wait_queue[t]) <=> wait_state[q] = "WT_KSEM" /\ DownOf[q] = t
      BY DEF SemInv, QueuesExact
    <3> QED
      BY <3>1, <1>1, <1>3, <1>4, <1>6
  <2>3. ASSUME NEW q \in Proc
        PROVE  /\ wait_state'[q] = "WT_KSEM" => DownOf'[q] # NULL
               /\ wait_state'[q] = "WT_TIMER" => DownOf'[q] = NULL
               /\ DownOf'[q] # NULL /\ wait_state'[q] = "0" => wakeup_flags'[q] = "WT_KSEM"
    BY <1>4, <1>5 DEF SemInv, QueuesExact
  <2> QED
    BY <2>1, <2>2, <2>3 DEF QueuesExact
<1> QED
  BY <1>1, <1>2, <1>3, <1>4, <1>7, <1>8 DEF SemInv

\* down() that finds no unit: the thread goes to sleep at the end of the queue.
LEMMA BlockStep ==
    ASSUME SemInv, NEW s \in Sem, current # NULL, Block(s),
           DownOf[current] = NULL, DownOf' = [DownOf EXCEPT ![current] = s]
    PROVE  /\ SemInv' /\ value' = value /\ value[s] = 0
           /\ wait_queue' = [wait_queue EXCEPT ![s] = Append(@, current)]
           /\ current \in Proc /\ wait_state'[current] = "WT_KSEM" /\ current' # current
           /\ \A q \in Proc : q # current => wait_state'[q] = wait_state[q]
<1>1. /\ current \in Proc /\ wait_state[current] = "0"
      /\ run_list \in Seq(Proc) /\ Distinct(run_list) /\ Elems(run_list) \subseteq Proc
      /\ \A p \in Elems(run_list) : p # current /\ wait_state[p] = "0"
      /\ current \notin Elems(wait_queue[s])
  BY CurrentFacts
<1>2. /\ value[s] = 0 /\ value' = value
      /\ wait_state' = [wait_state EXCEPT ![current] = "WT_KSEM"]
      /\ wakeup_flags' = [wakeup_flags EXCEPT ![current] = "WT_INTERRUPTED"]
      /\ wait_queue' = [wait_queue EXCEPT ![s] = Append(@, current)]
      /\ Switch(run_list)
  BY DEF Block, WaitCurrentSet
<1>3. /\ wait_state' \in [Proc -> {"0", "WT_KSEM", "WT_TIMER"}]
      /\ wakeup_flags' \in [Proc -> {"WT_INTERRUPTED", "WT_KSEM"}]
      /\ DownOf' \in [Proc -> Sem \cup {NULL}]
      /\ wait_state'[current] = "WT_KSEM" /\ DownOf'[current] = s
      /\ \A q \in Proc : q # current => /\ wait_state'[q] = wait_state[q]
                                       /\ wakeup_flags'[q] = wakeup_flags[q]
                                       /\ DownOf'[q] = DownOf[q]
  BY <1>1, <1>2 DEF SemInv, SemTypeOK
<1>4. /\ Append(wait_queue[s], current) \in Seq(Proc)
      /\ Elems(Append(wait_queue[s], current)) = Elems(wait_queue[s]) \cup {current}
      /\ Distinct(Append(wait_queue[s], current))
  <2>1. wait_queue[s] \in Seq(Proc) /\ Distinct(wait_queue[s])
    BY DEF SemInv, SemTypeOK, QueuesExact
  <2> QED
    BY <1>1, <2>1, AppendList
<1>5. /\ wait_queue' \in [Sem -> Seq(Proc)] /\ wait_queue'[s] = Append(wait_queue[s], current)
      /\ \A t \in Sem : t # s => wait_queue'[t] = wait_queue[t]
  BY <1>2, <1>4 DEF SemInv, SemTypeOK
<1>6. /\ current' \in Proc \cup {NULL} /\ run_list' \in Seq(Proc)
      /\ Distinct(run_list')
      /\ current' # NULL => wait_state'[current'] = "0"
      /\ \A p \in Elems(run_list') : p # current' /\ wait_state'[p] = "0"
  <2>1. \A p \in Elems(run_list) : wait_state'[p] = "0"
    BY <1>1, <1>3
  <2> QED
    BY <1>1, <1>2, <2>1, SwitchFacts
<1>7. SemTypeOK' /\ CpuExact' /\ current' # current
  BY <1>1, <1>2, <1>3, <1>5, <1>6 DEF SemInv, SemTypeOK, CpuExact
<1>8. QueuesExact'
  <2>1. \A t \in Sem : Distinct(wait_queue'[t])
    <3>1. \A t \in Sem : Distinct(wait_queue[t])
      BY DEF SemInv, QueuesExact
    <3> QED
      BY <1>4, <1>5, <3>1
  <2>2. ASSUME NEW t \in Sem, NEW q \in Proc
        PROVE  q \in Elems(wait_queue'[t]) <=> wait_state'[q] = "WT_KSEM" /\ DownOf'[q] = t
    <3>1. q \in Elems(wait_queue[t]) <=> wait_state[q] = "WT_KSEM" /\ DownOf[q] = t
      BY DEF SemInv, QueuesExact
    <3>2. CASE t = s
      BY <3>1, <3>2, <1>1, <1>3, <1>4, <1>5
    <3>3. CASE t # s
      BY <3>1, <3>3, <1>1, <1>3, <1>5
    <3> QED
      BY <3>2, <3>3
  <2>3. ASSUME NEW q \in Proc
        PROVE  /\ wait_state'[q] = "WT_KSEM" => DownOf'[q] # NULL
               /\ wait_state'[q] = "WT_TIMER" => DownOf'[q] = NULL
               /\ DownOf'[q] # NULL /\ wait_state'[q] = "0" => wakeup_flags'[q] = "WT_KSEM"
    BY SemAssumption, <1>3 DEF SemInv, QueuesExact
  <2> QED
    BY <2>1, <2>2, <2>3 DEF QueuesExact
<1> QED
  BY <1>1, <1>2, <1>3, <1>7, <1>8 DEF SemInv

\* A thread that gets the CPU inside down() was woken by up(), and is on no
\* wait queue any more.
LEMMA ReturnStep ==
    ASSUME SemInv, current # NULL, DownOf[current] # NULL, Unblock(DownOf[current]),
           DownOf' = [DownOf EXCEPT ![current] = NULL]
    PROVE  /\ SemInv' /\ UNCHANGED <<cpuVars, value, wait_queue>>
           /\ WokenByUp /\ current \in Proc /\ wait_state[current] = "0"
<1> DEFINE s == DownOf[current]
<1>1. /\ current \in Proc /\ wait_state[current] = "0"
      /\ s \in Sem /\ wakeup_flags[current] = "WT_KSEM"
      /\ current \notin Elems(wait_queue[s]) /\ wait_queue[s] \in Seq(Proc)
  BY CurrentFacts DEF SemInv, SemTypeOK, QueuesExact
<1>2. /\ wait_queue' = [wait_queue EXCEPT ![s] = Keep(@, Proc \ {current})]
      /\ UNCHANGED <<value, wakeup_flags, current, run_list, wait_state>>
  BY DEF Unblock, cpuVars
<1> HIDE DEF s
<1>3. Keep(wait_queue[s], Proc \ {current}) = wait_queue[s]
  <2>1. Elems(wait_queue[s]) \subseteq Proc \ {current}
    BY <1>1, ElemsIn
  <2> QED
    BY <1>1, <2>1, KeepList
<1>4. wait_queue' = wait_queue
  BY <1>1, <1>2, <1>3 DEF SemInv, SemTypeOK
<1>5. DownOf'[current] = NULL /\ \A q \in Proc : q # current => DownOf'[q] = DownOf[q]
  BY <1>1 DEF SemInv, SemTypeOK
<1>6. DownOf' \in [Proc -> Sem \cup {NULL}]
  BY DEF SemInv, SemTypeOK
<1>7. SemTypeOK' /\ CpuExact'
  BY <1>2, <1>4, <1>6 DEF SemInv, SemTypeOK, CpuExact
<1>8. QueuesExact'
  <2>1. ASSUME NEW t \in Sem, NEW q \in Proc
        PROVE  q \in Elems(wait_queue'[t]) <=> wait_state'[q] = "WT_KSEM" /\ DownOf'[q] = t
    <3>1. q \in Elems(wait_queue[t]) <=> wait_state[q] = "WT_KSEM" /\ DownOf[q] = t
      BY DEF SemInv, QueuesExact
    <3> QED
      BY SemAssumption, <3>1, <1>1, <1>2, <1>4, <1>5
  <2>2. ASSUME NEW q \in Proc
        PROVE  /\ wait_state'[q] = "WT_KSEM" => DownOf'[q] # NULL
               /\ wait_state'[q] = "WT_TIMER" => DownOf'[q] = NULL
               /\ DownOf'[q] # NULL /\ wait_state'[q] = "0" => wakeup_flags'[q] = "WT_KSEM"
    BY <1>1, <1>2, <1>5 DEF SemInv, QueuesExact
  <2> QED
    BY <2>1, <2>2, <1>4 DEF SemInv, QueuesExact
<1> QED
  BY <1>1, <1>2, <1>4, <1>7, <1>8 DEF SemInv, WokenByUp, cpuVars

\* Sleeping, waking from it, and giving up the CPU touch no semaphore.
LEMMA CpuStep ==
    ASSUME SemInv, DownOf' = DownOf,
           \/ current # NULL /\ DownOf[current] = NULL /\ StartSleep
           \/ \E p \in Proc : TimerFires(p)
           \/ IdleSchedules
           \/ Switch(run_list) /\ UNCHANGED <<wait_state, semVars>>
    PROVE  /\ SemInv' /\ UNCHANGED semVars
           /\ \A p \in Proc : wait_state'[p] = "WT_KSEM" <=> wait_state[p] = "WT_KSEM"
           /\ \A p \in Proc : DownOf[p] # NULL => wait_state'[p] = wait_state[p]
<1>0. /\ run_list \in Seq(Proc) /\ Distinct(run_list) /\ Elems(run_list) \subseteq Proc
      /\ \A p \in Elems(run_list) : p # current /\ wait_state[p] = "0"
      /\ wait_state \in [Proc -> {"0", "WT_KSEM", "WT_TIMER"}]
  BY ElemsIn DEF SemInv, SemTypeOK, CpuExact
<1>1. UNCHANGED <<value, wait_queue, wakeup_flags>>
  BY DEF semVars, StartSleep, TimerFires, IdleSchedules
<1> DEFINE CpuOK == /\ current' \in Proc \cup {NULL} /\ run_list' \in Seq(Proc)
                    /\ wait_state' \in [Proc -> {"0", "WT_KSEM", "WT_TIMER"}]
                    /\ CpuExact'
           Kept == \A p \in Proc :
                     /\ wait_state'[p] = "WT_KSEM" <=> wait_state[p] = "WT_KSEM"
                     /\ wait_state'[p] = "WT_TIMER" => DownOf[p] = NULL
                     /\ DownOf[p] # NULL => wait_state'[p] = wait_state[p]
<1>2. ASSUME current # NULL, DownOf[current] = NULL, StartSleep PROVE CpuOK /\ Kept
  <2>1. /\ wait_state' = [wait_state EXCEPT ![current] = "WT_TIMER"]
        /\ Switch(run_list)
    BY <1>2 DEF StartSleep
  <2>2. current \in Proc /\ wait_state[current] = "0"
    BY <1>2, CurrentFacts
  <2>3. \A p \in Elems(run_list) : wait_state'[p] = "0"
    BY <1>0, <2>1, <2>2
  <2>4. /\ current' \in Proc \cup {NULL} /\ run_list' \in Seq(Proc)
        /\ Distinct(run_list')
        /\ current' # NULL => wait_state'[current'] = "0"
        /\ \A p \in Elems(run_list') : p # current' /\ wait_state'[p] = "0"
    BY <1>0, <2>1, <2>3, SwitchFacts
  <2>5. Kept
    BY <1>0, <1>2, <2>1, <2>2 DEF SemInv, QueuesExact
  <2> QED
    BY <1>0, <2>1, <2>4, <2>5 DEF CpuExact
<1>3. ASSUME NEW p \in Proc, TimerFires(p) PROVE CpuOK /\ Kept
  <2>1. wait_state[p] = "WT_TIMER" /\ Wakeup(p) /\ current' = current
    BY <1>3 DEF TimerFires
  <2>2. /\ wait_state' \in [Proc -> {"0", "WT_KSEM", "WT_TIMER"}]
        /\ wait_state'[p] = "0"
        /\ \A q \in Proc : q # p => wait_state'[q] = wait_state[q]
        /\ run_list' \in Seq(Proc)
        /\ CpuExact'
    BY <2>1, WakeupFacts
  <2> QED
    BY <2>1, <2>2 DEF SemInv, SemTypeOK, QueuesExact
<1>4. ASSUME Switch(run_list), wait_state' = wait_state PROVE CpuOK /\ Kept
  <2>1. /\ current' \in Proc \cup {NULL} /\ run_list' \in Seq(Proc)
        /\ Distinct(run_list')
        /\ current' # NULL => wait_state[current'] = "0"
        /\ \A p \in Elems(run_list') : p # current' /\ wait_state[p] = "0"
    BY <1>0, <1>4, SwitchFacts
  <2> QED
    BY <1>0, <1>4, <2>1 DEF SemInv, QueuesExact, CpuExact
<1>5. CpuOK /\ Kept
  <2> HIDE DEF CpuOK, Kept
  <2> QED
    BY <1>2, <1>3, <1>4 DEF IdleSchedules
<1>6. SemTypeOK'
  BY <1>1, <1>5 DEF SemInv, SemTypeOK
<1>7. QueuesExact'
  BY <1>1, <1>5 DEF SemInv, QueuesExact
<1> QED
  BY <1>1, <1>5, <1>6, <1>7 DEF SemInv, semVars

-----------------------------------------------------------------------------
Places == {"out", "entering", "in", "signalled", "urgent", "released", "waiting"}

\* Where a thread is: in the middle of cond_signal and cond_wait it has the
\* CPU, and nobody is in the monitor.
PlaceExact ==
    /\ mpc \in [Proc -> Places] /\ cv \in [Proc -> Cv \cup {NULL}]
    /\ \A p \in Proc :
        /\ cv[p] # NULL <=> mpc[p] \in {"released", "waiting"}
        /\ mpc[p] \in {"signalled", "released"} => p = current /\ \A q \in Proc : mpc[q] # "in"

\* The right to be active is one token, at the door or with one thread; the
\* other semaphores never have a unit, and nobody waits at an open door.
TokenExact ==
    /\ \A s \in Sem \ {mutex} : value[s] = 0
    /\ wait_queue[mutex] # <<>> => value[mutex] = 0
    /\ \/ Active = {} /\ value[mutex] = 1
       \/ value[mutex] = 0 /\ \E a \in Proc : Active = {a}

\* What the counters of monitor.c count, at any time
SteppedBack == {p \in Proc : mpc[p] \in {"signalled", "urgent"}}
InWait == [c \in Cv |-> {p \in Proc : cv[p] = c}]
Counting ==
    /\ next_count = Cardinality(SteppedBack)
    /\ count = [c \in Cv |-> Cardinality(InWait[c])]

MonInv == SemInv /\ PlaceExact /\ TokenExact /\ Counting

-----------------------------------------------------------------------------
\* The names of the semaphores.
LEMMA Names ==
    /\ mutex \in Sem /\ next \in Sem /\ mutex # next /\ NULL \notin Sem /\ NULL \notin Proc
    /\ Cv \subseteq Sem /\ mutex \notin Cv /\ next \notin Cv /\ IsFiniteSet(Proc)
BY SemAssumption, MonitorAssumption

\* When a thread is in the monitor, nobody else is active, so everybody who is
\* inside a down() sleeps there and the counters say how many.
LEMMA InFacts ==
    ASSUME MonInv, NEW p \in Proc, mpc[p] = "in"
    PROVE  /\ Active = {p} /\ value[mutex] = 0
           /\ \A q \in Proc : /\ mpc[q] = "in" => q = p
                              /\ mpc[q] \notin {"signalled", "released"}
                              /\ DownOf[q] # NULL => wait_state[q] = "WT_KSEM"
           /\ SteppedBack = Elems(wait_queue[next])
           /\ next_count = Len(wait_queue[next])
           /\ \A c \in Cv : InWait[c] = Elems(wait_queue[c]) /\ count[c] = Len(wait_queue[c])
<1>1. Active = {p} /\ value[mutex] = 0
  BY DEF MonInv, TokenExact, Active
<1>2. \A q \in Proc : /\ mpc[q] \in Places /\ (mpc[q] = "in" => q = p)
                      /\ mpc[q] \notin {"signalled", "released"}
  BY <1>1 DEF MonInv, PlaceExact, Active
<1>3. \A q \in Proc : /\ DownOf[q] # NULL <=> mpc[q] \in {"entering", "urgent", "waiting"}
                      /\ mpc[q] = "urgent" <=> DownOf[q] = next
                      /\ \A c \in Cv : DownOf[q] = c <=> cv[q] = c
  BY <1>2, Names DEF MonInv, PlaceExact, DownOf
<1>4. \A q \in Proc : DownOf[q] # NULL => wait_state[q] = "WT_KSEM"
  <2> SUFFICES ASSUME NEW q \in Proc, DownOf[q] # NULL PROVE wait_state[q] = "WT_KSEM"
    OBVIOUS
  <2>1. wait_state[q] \in {"0", "WT_KSEM"}
    BY DEF MonInv, SemInv, SemTypeOK, QueuesExact
  <2>2. wait_state[q] # "0"
    BY <1>1, <1>3 DEF Active, Granted
  <2> QED
    BY <2>1, <2>2
<1>5. \A s \in Sem : \A q \in Proc : q \in Elems(wait_queue[s]) <=> DownOf[q] = s
  BY <1>4, Names DEF MonInv, SemInv, QueuesExact
<1>6. \A s \in Sem : /\ wait_queue[s] \in Seq(Proc) /\ Elems(wait_queue[s]) \subseteq Proc
                     /\ Cardinality(Elems(wait_queue[s])) = Len(wait_queue[s])
  <2> SUFFICES ASSUME NEW s \in Sem
               PROVE  /\ wait_queue[s] \in Seq(Proc) /\ Elems(wait_queue[s]) \subseteq Proc
                      /\ Cardinality(Elems(wait_queue[s])) = Len(wait_queue[s])
    OBVIOUS
  <2>1. wait_queue[s] \in Seq(Proc) /\ Distinct(wait_queue[s])
    BY DEF MonInv, SemInv, SemTypeOK, QueuesExact
  <2> QED
    BY <2>1, ElemsIn, DistinctLength
<1>7. SteppedBack = Elems(wait_queue[next])
  BY <1>2, <1>3, <1>5, <1>6, Names DEF SteppedBack
<1>8. \A c \in Cv : InWait[c] = Elems(wait_queue[c])
  BY <1>3, <1>5, <1>6, Names DEF InWait
<1> QED
  BY <1>1, <1>2, <1>4, <1>6, <1>7, <1>8, Names DEF MonInv, Counting

-----------------------------------------------------------------------------
\* The abstract state, where the token and the places of threads are known.
LEMMA HolderIs ==
    /\ Active = {} => Holder = NULL
    /\ \A a : Active = {a} => Holder = a
    /\ Active' = {} => Holder' = NULL
    /\ \A a : Active' = {a} => Holder' = a
BY DEF Holder

\* Nobody in the middle of cond_signal or cond_wait
Quiet == \A p \in Proc : mpc[p] \notin {"signalled", "released"}

\* The queues of HoareMonitor while nobody is half way.
LEMMA QueuesAre ==
    ASSUME current \in Proc \cup {NULL}, current' \in Proc \cup {NULL}
    PROVE  /\ Quiet => Back = wait_queue[next] /\ Asleep = [c \in Cv |-> wait_queue[c]]
           /\ Quiet' => Back' = wait_queue'[next] /\ Asleep' = [c \in Cv |-> wait_queue'[c]]
BY Names DEF Quiet, Back, Asleep, Is

\* Who is inside a down(), where mpc is known.
LEMMA DownIs ==
    ASSUME PlaceExact
    PROVE  \A p \in Proc :
             /\ DownOf[p] # NULL <=> mpc[p] \in {"entering", "urgent", "waiting"}
             /\ mpc[p] = "entering" => DownOf[p] = mutex
             /\ mpc[p] = "urgent" => DownOf[p] = next
             /\ mpc[p] = "waiting" => DownOf[p] = cv[p] /\ cv[p] \in Cv
BY Names DEF PlaceExact, DownOf

\* A thread outside monitor.c is in no down(), and nobody else is half way.
LEMMA AtFacts ==
    ASSUME MonInv, NEW l \in {"out", "in"}, Is(l)
    PROVE  /\ current # NULL /\ current \in Proc /\ mpc[current] = l /\ wait_state[current] = "0"
           /\ DownOf[current] = NULL /\ cv[current] = NULL /\ Quiet
<1>1. current # NULL /\ current \in Proc /\ mpc[current] = l /\ wait_state[current] = "0"
  BY CurrentFacts DEF MonInv, Is
<1> QED
  BY <1>1, DownIs DEF MonInv, PlaceExact, Quiet

\* Steps of the scheduler alone: nobody comes to be active or stops.
LEMMA CpuOnlyStep ==
    ASSUME MonInv, UNCHANGED <<next_count, count, mpc, cv>>,
           \/ /\ Is("out") \/ Is("in")
              /\ \/ StartSleep
                 \/ Switch(run_list) /\ UNCHANGED <<wait_state, semVars>>
           \/ \E p \in Proc : TimerFires(p)
           \/ IdleSchedules
    PROVE  MonInv' /\ UNCHANGED Hoare!vars
<1>0. SemInv /\ PlaceExact /\ TokenExact /\ Counting
  BY DEF MonInv
<1>1. DownOf' = DownOf
  BY DEF DownOf
<1>2. \/ current # NULL /\ DownOf[current] = NULL /\ StartSleep
      \/ \E p \in Proc : TimerFires(p)
      \/ IdleSchedules
      \/ Switch(run_list) /\ UNCHANGED <<wait_state, semVars>>
  BY AtFacts
<1>3. /\ SemInv' /\ UNCHANGED semVars
      /\ \A p \in Proc : DownOf[p] # NULL => wait_state'[p] = wait_state[p]
  <2> HIDE DEF MonInv
  <2> QED
    BY <1>0, <1>1, <1>2, CpuStep
<1>4. current' = current \/ Quiet
  <2>1. ASSUME Is("out") \/ Is("in") PROVE Quiet
    BY <2>1, AtFacts
  <2>2. ASSUME NEW p \in Proc, TimerFires(p) PROVE current' = current
    BY <2>2 DEF TimerFires
  <2>3. ASSUME IdleSchedules PROVE Quiet
    BY <2>3, <1>0, Names DEF IdleSchedules, PlaceExact, Quiet
  <2> QED
    BY <2>1, <2>2, <2>3
<1>5. PlaceExact'
  BY <1>0, <1>4 DEF PlaceExact, Quiet
<1>6. Active' = Active
  BY <1>0, <1>3, DownIs DEF Active, Granted
<1>7. TokenExact'
  BY <1>0, <1>3, <1>6 DEF TokenExact, semVars
<1>8. Counting'
  BY <1>0 DEF Counting, SteppedBack, InWait
<1>9. Holder' = Holder
  BY <1>6 DEF Holder
<1>10. Back' = Back /\ Asleep' = Asleep
  <2>1. current \in Proc \cup {NULL} /\ current' \in Proc \cup {NULL}
    BY <1>0, <1>3 DEF SemInv, SemTypeOK
  <2>2. CASE Quiet
    <3>1. Quiet'
      BY <2>2 DEF Quiet
    <3> QED
      BY <2>1, <2>2, <3>1, <1>3, QueuesAre DEF semVars
  <2>3. CASE current' = current
    BY <2>3, <1>3 DEF Back, Asleep, Is, semVars
  <2> QED
    BY <1>4, <2>2, <2>3
<1> QED
  BY <1>0, <1>3, <1>5, <1>7, <1>8, <1>9, <1>10 DEF MonInv, Hoare!vars, semVars

\* The door is open: the thread is active.
LEMMA EnterTakes ==
    ASSUME MonInv, Is("out"), Take(mutex), mpc' = [mpc EXCEPT ![current] = "in"],
           UNCHANGED <<next_count, count, cv>>
    PROVE  MonInv' /\ Hoare!Enter(current)
<1>0. SemInv /\ PlaceExact /\ TokenExact /\ Counting
  BY DEF MonInv
<1>1. /\ current # NULL /\ current \in Proc /\ mpc[current] = "out" /\ wait_state[current] = "0"
      /\ DownOf[current] = NULL /\ cv[current] = NULL /\ Quiet
  BY AtFacts
<1>2. /\ mpc' \in [Proc -> Places] /\ mpc'[current] = "in"
      /\ \A p \in Proc : p # current => mpc'[p] = mpc[p]
  BY <1>0, <1>1 DEF PlaceExact, Places
<1>3. DownOf' = DownOf
  BY <1>1, <1>2 DEF DownOf
<1>4. /\ SemInv' /\ UNCHANGED <<cpuVars, wait_queue>>
      /\ \A t \in Sem : t # mutex => value'[t] = value[t]
      /\ value[mutex] > 0 /\ value'[mutex] = value[mutex] - 1
  <2> HIDE DEF MonInv
  <2> QED
    BY <1>0, <1>3, Names, ValueStep
<1>5. Active = {} /\ value[mutex] = 1
  BY <1>0, <1>4 DEF TokenExact
<1>6. Active' = {current}
  BY <1>1, <1>2, <1>4, <1>5 DEF Active, Granted, cpuVars
<1>7. PlaceExact' /\ Quiet'
  BY <1>0, <1>1, <1>2 DEF PlaceExact, Quiet
<1>8. TokenExact'
  BY <1>0, <1>1, <1>4, <1>5, <1>6 DEF TokenExact
<1>9. Counting'
  <2>1. SteppedBack' = SteppedBack /\ InWait' = InWait
    BY <1>1, <1>2 DEF SteppedBack, InWait
  <2> QED
    BY <1>0, <2>1 DEF Counting
<1>10. Hoare!Enter(current)
  <2>1. Back' = Back /\ Asleep' = Asleep
    BY <1>0, <1>1, <1>4, <1>7, QueuesAre DEF SemInv, SemTypeOK
  <2>2. Holder = NULL /\ Holder' = current
    BY <1>5, <1>6, HolderIs
  <2> QED
    BY <1>1, <1>4, <2>1, <2>2 DEF Hoare!Enter
<1> QED
  BY <1>4, <1>7, <1>8, <1>9, <1>10 DEF MonInv

\* The door is closed: the thread goes to the end of the queue before it.
LEMMA EnterBlocks ==
    ASSUME MonInv, Is("out"), Block(mutex), mpc' = [mpc EXCEPT ![current] = "entering"],
           UNCHANGED <<next_count, count, cv>>
    PROVE  MonInv' /\ Hoare!Enter(current)
<1>0. SemInv /\ PlaceExact /\ TokenExact /\ Counting
  BY DEF MonInv
<1>1. /\ current # NULL /\ current \in Proc /\ mpc[current] = "out" /\ wait_state[current] = "0"
      /\ DownOf[current] = NULL /\ cv[current] = NULL /\ Quiet
  BY AtFacts
<1>2. /\ mpc' \in [Proc -> Places] /\ mpc'[current] = "entering"
      /\ \A p \in Proc : p # current => mpc'[p] = mpc[p]
  BY <1>0, <1>1 DEF PlaceExact, Places
<1>3. DownOf' = [DownOf EXCEPT ![current] = mutex]
  BY <1>1, <1>2 DEF DownOf
<1>4. /\ SemInv' /\ value' = value /\ value[mutex] = 0
      /\ wait_queue' = [wait_queue EXCEPT ![mutex] = Append(@, current)]
      /\ wait_state'[current] = "WT_KSEM" /\ current' # current
      /\ \A q \in Proc : q # current => wait_state'[q] = wait_state[q]
  <2> HIDE DEF MonInv
  <2> QED
    BY <1>0, <1>1, <1>3, Names, BlockStep
<1>5. /\ wait_queue'[mutex] = Append(wait_queue[mutex], current)
      /\ \A s \in Sem : s # mutex => wait_queue'[s] = wait_queue[s]
  BY <1>0, <1>4, Names DEF SemInv, SemTypeOK
<1>6. Active' = Active
  BY <1>1, <1>2, <1>4 DEF Active, Granted
<1>7. PICK a \in Proc : Active = {a}
  BY <1>0, <1>4 DEF TokenExact
<1>8. a # current
  BY <1>1, <1>7 DEF Active, Granted
<1>9. PlaceExact' /\ Quiet'
  BY <1>0, <1>1, <1>2 DEF PlaceExact, Quiet
<1>10. TokenExact'
  BY <1>0, <1>4, <1>6 DEF TokenExact
<1>11. Counting'
  <2>1. SteppedBack' = SteppedBack /\ InWait' = InWait
    BY <1>1, <1>2 DEF SteppedBack, InWait
  <2> QED
    BY <1>0, <2>1 DEF Counting
<1>12. Hoare!Enter(current)
  <2>1. Back' = Back /\ Asleep' = Asleep
    BY <1>0, <1>1, <1>4, <1>5, <1>9, QueuesAre, Names DEF SemInv, SemTypeOK
  <2>2. Holder = a /\ Holder' = a
    BY <1>6, <1>7, HolderIs
  <2> QED
    BY <1>5, <1>7, <1>8, <2>1, <2>2, Names DEF Hoare!Enter
<1> QED
  BY <1>4, <1>9, <1>10, <1>11, <1>12 DEF MonInv

\* A thread that was woken in one of the three downs has the token already; it
\* is in the monitor when it gets the CPU.
LEMMA ComesBack ==
    ASSUME MonInv, NEW l \in {"entering", "urgent", "waiting"}, Is(l),
           Unblock(DownOf[current]),
           mpc' = [mpc EXCEPT ![current] = IF WokenByUp THEN "in" ELSE "panic"],
           cv' = [cv EXCEPT ![current] = NULL]
    PROVE  /\ SemInv' /\ PlaceExact' /\ TokenExact' /\ UNCHANGED Hoare!vars
           /\ current \in Proc /\ mpc[current] = l /\ mpc'[current] = "in" /\ cv'[current] = NULL
           /\ \A p \in Proc : p # current => mpc'[p] = mpc[p] /\ cv'[p] = cv[p]
<1>0. SemInv /\ PlaceExact /\ TokenExact /\ Counting
  BY DEF MonInv
<1>1. current # NULL /\ current \in Proc /\ mpc[current] = l /\ DownOf[current] # NULL
  BY <1>0, CurrentFacts, DownIs DEF Is
<1>2. WokenByUp
  BY <1>0, <1>1, CurrentFacts DEF SemInv, QueuesExact, WokenByUp
<1>3. /\ mpc' \in [Proc -> Places] /\ mpc'[current] = "in"
      /\ cv' \in [Proc -> Cv \cup {NULL}] /\ cv'[current] = NULL
      /\ \A p \in Proc : p # current => mpc'[p] = mpc[p] /\ cv'[p] = cv[p]
  BY <1>0, <1>1, <1>2 DEF PlaceExact, Places
<1>4. DownOf' = [DownOf EXCEPT ![current] = NULL]
  BY <1>1, <1>3 DEF DownOf
<1>5. /\ SemInv' /\ UNCHANGED <<cpuVars, value, wait_queue>>
      /\ wait_state[current] = "0"
  <2> HIDE DEF MonInv
  <2> QED
    BY <1>0, <1>1, <1>4, ReturnStep
<1>6. current \in Active
  BY <1>1, <1>5 DEF Active, Granted
<1>7. Active = {current} /\ value[mutex] = 0
  BY <1>0, <1>6 DEF TokenExact
<1>8. Active' = {current}
  BY <1>1, <1>3, <1>5, <1>7 DEF Active, Granted, cpuVars
<1>9. Quiet
  <2> SUFFICES ASSUME NEW p \in Proc, mpc[p] \in {"signalled", "released"} PROVE FALSE
    BY DEF Quiet
  <2>1. p = current
    BY <1>0 DEF PlaceExact
  <2> QED
    BY <1>1, <2>1
<1>10. PlaceExact' /\ Quiet'
  BY <1>0, <1>1, <1>3, <1>9 DEF PlaceExact, Quiet
<1>11. TokenExact'
  BY <1>0, <1>1, <1>5, <1>7, <1>8 DEF TokenExact
<1>12. Back' = Back /\ Asleep' = Asleep
  BY <1>0, <1>5, <1>9, <1>10, QueuesAre DEF SemInv, SemTypeOK
<1>13. Holder' = Holder
  BY <1>7, <1>8, HolderIs
<1> QED
  BY <1>1, <1>3, <1>5, <1>10, <1>11, <1>12, <1>13 DEF Hoare!vars

\* The counts when one thread has come or gone.
LEMMA OneMore ==
    ASSUME NEW S \in SUBSET Proc, NEW x
    PROVE  /\ Cardinality(S) \in Nat
           /\ x \in S => Cardinality(S \ {x}) = Cardinality(S) - 1
           /\ x \notin S => Cardinality(S \cup {x}) = Cardinality(S) + 1
<1>1. IsFiniteSet(S)
  BY Names, FS_Subset
<1> QED
  BY <1>1, FS_CardinalityType, FS_RemoveElement, FS_AddElement

\* down(&mtp->mutex) returns.
LEMMA EnterEndsStep ==
    ASSUME MonInv, EnterEnds
    PROVE  MonInv' /\ UNCHANGED Hoare!vars
<1>0. SemInv /\ PlaceExact /\ TokenExact /\ Counting
  BY DEF MonInv
<1>1. /\ Is("entering") /\ Unblock(mutex) /\ UNCHANGED <<next_count, count, cv>>
      /\ mpc' = [mpc EXCEPT ![current] = IF WokenByUp THEN "in" ELSE "panic"]
  BY DEF EnterEnds, DownEnds
<1>2. current \in Proc /\ mpc[current] = "entering"
  BY <1>0, <1>1, CurrentFacts DEF Is
<1>3. DownOf[current] = mutex /\ cv[current] = NULL
  BY <1>0, <1>2, DownIs DEF PlaceExact
<1>4. cv' = [cv EXCEPT ![current] = NULL]
  BY <1>0, <1>1, <1>2, <1>3 DEF PlaceExact
<1>5. /\ SemInv' /\ PlaceExact' /\ TokenExact' /\ UNCHANGED Hoare!vars
      /\ mpc'[current] = "in"
      /\ \A p \in Proc : p # current => mpc'[p] = mpc[p]
  BY <1>1, <1>3, <1>4, ComesBack
<1>6. SteppedBack' = SteppedBack /\ InWait' = InWait
  BY <1>1, <1>2, <1>5 DEF SteppedBack, InWait
<1>7. Counting'
  BY <1>0, <1>1, <1>6 DEF Counting
<1> QED
  BY <1>5, <1>7 DEF MonInv

\* down(&mtp->next) of cond_signal returns: one signaller less has stepped back.
LEMMA StepBackEndsStep ==
    ASSUME MonInv, StepBackEnds
    PROVE  MonInv' /\ UNCHANGED Hoare!vars
<1>0. SemInv /\ PlaceExact /\ TokenExact /\ Counting
  BY DEF MonInv
<1>1. /\ Is("urgent") /\ Unblock(next) /\ UNCHANGED <<count, cv>> /\ next_count' = next_count - 1
      /\ mpc' = [mpc EXCEPT ![current] = IF WokenByUp THEN "in" ELSE "panic"]
  BY DEF StepBackEnds, DownEnds
<1>2. current \in Proc /\ mpc[current] = "urgent"
  BY <1>0, <1>1, CurrentFacts DEF Is
<1>3. DownOf[current] = next /\ cv[current] = NULL
  BY <1>0, <1>2, DownIs DEF PlaceExact
<1>4. cv' = [cv EXCEPT ![current] = NULL]
  BY <1>0, <1>1, <1>2, <1>3 DEF PlaceExact
<1>5. /\ SemInv' /\ PlaceExact' /\ TokenExact' /\ UNCHANGED Hoare!vars
      /\ mpc'[current] = "in"
      /\ \A p \in Proc : p # current => mpc'[p] = mpc[p]
  BY <1>1, <1>3, <1>4, ComesBack
<1>6. /\ SteppedBack' = SteppedBack \ {current} /\ InWait' = InWait
      /\ current \in SteppedBack /\ SteppedBack \subseteq Proc
  BY <1>1, <1>2, <1>5 DEF SteppedBack, InWait
<1>7. Cardinality(SteppedBack \ {current}) = Cardinality(SteppedBack) - 1
  BY <1>6, OneMore
<1>8. Counting'
  BY <1>0, <1>1, <1>6, <1>7 DEF Counting
<1> QED
  BY <1>5, <1>8 DEF MonInv

\* down(&cvp->sem) of cond_wait returns: one waiter less.
LEMMA WaitEndsStep ==
    ASSUME MonInv, WaitEnds
    PROVE  MonInv' /\ UNCHANGED Hoare!vars
<1>0. SemInv /\ PlaceExact /\ TokenExact /\ Counting
  BY DEF MonInv
<1> DEFINE d == cv[current]
<1>1. /\ Is("waiting") /\ Unblock(d) /\ UNCHANGED next_count
      /\ count' = [count EXCEPT ![d] = @ - 1]
      /\ mpc' = [mpc EXCEPT ![current] = IF WokenByUp THEN "in" ELSE "panic"]
      /\ cv' = [cv EXCEPT ![current] = NULL]
  BY DEF WaitEnds, DownEnds
<1>2. current \in Proc /\ mpc[current] = "waiting"
  BY <1>0, <1>1, CurrentFacts DEF Is
<1>3. DownOf[current] = d /\ d \in Cv
  BY <1>0, <1>2, DownIs
<1>4. /\ SemInv' /\ PlaceExact' /\ TokenExact' /\ UNCHANGED Hoare!vars
      /\ mpc'[current] = "in" /\ cv'[current] = NULL
      /\ \A p \in Proc : p # current => mpc'[p] = mpc[p] /\ cv'[p] = cv[p]
  BY <1>1, <1>3, ComesBack
<1>5. SteppedBack' = SteppedBack
  BY <1>2, <1>4 DEF SteppedBack
<1>6. /\ \A c \in Cv : InWait'[c] = IF c = d THEN InWait[c] \ {current} ELSE InWait[c]
      /\ current \in InWait[d]
      /\ \A c \in Cv : InWait[c] \in SUBSET Proc
  BY <1>2, <1>3, <1>4, Names DEF InWait
<1> HIDE DEF d
<1>7. Cardinality(InWait[d] \ {current}) = Cardinality(InWait[d]) - 1
  BY <1>3, <1>6, OneMore
<1>8. \A c \in Cv : count'[c] = Cardinality(InWait'[c])
  BY <1>0, <1>1, <1>3, <1>6, <1>7 DEF Counting
<1>9. Counting'
  <2>1. count' = [c \in Cv |-> count'[c]]
    BY <1>0, <1>1 DEF Counting
  <2> QED
    BY <1>0, <1>1, <1>5, <1>8, <2>1 DEF Counting
<1> QED
  BY <1>4, <1>9 DEF MonInv

-----------------------------------------------------------------------------
\* The active thread hands the token to the first who waits on s, and is not
\* in the monitor any more.
LEMMA Hands ==
    ASSUME MonInv, Is("in"), NEW s \in Sem, Up(s), wait_queue[s] # <<>>,
           NEW l \in {"out", "released", "signalled"}, mpc' = [mpc EXCEPT ![current] = l],
           DownOf' = DownOf
    PROVE  /\ SemInv' /\ TokenExact' /\ current' = current
           /\ Active' = {Head(wait_queue[s])} /\ Head(wait_queue[s]) \in Proc
           /\ wait_queue'[s] = Tail(wait_queue[s])
           /\ \A t \in Sem : t # s => wait_queue'[t] = wait_queue[t]
<1> DEFINE p == Head(wait_queue[s])
<1>0. SemInv /\ PlaceExact /\ TokenExact /\ Counting
  BY DEF MonInv
<1>1. current # NULL /\ current \in Proc /\ mpc[current] = "in"
  BY AtFacts
<1>2. /\ Active = {current} /\ value[mutex] = 0
      /\ \A q \in Proc : /\ mpc[q] = "in" => q = current
                         /\ DownOf[q] # NULL => wait_state[q] = "WT_KSEM"
  BY <1>1, InFacts
<1>3. /\ SemInv' /\ value' = value /\ current' = current
      /\ p \in Proc /\ p # current /\ wait_state[p] = "WT_KSEM" /\ DownOf[p] = s
      /\ wait_queue' = [wait_queue EXCEPT ![s] = Tail(@)]
      /\ wait_state'[p] = "0" /\ \A q \in Proc : q # p => wait_state'[q] = wait_state[q]
  <2> HIDE DEF MonInv
  <2> QED
    BY <1>0, HandStep
<1> HIDE DEF p
<1>4. /\ wait_queue'[s] = Tail(wait_queue[s])
      /\ \A t \in Sem : t # s => wait_queue'[t] = wait_queue[t]
  BY <1>0, <1>3 DEF SemInv, SemTypeOK
<1>5. /\ mpc'[current] = l /\ \A q \in Proc : q # current => mpc'[q] = mpc[q]
      /\ \A q \in Proc : mpc'[q] # "in"
  BY <1>0, <1>1, <1>2 DEF PlaceExact
<1>6. Granted' = {p}
  <2>1. \A q \in Proc : mpc[q] \in {"entering", "urgent", "waiting"} <=> DownOf[q] # NULL
    BY <1>0, DownIs
  <2>2. mpc'[p] \in {"entering", "urgent", "waiting"}
    BY <2>1, <1>3, <1>5, Names
  <2>3. \A q \in Proc : q # p /\ mpc'[q] \in {"entering", "urgent", "waiting"}
                          => wait_state'[q] = "WT_KSEM"
    BY <2>1, <1>2, <1>3, <1>5
  <2> QED
    BY <2>2, <2>3, <1>3 DEF Granted
<1>7. Active' = {p}
  BY <1>5, <1>6 DEF Active
<1>8. TokenExact'
  BY <1>0, <1>2, <1>3, <1>7 DEF TokenExact
<1> QED
  BY <1>3, <1>4, <1>7, <1>8 DEF p

\* What a routine does last: the first signaller that stepped back becomes
\* active, or the first at the door, or nobody.
LEMMA Passes ==
    ASSUME MonInv, Is("in"), PassOn,
           NEW l \in {"out", "released"}, mpc' = [mpc EXCEPT ![current] = l],
           DownOf' = DownOf
    PROVE  /\ SemInv' /\ TokenExact' /\ current' = current
           /\ Hoare!Successor
           /\ \A c \in Cv : wait_queue'[c] = wait_queue[c]
<1>0. SemInv /\ PlaceExact /\ TokenExact /\ Counting
  BY DEF MonInv
<1>1. /\ current # NULL /\ current \in Proc /\ mpc[current] = "in" /\ Quiet
  BY AtFacts
<1>2. /\ Active = {current} /\ value[mutex] = 0
      /\ \A q \in Proc : /\ mpc[q] = "in" => q = current
                         /\ DownOf[q] # NULL => wait_state[q] = "WT_KSEM"
      /\ next_count = Len(wait_queue[next])
  BY <1>1, InFacts
<1>3. wait_queue[next] \in Seq(Proc) /\ wait_queue[mutex] \in Seq(Proc)
  BY <1>0, Names DEF SemInv, SemTypeOK
<1>4. next_count > 0 <=> wait_queue[next] # <<>>
  BY <1>2, <1>3
<1>5. mpc'[current] = l /\ \A q \in Proc : q # current => mpc'[q] = mpc[q]
  BY <1>0, <1>1 DEF PlaceExact
<1>6. Holder = current /\ Back = wait_queue[next]
  BY <1>0, <1>1, <1>2, HolderIs DEF Back, Is
<1>7. ASSUME current' = current PROVE Back' = wait_queue'[next]
  BY <1>1, <1>5, <1>7 DEF Back, Is
<1>8. CASE wait_queue[next] # <<>>
  <2>1. Up(next)
    BY <1>4, <1>8 DEF PassOn
  <2>2. /\ SemInv' /\ TokenExact' /\ current' = current
        /\ Active' = {Head(wait_queue[next])}
        /\ wait_queue'[next] = Tail(wait_queue[next])
        /\ \A t \in Sem : t # next => wait_queue'[t] = wait_queue[t]
    BY <2>1, <1>8, Names, Hands
  <2>3. Holder' = Head(wait_queue[next])
    BY <2>2, HolderIs
  <2>4. Hoare!Successor
    BY <2>2, <2>3, <1>6, <1>7, <1>8, Names DEF Hoare!Successor
  <2> QED
    BY <2>2, <2>4, Names
<1>9. CASE wait_queue[next] = <<>> /\ wait_queue[mutex] # <<>>
  <2>1. Up(mutex)
    BY <1>4, <1>9 DEF PassOn
  <2>2. /\ SemInv' /\ TokenExact' /\ current' = current
        /\ Active' = {Head(wait_queue[mutex])}
        /\ wait_queue'[mutex] = Tail(wait_queue[mutex])
        /\ \A t \in Sem : t # mutex => wait_queue'[t] = wait_queue[t]
    BY <2>1, <1>9, Names, Hands
  <2>3. Holder' = Head(wait_queue[mutex])
    BY <2>2, HolderIs
  <2>4. Hoare!Successor
    BY <2>2, <2>3, <1>6, <1>7, <1>9, Names DEF Hoare!Successor
  <2> QED
    BY <2>2, <2>4, Names
<1>10. CASE wait_queue[next] = <<>> /\ wait_queue[mutex] = <<>>
  <2>1. Up(mutex)
    BY <1>4, <1>10 DEF PassOn
  <2>2. /\ SemInv' /\ UNCHANGED <<cpuVars, wait_queue>>
        /\ \A t \in Sem : t # mutex => value'[t] = value[t]
        /\ value'[mutex] = value[mutex] + 1
    <3> HIDE DEF MonInv
    <3> QED
      BY <2>1, <1>0, <1>10, Names, ValueStep
  <2>3. Active' = {}
    <3>1. \A q \in Proc : mpc'[q] # "in"
      BY <1>2, <1>5
    <3>2. \A q \in Proc : mpc'[q] \in {"entering", "urgent", "waiting"} => wait_state'[q] = "WT_KSEM"
      BY <2>2, <1>0, <1>1, <1>2, <1>5, DownIs DEF cpuVars
    <3> QED
      BY <3>1, <3>2 DEF Active, Granted
  <2>4. TokenExact'
    BY <2>2, <2>3, <1>0, <1>2, <1>10 DEF TokenExact
  <2>5. Holder' = NULL
    BY <2>3, HolderIs
  <2>6. Hoare!Successor
    BY <2>2, <2>5, <1>6, <1>7, <1>10 DEF Hoare!Successor, cpuVars
  <2> QED
    BY <2>2, <2>4, <2>6 DEF cpuVars
<1> QED
  BY <1>8, <1>9, <1>10

\* The end of a routine.
LEMMA LeaveStep ==
    ASSUME MonInv, Leave
    PROVE  MonInv' /\ Hoare!Leave
<1>0. SemInv /\ PlaceExact /\ TokenExact /\ Counting
  BY DEF MonInv
<1>1. /\ Is("in") /\ PassOn /\ mpc' = [mpc EXCEPT ![current] = "out"]
      /\ UNCHANGED <<next_count, count, cv>>
  BY DEF Leave
<1>2. /\ current # NULL /\ current \in Proc /\ mpc[current] = "in"
      /\ DownOf[current] = NULL /\ cv[current] = NULL /\ Quiet
  BY <1>1, AtFacts
<1>3. /\ mpc' \in [Proc -> Places] /\ mpc'[current] = "out"
      /\ \A p \in Proc : p # current => mpc'[p] = mpc[p]
  BY <1>0, <1>1, <1>2 DEF PlaceExact, Places
<1>4. DownOf' = DownOf
  BY <1>1, <1>2, <1>3 DEF DownOf
<1>5. /\ SemInv' /\ TokenExact' /\ current' = current /\ Hoare!Successor
      /\ \A c \in Cv : wait_queue'[c] = wait_queue[c]
  BY <1>1, <1>4, Passes
<1>6. PlaceExact' /\ Quiet'
  BY <1>0, <1>1, <1>2, <1>3, <1>5 DEF PlaceExact, Quiet
<1>7. Counting'
  <2>1. SteppedBack' = SteppedBack /\ InWait' = InWait
    BY <1>1, <1>2, <1>3 DEF SteppedBack, InWait
  <2> QED
    BY <1>0, <1>1, <2>1 DEF Counting
<1>8. Hoare!Leave
  <2>1. Holder # NULL
    BY <1>2, Names, InFacts, HolderIs
  <2>2. Asleep' = Asleep
    BY <1>0, <1>2, <1>5, <1>6, QueuesAre DEF SemInv, SemTypeOK
  <2> QED
    BY <1>5, <2>1, <2>2 DEF Hoare!Leave
<1> QED
  BY <1>5, <1>6, <1>7, <1>8 DEF MonInv

\* cond_wait up to its down: one waiter more, and the token is passed on.
LEMMA WaitStep ==
    ASSUME MonInv, NEW c \in Cv, Wait(c)
    PROVE  MonInv' /\ Hoare!Wait(c)
<1>0. SemInv /\ PlaceExact /\ TokenExact /\ Counting
  BY DEF MonInv
<1>1. /\ Is("in") /\ PassOn /\ mpc' = [mpc EXCEPT ![current] = "released"]
      /\ cv' = [cv EXCEPT ![current] = c]
      /\ count' = [count EXCEPT ![c] = @ + 1] /\ UNCHANGED next_count
  BY DEF Wait
<1>2. /\ current # NULL /\ current \in Proc /\ mpc[current] = "in"
      /\ DownOf[current] = NULL /\ cv[current] = NULL /\ Quiet
  BY <1>1, AtFacts
<1>3. /\ mpc' \in [Proc -> Places] /\ mpc'[current] = "released"
      /\ cv' \in [Proc -> Cv \cup {NULL}] /\ cv'[current] = c /\ c # NULL
      /\ \A p \in Proc : p # current => mpc'[p] = mpc[p] /\ cv'[p] = cv[p]
  BY <1>0, <1>1, <1>2, Names DEF PlaceExact, Places
<1>4. DownOf' = DownOf
  BY <1>1, <1>2, <1>3 DEF DownOf
<1>5. /\ SemInv' /\ TokenExact' /\ current' = current /\ Hoare!Successor
      /\ \A d \in Cv : wait_queue'[d] = wait_queue[d]
  BY <1>1, <1>4, Passes
<1>6. \A p \in Proc : mpc[p] = "in" => p = current
  BY <1>2, InFacts
<1>7. PlaceExact'
  BY <1>0, <1>2, <1>3, <1>5, <1>6 DEF PlaceExact, Quiet
<1>8. Counting'
  <2>1. SteppedBack' = SteppedBack
    BY <1>2, <1>3 DEF SteppedBack
  <2>2. /\ \A d \in Cv : InWait'[d] = IF d = c THEN InWait[d] \cup {current} ELSE InWait[d]
        /\ current \notin InWait[c]
        /\ InWait[c] \in SUBSET Proc
    BY <1>2, <1>3, Names DEF InWait
  <2>3. Cardinality(InWait[c] \cup {current}) = Cardinality(InWait[c]) + 1
    BY <2>2, OneMore
  <2>4. \A d \in Cv : count'[d] = Cardinality(InWait'[d])
    BY <1>0, <1>1, <2>2, <2>3 DEF Counting
  <2>5. count' = [d \in Cv |-> count'[d]]
    BY <1>0, <1>1 DEF Counting
  <2> QED
    BY <1>0, <1>1, <2>1, <2>4, <2>5 DEF Counting
<1>9. Hoare!Wait(c)
  <2>1. Holder = current
    BY <1>2, Names, InFacts, HolderIs
  <2>2. Asleep = [d \in Cv |-> wait_queue[d]]
    BY <1>2, <1>5, QueuesAre, <1>0 DEF SemInv, SemTypeOK
  <2>3. Asleep' = [d \in Cv |-> IF d = c THEN Append(wait_queue[d], current) ELSE wait_queue[d]]
    BY <1>2, <1>3, <1>5 DEF Asleep, Is
  <2>4. Asleep' = [Asleep EXCEPT ![c] = Append(@, current)]
    BY <2>2, <2>3
  <2> QED
    BY <1>2, <1>5, <2>1, <2>4, Names DEF Hoare!Wait
<1> QED
  BY <1>5, <1>7, <1>8, <1>9 DEF MonInv

\* cond_signal up to its down: the token goes to the first who waits.
LEMMA SignalStep ==
    ASSUME MonInv, NEW c \in Cv, Signal(c)
    PROVE  MonInv' /\ Hoare!Signal(c)
<1>0. SemInv /\ PlaceExact /\ TokenExact /\ Counting
  BY DEF MonInv
<1>1. /\ Is("in") /\ Up(c) /\ mpc' = [mpc EXCEPT ![current] = "signalled"]
      /\ count[c] > 0 /\ next_count' = next_count + 1 /\ UNCHANGED <<count, cv>>
  BY DEF Signal
<1>2. /\ current # NULL /\ current \in Proc /\ mpc[current] = "in"
      /\ DownOf[current] = NULL /\ cv[current] = NULL /\ Quiet
  BY <1>1, AtFacts
<1>3. /\ mpc' \in [Proc -> Places] /\ mpc'[current] = "signalled"
      /\ \A p \in Proc : p # current => mpc'[p] = mpc[p]
  BY <1>0, <1>1, <1>2 DEF PlaceExact, Places
<1>4. DownOf' = DownOf
  BY <1>1, <1>2, <1>3 DEF DownOf
<1>5. wait_queue[c] # <<>> /\ c \in Sem /\ wait_queue[c] \in Seq(Proc)
  <2>1. c \in Sem /\ wait_queue[c] \in Seq(Proc) /\ count[c] = Len(wait_queue[c])
    BY <1>0, <1>2, InFacts, Names DEF SemInv, SemTypeOK
  <2> QED
    BY <2>1, <1>1
<1>6. /\ SemInv' /\ TokenExact' /\ current' = current
      /\ Active' = {Head(wait_queue[c])} /\ Head(wait_queue[c]) \in Proc
      /\ wait_queue'[c] = Tail(wait_queue[c])
      /\ \A t \in Sem : t # c => wait_queue'[t] = wait_queue[t]
  BY <1>1, <1>4, <1>5, Hands
<1>7. Active = {current} /\ \A p \in Proc : mpc[p] = "in" => p = current
  BY <1>2, InFacts
<1>8. PlaceExact'
  BY <1>0, <1>1, <1>2, <1>3, <1>6, <1>7 DEF PlaceExact, Quiet
<1>9. Counting'
  <2>1. /\ SteppedBack' = SteppedBack \cup {current} /\ InWait' = InWait
        /\ current \notin SteppedBack /\ SteppedBack \in SUBSET Proc
    BY <1>1, <1>2, <1>3 DEF SteppedBack, InWait
  <2>2. Cardinality(SteppedBack \cup {current}) = Cardinality(SteppedBack) + 1
    BY <2>1, OneMore
  <2> QED
    BY <1>0, <1>1, <2>1, <2>2 DEF Counting
<1>10. Hoare!Signal(c)
  <2>1. Holder = current /\ Holder' = Head(wait_queue[c])
    BY <1>6, <1>7, HolderIs
  <2>2. Back = wait_queue[next] /\ Asleep = [d \in Cv |-> wait_queue[d]]
    BY <1>0, <1>2, <1>6, QueuesAre DEF SemInv, SemTypeOK
  <2>3. Back' = Append(wait_queue[next], current)
    BY <1>2, <1>3, <1>6, Names DEF Back, Is
  <2>4. Asleep' = [d \in Cv |-> IF d = c THEN Tail(wait_queue[d]) ELSE wait_queue[d]]
    <3>1. ~ Is("released")'
      BY <1>2, <1>3, <1>6 DEF Is
    <3>2. Asleep' = [d \in Cv |-> wait_queue'[d]]
      BY <3>1 DEF Asleep
    <3> QED
      BY <3>2, <1>6, Names
  <2>5. Asleep' = [Asleep EXCEPT ![c] = Tail(@)] /\ Asleep[c] = wait_queue[c]
    BY <2>2, <2>4
  <2>6. wait_queue'[mutex] = wait_queue[mutex]
    BY <1>6, Names
  <2> QED
    BY <1>2, <1>5, <2>1, <2>2, <2>3, <2>5, <2>6, Names DEF Hoare!Signal
<1> QED
  BY <1>6, <1>8, <1>9, <1>10 DEF MonInv

\* The down() in the middle of cond_signal and of cond_wait always blocks; the
\* monitor has seen the thread go to sleep already.
LEMMA SleepsStep ==
    ASSUME MonInv, NEW l \in {"signalled", "released"}, Is(l), NEW s \in Sem, Block(s),
           \/ l = "signalled" /\ s = next /\ mpc' = [mpc EXCEPT ![current] = "urgent"]
           \/ l = "released" /\ s = cv[current] /\ mpc' = [mpc EXCEPT ![current] = "waiting"],
           UNCHANGED <<next_count, count, cv>>
    PROVE  MonInv' /\ UNCHANGED Hoare!vars
<1>0. SemInv /\ PlaceExact /\ TokenExact /\ Counting
  BY DEF MonInv
<1>1. /\ current # NULL /\ current \in Proc /\ mpc[current] = l /\ DownOf[current] = NULL
      /\ \A q \in Proc : /\ mpc[q] # "in"
                         /\ q # current => mpc[q] \notin {"signalled", "released"}
  BY <1>0, CurrentFacts, DownIs DEF Is, PlaceExact
<1>2. /\ mpc' \in [Proc -> Places]
      /\ mpc'[current] = IF l = "signalled" THEN "urgent" ELSE "waiting"
      /\ \A p \in Proc : p # current => mpc'[p] = mpc[p]
  BY <1>0, <1>1 DEF PlaceExact, Places
<1>3. DownOf' = [DownOf EXCEPT ![current] = s]
  BY <1>1, <1>2 DEF DownOf
<1>4. /\ SemInv' /\ value' = value
      /\ wait_queue' = [wait_queue EXCEPT ![s] = Append(@, current)]
      /\ wait_state'[current] = "WT_KSEM" /\ current' # current
      /\ \A q \in Proc : q # current => wait_state'[q] = wait_state[q]
  <2> HIDE DEF MonInv
  <2> QED
    BY <1>0, <1>1, <1>3, BlockStep
<1>5. /\ wait_queue'[s] = Append(wait_queue[s], current)
      /\ \A t \in Sem : t # s => wait_queue'[t] = wait_queue[t]
      /\ s # mutex /\ (l = "released" => s \in Cv)
  <2>1. l = "released" => s \in Cv
    BY <1>0, <1>1 DEF PlaceExact
  <2> QED
    BY <2>1, <1>0, <1>4, Names DEF SemInv, SemTypeOK
<1>6. Active' = Active
  BY <1>1, <1>2, <1>4 DEF Active, Granted
<1>7. PlaceExact' /\ Quiet'
  BY <1>0, <1>1, <1>2 DEF PlaceExact, Quiet
<1>8. TokenExact'
  BY <1>0, <1>4, <1>5, <1>6, Names DEF TokenExact
<1>9. Counting'
  <2>1. SteppedBack' = SteppedBack /\ InWait' = InWait
    BY <1>1, <1>2 DEF SteppedBack, InWait
  <2> QED
    BY <1>0, <2>1 DEF Counting
<1>10. Back' = Back /\ Asleep' = Asleep
  <2>1. Back' = wait_queue'[next] /\ Asleep' = [d \in Cv |-> wait_queue'[d]]
    BY <1>0, <1>4, <1>7, QueuesAre DEF SemInv, SemTypeOK
  <2>2. CASE l = "signalled"
    <3>1. Back = Append(wait_queue[next], current) /\ Asleep = [d \in Cv |-> wait_queue[d]]
      BY <1>1, <2>2 DEF Back, Asleep, Is
    <3>2. s = next
      BY <2>2
    <3> QED
      BY <2>1, <3>1, <3>2, <1>5, Names
  <2>3. CASE l = "released"
    <3>1. s = cv[current] /\ s \in Cv
      BY <2>3, <1>5
    <3>2. Back = wait_queue[next]
      BY <1>1, <2>3 DEF Back, Is
    <3>3. Asleep = [d \in Cv |-> IF d = s THEN Append(wait_queue[d], current) ELSE wait_queue[d]]
      BY <1>1, <2>3, <3>1 DEF Asleep, Is
    <3> QED
      BY <2>1, <3>1, <3>2, <3>3, <1>5, Names
  <2> QED
    BY <2>2, <2>3
<1>11. Holder' = Holder
  BY <1>6 DEF Holder
<1> QED
  BY <1>4, <1>5, <1>7, <1>8, <1>9, <1>10, <1>11, Names DEF MonInv, Hoare!vars

\* The other branch of the two downs is never taken.
LEMMA NoUnits ==
    ASSUME MonInv, NEW s \in Sem \ {mutex}
    PROVE  ~ Take(s)
BY DEF MonInv, TokenExact, Take

\* cond_signal steps back.
LEMMA StepBackStep ==
    ASSUME MonInv, StepBack
    PROVE  MonInv' /\ UNCHANGED Hoare!vars
<1>1. ~ Take(next)
  BY NoUnits, Names
<1> QED
  BY <1>1, SleepsStep, Names DEF StepBack

\* cond_wait blocks.
LEMMA WaitBlocksStep ==
    ASSUME MonInv, WaitBlocks
    PROVE  MonInv' /\ UNCHANGED Hoare!vars
<1>0. Is("released")
  BY DEF WaitBlocks
<1>1. cv[current] \in Cv
  BY <1>0, CurrentFacts DEF Is, MonInv, PlaceExact
<1>2. ~ Take(cv[current])
  BY <1>1, NoUnits, Names
<1>3. Block(cv[current]) /\ mpc' = [mpc EXCEPT ![current] = "waiting"]
      /\ UNCHANGED <<next_count, count, cv>>
  BY <1>2 DEF WaitBlocks
<1> QED
  BY <1>0, <1>1, <1>3, SleepsStep, Names

-----------------------------------------------------------------------------
\* Every step of the monitor keeps the invariant, and is a step of HoareMonitor
\* or none.
LEMMA MonitorStep ==
    ASSUME MonInv, Next
    PROVE  MonInv' /\ (Hoare!Next \/ UNCHANGED Hoare!vars)
<1>1. CASE Enter
  <2>1. Is("out") /\ current \in Proc /\ UNCHANGED <<next_count, count, cv>>
    BY <1>1, AtFacts DEF Enter
  <2>2. \/ Take(mutex) /\ mpc' = [mpc EXCEPT ![current] = "in"]
        \/ Block(mutex) /\ mpc' = [mpc EXCEPT ![current] = "entering"]
    BY <1>1 DEF Enter, Down
  <2>3. MonInv' /\ Hoare!Enter(current)
    BY <2>1, <2>2, EnterTakes, EnterBlocks
  <2> QED
    BY <2>1, <2>3 DEF Hoare!Next
<1>2. CASE EnterEnds
  BY <1>2, EnterEndsStep
<1>3. CASE StepBack
  BY <1>3, StepBackStep
<1>4. CASE StepBackEnds
  BY <1>4, StepBackEndsStep
<1>5. CASE WaitBlocks
  BY <1>5, WaitBlocksStep
<1>6. CASE WaitEnds
  BY <1>6, WaitEndsStep
<1>7. CASE Leave
  BY <1>7, LeaveStep DEF Hoare!Next
<1>8. CASE Nap
  <2>1. /\ UNCHANGED <<next_count, count, mpc, cv>>
        /\ Is("out") \/ Is("in")
        /\ StartSleep
    BY <1>8 DEF Nap
  <2> QED
    BY <2>1, CpuOnlyStep
<1>11. CASE Idle
  <2>1. UNCHANGED <<next_count, count, mpc, cv>> /\ IdleSchedules
    BY <1>11 DEF Idle
  <2> QED
    BY <2>1, CpuOnlyStep
<1>12. ASSUME NEW p \in Proc, Timer(p) PROVE MonInv' /\ UNCHANGED Hoare!vars
  <2>1. UNCHANGED <<next_count, count, mpc, cv>> /\ TimerFires(p)
    BY <1>12 DEF Timer
  <2> QED
    BY <2>1, CpuOnlyStep
<1>9. ASSUME NEW c \in Cv, Signal(c) PROVE MonInv' /\ Hoare!Next
  BY <1>9, SignalStep DEF Hoare!Next
<1>10. ASSUME NEW c \in Cv, Wait(c) PROVE MonInv' /\ Hoare!Next
  BY <1>10, WaitStep DEF Hoare!Next
<1> QED
  BY <1>1, <1>2, <1>3, <1>4, <1>5, <1>6, <1>7, <1>8, <1>9, <1>10, <1>11, <1>12 DEF Next, Kernel

\* At first nobody is in the monitor.
LEMMA MonitorInit ==
    ASSUME InitMonitor, run_list \in Seq(Proc), Distinct(run_list)
    PROVE  MonInv /\ Hoare!Init
<1>1. /\ current = NULL /\ next_count = 0
      /\ wait_state = [p \in Proc |-> "0"]
      /\ value = InitialValue /\ InitialValue = [s \in Sem |-> IF s = mutex THEN 1 ELSE 0]
      /\ wait_queue = [s \in Sem |-> <<>>]
      /\ wakeup_flags = [p \in Proc |-> "WT_INTERRUPTED"]
      /\ count = [c \in Cv |-> 0]
      /\ mpc = [p \in Proc |-> "out"]
      /\ cv = [p \in Proc |-> NULL]
  BY MonitorAssumption DEF InitMonitor, SemInit
<1>2. DownOf = [p \in Proc |-> NULL]
  BY <1>1 DEF DownOf
<1>3. SemTypeOK
  BY <1>1, <1>2 DEF SemTypeOK
<1>4. CpuExact
  <2>1. Elems(run_list) \subseteq Proc
    BY ElemsIn
  <2> QED
    BY <1>1, <2>1, Names DEF CpuExact
<1>5. QueuesExact
  BY <1>1, <1>2, EmptyList DEF QueuesExact
<1>6. PlaceExact
  BY <1>1, Names DEF PlaceExact, Places
<1>7. Active = {}
  BY <1>1 DEF Active, Granted
<1>8. TokenExact
  BY <1>1, <1>7, Names DEF TokenExact
<1>9. Counting
  <2>1. SteppedBack = {} /\ \A c \in Cv : InWait[c] = {}
    BY <1>1, Names DEF SteppedBack, InWait
  <2>2. Cardinality({}) = 0
    BY FS_EmptySet
  <2> QED
    BY <1>1, <2>1, <2>2 DEF Counting
<1>10. Hoare!Init
  <2>1. Quiet
    BY <1>1 DEF Quiet
  <2>2. Holder = NULL
    BY <1>7, HolderIs
  <2>3. Back = wait_queue[next] /\ Asleep = [c \in Cv |-> wait_queue[c]]
    BY <1>1, <2>1 DEF Back, Asleep, Is
  <2> QED
    BY <1>1, <2>2, <2>3, Names DEF Hoare!Init
<1> QED
  BY <1>3, <1>4, <1>5, <1>6, <1>8, <1>9, <1>10 DEF MonInv, SemInv

\* The initial states satisfy the invariant and map to HoareMonitor's.
LEMMA InitMonInv ==
    ASSUME Init PROVE MonInv /\ Hoare!Init
<1>1. Cardinality(Proc) \in Nat
  BY Names, FS_CardinalityType
<1>2. run_list \in Seq(Proc) /\ Distinct(run_list)
  BY <1>1, FunctionList DEF Init
<1> QED
  BY <1>2, MonitorInit DEF Init

\* A step that changes nothing.
LEMMA MonitorStutter ==
    ASSUME MonInv, UNCHANGED monVars
    PROVE  MonInv' /\ UNCHANGED Hoare!vars
<1>1. /\ UNCHANGED <<current, run_list, wait_state, value, wait_queue, wakeup_flags>>
      /\ UNCHANGED <<next_count, count, mpc, cv>>
  BY DEF monVars, cpuVars, semVars
<1>2. DownOf' = DownOf /\ Active' = Active /\ SteppedBack' = SteppedBack /\ InWait' = InWait
  BY <1>1 DEF DownOf, Active, Granted, SteppedBack, InWait
<1>3. SemInv'
  BY <1>1, <1>2 DEF MonInv, SemInv, SemTypeOK, CpuExact, QueuesExact
<1>4. PlaceExact' /\ TokenExact' /\ Counting'
  BY <1>1, <1>2 DEF MonInv, PlaceExact, TokenExact, Counting
<1>5. Holder' = Holder /\ Back' = Back /\ Asleep' = Asleep
  BY <1>1, <1>2 DEF Holder, Back, Asleep, Is
<1> QED
  BY <1>1, <1>3, <1>4, <1>5 DEF MonInv, Hoare!vars

\* The token says that one thread at most is active, and the counters are right
\* whenever a routine can look.
LEMMA MonInvImplies ==
    ASSUME MonInv PROVE OneActive /\ CountsExact
<1>1. OneActive
  <2>1. CASE Active = {} /\ value[mutex] = 1
    BY <2>1, FS_EmptySet DEF OneActive
  <2>2. ASSUME value[mutex] = 0, NEW a \in Proc, Active = {a} PROVE OneActive
    BY <2>2, FS_Singleton DEF OneActive
  <2> QED
    BY <2>1, <2>2 DEF MonInv, TokenExact
<1>2. CountsExact
  BY InFacts DEF CountsExact
<1> QED
  BY <1>1, <1>2

\* MonInv is inductive.
LEMMA Inductive == Spec => []MonInv
<1>1. Init => MonInv
  BY InitMonInv
<1>2. MonInv /\ [Next]_monVars => MonInv'
  BY MonitorStep, MonitorStutter
<1> QED
  BY <1>1, <1>2, PTL DEF Spec

\* monitor.h:12, one thread at a time is active in a monitor, whoever sleeps,
\* waits or signals in it.
THEOREM OneThreadActive == Spec => []OneActive
<1>1. MonInv => OneActive
  BY MonInvImplies
<1> QED
  BY <1>1, Inductive, PTL

\* count and next_count say who is asleep whenever a routine can look.
THEOREM CountersAreExact == Spec => []CountsExact
<1>1. MonInv => CountsExact
  BY MonInvImplies
<1> QED
  BY <1>1, Inductive, PTL

\* The semaphores of monitor.c implement a monitor with signal-and-urgent-wait.
THEOREM MonitorIsHoare == Spec => ImplementsHoare
<1>1. Init => MonInv /\ Hoare!Init
  BY InitMonInv
<1>2. MonInv /\ [Next]_monVars => MonInv' /\ [Hoare!Next]_(Hoare!vars)
  BY MonitorStep, MonitorStutter
<1> QED
  BY <1>1, <1>2, PTL DEF Spec, ImplementsHoare, Hoare!Spec

=============================================================================
