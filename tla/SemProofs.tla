------------------------------ MODULE SemProofs ------------------------------
(***************************************************************************)
(* The safety of semaphores and wait queues under any client, for any      *)
(* number of threads and semaphores and any initial values, and the steps  *)
(* of the refinement of FifoSemaphore; and what MonitorProofs shows, for   *)
(* the monitor of MCSync.                                                  *)
(***************************************************************************)
EXTENDS MCSync, Foundations, FiniteSetTheorems, TLAPS

TypeOK ==
    /\ current \in Proc \cup {NULL}
    /\ run_list \in Seq(Proc)
    /\ wait_state \in [Proc -> {"0", "WT_KSEM", "WT_TIMER"}]
    /\ value \in [Sem -> Nat]
    /\ wait_queue \in [Sem -> Seq(Proc)]
    /\ wakeup_flags \in [Proc -> {"WT_INTERRUPTED", "WT_KSEM"}]
    /\ pc \in [Proc -> {"run", "down"}]
    /\ want \in [Proc -> Sem \cup {NULL}]
    /\ exiting \in [Proc -> BOOLEAN]
    /\ balance \in [Sem -> Nat]

\* Who has the CPU or waits for it is RUNNABLE, and there once.
CpuExact ==
    /\ Distinct(run_list)
    /\ current # NULL => wait_state[current] = "0"
    /\ \A p \in Elems(run_list) : p # current /\ wait_state[p] = "0"

\* How far a thread is in down(), and what its wait_state says of that.  One
\* that was woken there has its unit: nothing but up() wakes it.
ThreadExact ==
    \A p \in Proc :
        /\ pc[p] = "down" <=> want[p] # NULL
        /\ wait_state[p] = "WT_KSEM" => pc[p] = "down"
        /\ wait_state[p] = "WT_TIMER" => pc[p] = "run"
        /\ pc[p] = "down" /\ wait_state[p] = "0" => wakeup_flags[p] = "WT_KSEM"

\* Nobody waits while there is a unit to take.
NoIdleUnits == \A s \in Sem : wait_queue[s] # <<>> => value[s] = 0

IInv == TypeOK /\ CpuExact /\ ThreadExact /\ NoIdleUnits /\ WaitersExact /\ UnitsConserved

-----------------------------------------------------------------------------
\* schedule() with a queue of RUNNABLE threads.
LEMMA SwitchFacts ==
    ASSUME NEW ws, NEW queue \in Seq(Proc), Distinct(queue),
           \A p \in Elems(queue) : ws[p] = "0", Switch(queue)
    PROVE  /\ current' \in Proc \cup {NULL} /\ run_list' \in Seq(Proc)
           /\ Distinct(run_list')
           /\ current' # NULL => ws[current'] = "0"
           /\ \A p \in Elems(run_list') : p # current' /\ ws[p] = "0"
<1>1. CASE queue = <<>>
  BY <1>1, EmptyList DEF Switch
<1>2. CASE queue # <<>>
  <2>1. current' = Head(queue) /\ run_list' = Tail(queue)
    BY <1>2 DEF Switch
  <2>2. /\ Head(queue) \in Elems(queue) /\ Head(queue) \in Proc
        /\ Tail(queue) \in Seq(Proc) /\ Distinct(Tail(queue))
        /\ Elems(Tail(queue)) = Elems(queue) \ {Head(queue)}
    BY <1>2, TailList
  <2> QED
    BY <2>1, <2>2
<1> QED
  BY <1>1, <1>2

\* wakeup_proc of a thread that sleeps: it joins the run queue.
LEMMA WakeupFacts ==
    ASSUME TypeOK, CpuExact, NEW p \in Proc, wait_state[p] # "0",
           Wakeup(p), current' = current
    PROVE  /\ wait_state' \in [Proc -> {"0", "WT_KSEM", "WT_TIMER"}]
           /\ wait_state'[p] = "0"
           /\ \A q \in Proc : q # p => wait_state'[q] = wait_state[q]
           /\ run_list' \in Seq(Proc)
           /\ CpuExact'
<1>0. run_list \in Seq(Proc) /\ Distinct(run_list) /\ Elems(run_list) \subseteq Proc
  BY ElemsIn DEF TypeOK, CpuExact
<1>1. /\ wait_state' = [wait_state EXCEPT ![p] = "0"]
      /\ run_list' = Append(run_list, p)
  BY DEF Wakeup
<1>2. p # current /\ p \notin Elems(run_list)
  BY SemAssumption DEF CpuExact
<1>3. /\ run_list' \in Seq(Proc)
      /\ Elems(run_list') = Elems(run_list) \cup {p}
      /\ Distinct(run_list')
  BY <1>0, <1>1, <1>2, AppendList
<1>4. /\ wait_state' \in [Proc -> {"0", "WT_KSEM", "WT_TIMER"}]
      /\ wait_state'[p] = "0"
      /\ \A q \in Proc : q # p => wait_state'[q] = wait_state[q]
  BY <1>1 DEF TypeOK
<1>5. CpuExact'
  BY SemAssumption, <1>0, <1>2, <1>3, <1>4 DEF CpuExact, TypeOK
<1> QED
  BY <1>3, <1>4, <1>5

\* A step that touches no semaphore and neither puts a thread to sleep in one
\* nor wakes one there keeps what the invariant says of semaphores.
LEMMA SemaphoresKept ==
    ASSUME IInv, UNCHANGED <<semVars, pc, want, balance>>,
           \A p \in Proc : wait_state'[p] = "WT_KSEM" <=> wait_state[p] = "WT_KSEM"
    PROVE  NoIdleUnits' /\ WaitersExact' /\ UnitsConserved'
<1>1. NoIdleUnits' /\ WaitersExact'
  BY DEF IInv, NoIdleUnits, WaitersExact, semVars
<1>2. \A s \in Sem : Granted(s)' = Granted(s)
  BY DEF Granted, semVars
<1>3. UnitsConserved'
  BY <1>2 DEF IInv, UnitsConserved, semVars
<1> QED
  BY <1>1, <1>3

\* The threads that were granted a unit are finitely many.
LEMMA GrantedFinite ==
    ASSUME NEW s \in Sem
    PROVE  IsFiniteSet(Granted(s)) /\ Cardinality(Granted(s)) \in Nat
<1>1. Granted(s) \subseteq Proc
  BY DEF Granted
<1> QED
  BY <1>1, SemAssumption, FS_Subset, FS_CardinalityType

\* At the start nobody waits and nobody has been granted anything.
LEMMA InitIInv == Init => IInv
<1> SUFFICES ASSUME Init PROVE IInv
  OBVIOUS
<1>0. /\ current = NULL
      /\ wait_state = [p \in Proc |-> "0"]
      /\ value = InitialValue /\ balance = InitialValue /\ InitialValue \in [Sem -> Nat]
      /\ wait_queue = [s \in Sem |-> <<>>]
      /\ wakeup_flags = [p \in Proc |-> "WT_INTERRUPTED"]
      /\ pc = [p \in Proc |-> "run"]
      /\ want = [p \in Proc |-> NULL]
      /\ exiting = [p \in Proc |-> FALSE]
  BY SemAssumption DEF Init, SemInit
<1>1. run_list \in Seq(Proc) /\ Distinct(run_list) /\ Elems(run_list) \subseteq Proc
  <2>1. Cardinality(Proc) \in Nat
    BY SemAssumption, FS_CardinalityType
  <2>2. run_list \in [1..Cardinality(Proc) -> Proc] /\ Distinct(run_list)
    BY DEF Init
  <2>3. run_list \in Seq(Proc)
    BY <2>1, <2>2, FunctionList
  <2> QED
    BY <2>2, <2>3, ElemsIn
<1>2. TypeOK
  BY <1>0, <1>1 DEF TypeOK
<1>3. CpuExact
  BY SemAssumption, <1>0, <1>1 DEF CpuExact
<1>4. ThreadExact /\ NoIdleUnits
  BY <1>0 DEF ThreadExact, NoIdleUnits
<1>5. WaitersExact
  BY <1>0, EmptyList DEF WaitersExact
<1>6. UnitsConserved
  <2> SUFFICES ASSUME NEW s \in Sem PROVE balance[s] = value[s] + Cardinality(Granted(s))
    BY DEF UnitsConserved
  <2>1. Granted(s) = {}
    BY <1>0 DEF Granted
  <2>2. Cardinality(Granted(s)) = 0
    BY <2>1, FS_EmptySet
  <2> QED
    BY <1>0, <2>2
<1> QED
  BY <1>2, <1>3, <1>4, <1>5, <1>6 DEF IInv

-----------------------------------------------------------------------------
\* What the parts of the invariant say together about the CPU's owner.
LEMMA RunningFacts ==
    ASSUME IInv, NEW l, Running(l)
    PROVE  /\ current \in Proc /\ pc[current] = l /\ wait_state[current] = "0"
           /\ run_list \in Seq(Proc) /\ Distinct(run_list) /\ Elems(run_list) \subseteq Proc
           /\ \A p \in Elems(run_list) : p # current /\ wait_state[p] = "0"
<1>1. run_list \in Seq(Proc)
  BY DEF IInv, TypeOK
<1>2. Elems(run_list) \subseteq Proc
  BY <1>1, ElemsIn
<1> QED
  BY <1>1, <1>2 DEF IInv, TypeOK, CpuExact, Running

\* up() with nobody waiting, and the unit that goes to the first who is.
LEMMA DoUpStep ==
    ASSUME IInv, NEW s \in Sem, DoUp(s)
    PROVE  IInv'
<1>0. TypeOK /\ CpuExact /\ ThreadExact /\ NoIdleUnits /\ WaitersExact /\ UnitsConserved
  BY DEF IInv
<1>1. /\ current' = current /\ UNCHANGED <<pc, want, exiting>>
      /\ balance' = [balance EXCEPT ![s] = @ + 1]
  BY DEF DoUp, Up
<1>2. CASE wait_queue[s] = <<>>
  <2>1. /\ value' = [value EXCEPT ![s] = @ + 1]
        /\ UNCHANGED <<wait_queue, wakeup_flags, run_list, wait_state>>
    BY <1>2 DEF DoUp, Up
  <2>2. TypeOK'
    BY <1>0, <1>1, <2>1 DEF TypeOK
  <2>3. CpuExact' /\ ThreadExact' /\ WaitersExact'
    BY <1>0, <1>1, <2>1 DEF CpuExact, ThreadExact, WaitersExact
  <2>4. NoIdleUnits'
    BY <1>0, <1>2, <2>1 DEF TypeOK, NoIdleUnits
  <2>5. ASSUME NEW t \in Sem PROVE balance'[t] = value'[t] + Cardinality(Granted(t))'
    <3>1. Granted(t)' = Granted(t)
      BY <1>1, <2>1 DEF Granted
    <3>2. balance[t] = value[t] + Cardinality(Granted(t))
      BY <1>0 DEF UnitsConserved
    <3>3. balance[t] \in Nat /\ value[t] \in Nat /\ Cardinality(Granted(t)) \in Nat
      BY <1>0, GrantedFinite DEF TypeOK
    <3>4. /\ balance'[t] = IF t = s THEN balance[t] + 1 ELSE balance[t]
          /\ value'[t] = IF t = s THEN value[t] + 1 ELSE value[t]
      BY <1>0, <1>1, <2>1 DEF TypeOK
    <3> QED
      BY <3>1, <3>2, <3>3, <3>4
  <2> QED
    BY <2>2, <2>3, <2>4, <2>5 DEF IInv, UnitsConserved
<1>3. CASE wait_queue[s] # <<>>
  <2> DEFINE p == Head(wait_queue[s])
  <2>1. /\ wait_queue[s] \in Seq(Proc) /\ Distinct(wait_queue[s])
        /\ p \in Proc /\ p \in Elems(wait_queue[s])
        /\ Tail(wait_queue[s]) \in Seq(Proc) /\ Distinct(Tail(wait_queue[s]))
        /\ Elems(Tail(wait_queue[s])) = Elems(wait_queue[s]) \ {p}
    <3>1. wait_queue[s] \in Seq(Proc) /\ Distinct(wait_queue[s])
      BY <1>0 DEF TypeOK, WaitersExact
    <3> QED
      BY <1>3, <3>1, TailList
  <2>2. /\ wait_queue' = [wait_queue EXCEPT ![s] = Tail(@)]
        /\ wakeup_flags' = [wakeup_flags EXCEPT ![p] = "WT_KSEM"]
        /\ Wakeup(p) /\ UNCHANGED value
    BY <1>3 DEF DoUp, Up, WakeupWait
  <2> HIDE DEF p
  <2>3. wait_state[p] = "WT_KSEM" /\ want[p] = s /\ pc[p] = "down"
    BY <1>0, <2>1 DEF WaitersExact, ThreadExact
  <2>4. /\ wait_state' \in [Proc -> {"0", "WT_KSEM", "WT_TIMER"}]
        /\ wait_state'[p] = "0"
        /\ \A q \in Proc : q # p => wait_state'[q] = wait_state[q]
        /\ run_list' \in Seq(Proc)
        /\ CpuExact'
    BY <1>0, <1>1, <2>1, <2>2, <2>3, WakeupFacts
  <2>5. TypeOK'
    <3>1. wait_queue' \in [Sem -> Seq(Proc)]
      BY <1>0, <2>1, <2>2 DEF TypeOK
    <3>2. wakeup_flags' \in [Proc -> {"WT_INTERRUPTED", "WT_KSEM"}]
      BY <1>0, <2>2 DEF TypeOK
    <3>3. balance' \in [Sem -> Nat] /\ value' \in [Sem -> Nat]
      BY <1>0, <1>1, <2>2 DEF TypeOK
    <3> QED
      BY <1>0, <1>1, <2>4, <3>1, <3>2, <3>3 DEF TypeOK
  <2>6. /\ wakeup_flags'[p] = "WT_KSEM"
        /\ \A q \in Proc : q # p => wakeup_flags'[q] = wakeup_flags[q]
    BY <1>0, <2>1, <2>2 DEF TypeOK
  <2>7. ThreadExact'
    BY <1>0, <1>1, <2>3, <2>4, <2>6 DEF ThreadExact
  <2>8. /\ wait_queue'[s] = Tail(wait_queue[s])
        /\ \A t \in Sem : t # s => wait_queue'[t] = wait_queue[t]
    BY <1>0, <2>2 DEF TypeOK
  <2>9. NoIdleUnits'
    BY <1>0, <1>3, <2>2, <2>8 DEF NoIdleUnits
  <2>10. WaitersExact'
    <3>1. \A t \in Sem : Distinct(wait_queue'[t])
      BY <1>0, <2>1, <2>8 DEF WaitersExact
    <3>2. ASSUME NEW t \in Sem, NEW q \in Proc
          PROVE  q \in Elems(wait_queue'[t]) <=> wait_state'[q] = "WT_KSEM" /\ want'[q] = t
      <4>1. q \in Elems(wait_queue[t]) <=> wait_state[q] = "WT_KSEM" /\ want[q] = t
        BY <1>0 DEF WaitersExact
      <4> QED
        BY <1>1, <4>1, <2>1, <2>3, <2>4, <2>8
    <3>3. \A q \in Proc : pc'[q] # "panic"
      BY <1>0, <1>1 DEF WaitersExact
    <3> QED
      BY <3>1, <3>2, <3>3 DEF WaitersExact
  <2>11. ASSUME NEW t \in Sem PROVE balance'[t] = value'[t] + Cardinality(Granted(t))'
    <3>1. balance[t] = value[t] + Cardinality(Granted(t))
      BY <1>0 DEF UnitsConserved
    <3>2. /\ balance[t] \in Nat /\ value[t] \in Nat
          /\ IsFiniteSet(Granted(t)) /\ Cardinality(Granted(t)) \in Nat
      BY <1>0, GrantedFinite DEF TypeOK
    <3>3. CASE t = s
      <4>1. Granted(s)' = Granted(s) \cup {p} /\ p \notin Granted(s)
        BY <1>1, <2>1, <2>3, <2>8 DEF Granted
      <4>2. Cardinality(Granted(s) \cup {p}) = Cardinality(Granted(s)) + 1
        BY <3>2, <3>3, <4>1, FS_AddElement
      <4>3. balance'[s] = balance[s] + 1 /\ value'[s] = value[s]
        BY <1>0, <1>1, <2>2 DEF TypeOK
      <4> QED
        BY <3>1, <3>2, <3>3, <4>1, <4>2, <4>3
    <3>4. CASE t # s
      <4>1. Granted(t)' = Granted(t)
        BY <1>1, <2>8, <3>4 DEF Granted
      <4>2. balance'[t] = balance[t] /\ value'[t] = value[t]
        BY <1>0, <1>1, <2>2, <3>4 DEF TypeOK
      <4> QED
        BY <3>1, <4>1, <4>2
    <3> QED
      BY <3>3, <3>4
  <2> QED
    BY <2>4, <2>5, <2>7, <2>9, <2>10, <2>11 DEF IInv, UnitsConserved
<1> QED
  BY <1>2, <1>3

\* down() that finds a unit.
LEMMA TakeStep ==
    ASSUME IInv, NEW s \in Sem, Take(s),
           balance' = [balance EXCEPT ![s] = @ - 1], UNCHANGED <<pc, want, exiting>>
    PROVE  IInv'
<1>0. TypeOK /\ CpuExact /\ ThreadExact /\ NoIdleUnits /\ WaitersExact /\ UnitsConserved
  BY DEF IInv
<1>1. /\ value[s] > 0 /\ value' = [value EXCEPT ![s] = @ - 1]
      /\ UNCHANGED <<wait_queue, wakeup_flags, current, run_list, wait_state>>
  BY DEF Take, cpuVars
<1>2. \A t \in Sem :
        /\ balance[t] = value[t] + Cardinality(Granted(t))
        /\ balance[t] \in Nat /\ value[t] \in Nat /\ Cardinality(Granted(t)) \in Nat
        /\ balance'[t] = IF t = s THEN balance[t] - 1 ELSE balance[t]
        /\ value'[t] = IF t = s THEN value[t] - 1 ELSE value[t]
        /\ Granted(t)' = Granted(t)
  BY <1>0, <1>1, GrantedFinite DEF TypeOK, UnitsConserved, Granted
<1>3. TypeOK'
  <2>1. \A t \in Sem : balance'[t] \in Nat /\ value'[t] \in Nat
    BY <1>1, <1>2
  <2>2. balance' \in [Sem -> Nat] /\ value' \in [Sem -> Nat]
    BY <1>0, <1>1, <2>1 DEF TypeOK
  <2> QED
    BY <1>0, <1>1, <2>2 DEF TypeOK
<1>4. CpuExact' /\ ThreadExact' /\ WaitersExact'
  BY <1>0, <1>1 DEF CpuExact, ThreadExact, WaitersExact
<1>5. NoIdleUnits'
  BY <1>0, <1>1, <1>2 DEF NoIdleUnits
<1>6. UnitsConserved'
  <2> SUFFICES ASSUME NEW t \in Sem PROVE balance'[t] = value'[t] + Cardinality(Granted(t))'
    BY DEF UnitsConserved
  <2> QED
    BY <1>1, <1>2
<1> QED
  BY <1>3, <1>4, <1>5, <1>6 DEF IInv

\* down() that finds none: the thread goes to sleep at the end of the queue.
LEMMA BlockStep ==
    ASSUME IInv, NEW s \in Sem, Running("run"), Block(s),
           pc' = [pc EXCEPT ![current] = "down"],
           want' = [want EXCEPT ![current] = s], UNCHANGED <<balance, exiting>>
    PROVE  IInv'
<1>0. TypeOK /\ CpuExact /\ ThreadExact /\ NoIdleUnits /\ WaitersExact /\ UnitsConserved
  BY DEF IInv
<1>1. /\ current \in Proc /\ pc[current] = "run" /\ wait_state[current] = "0"
      /\ run_list \in Seq(Proc) /\ Distinct(run_list) /\ Elems(run_list) \subseteq Proc
      /\ \A p \in Elems(run_list) : p # current /\ wait_state[p] = "0"
  BY RunningFacts
<1>2. want[current] = NULL
  BY <1>0, <1>1 DEF ThreadExact
<1>3. /\ value[s] = 0 /\ value' = value
      /\ wait_state' = [wait_state EXCEPT ![current] = "WT_KSEM"]
      /\ wakeup_flags' = [wakeup_flags EXCEPT ![current] = "WT_INTERRUPTED"]
      /\ wait_queue' = [wait_queue EXCEPT ![s] = Append(@, current)]
      /\ Switch(run_list)
  BY DEF Block, WaitCurrentSet
<1>4. /\ \A q \in Proc : q # current => /\ wait_state'[q] = wait_state[q]
                                       /\ wakeup_flags'[q] = wakeup_flags[q]
                                       /\ pc'[q] = pc[q] /\ want'[q] = want[q]
      /\ wait_state'[current] = "WT_KSEM" /\ pc'[current] = "down" /\ want'[current] = s
  BY <1>0, <1>1, <1>3 DEF TypeOK
<1>5. /\ wait_queue'[s] = Append(wait_queue[s], current)
      /\ \A t \in Sem : t # s => wait_queue'[t] = wait_queue[t]
  BY <1>0, <1>3 DEF TypeOK
<1>6. current \notin Elems(wait_queue[s])
  BY <1>0, <1>1 DEF WaitersExact
<1>7. /\ Append(wait_queue[s], current) \in Seq(Proc)
      /\ Elems(Append(wait_queue[s], current)) = Elems(wait_queue[s]) \cup {current}
      /\ Distinct(Append(wait_queue[s], current))
  <2>1. wait_queue[s] \in Seq(Proc) /\ Distinct(wait_queue[s])
    BY <1>0 DEF TypeOK, WaitersExact
  <2> QED
    BY <1>1, <1>6, <2>1, AppendList
<1>8. /\ current' \in Proc \cup {NULL} /\ run_list' \in Seq(Proc)
      /\ Distinct(run_list')
      /\ current' # NULL => wait_state'[current'] = "0"
      /\ \A p \in Elems(run_list') : p # current' /\ wait_state'[p] = "0"
  <2>1. \A p \in Elems(run_list) : wait_state'[p] = "0"
    BY <1>1, <1>4
  <2> QED
    BY <1>1, <1>3, <2>1, SwitchFacts
<1>9. TypeOK'
  <2>1. wait_queue' \in [Sem -> Seq(Proc)]
    BY <1>0, <1>3, <1>5, <1>7 DEF TypeOK
  <2>2. /\ wait_state' \in [Proc -> {"0", "WT_KSEM", "WT_TIMER"}]
        /\ wakeup_flags' \in [Proc -> {"WT_INTERRUPTED", "WT_KSEM"}]
        /\ pc' \in [Proc -> {"run", "down"}]
        /\ want' \in [Proc -> Sem \cup {NULL}]
    BY <1>0, <1>3 DEF TypeOK
  <2> QED
    BY <1>0, <1>3, <1>8, <2>1, <2>2 DEF TypeOK
<1>10. CpuExact'
  BY <1>8 DEF CpuExact
<1>11. ThreadExact'
  BY SemAssumption, <1>0, <1>4 DEF ThreadExact
<1>12. NoIdleUnits'
  BY <1>0, <1>3, <1>5 DEF NoIdleUnits
<1>13. WaitersExact'
  <2>1. \A t \in Sem : Distinct(wait_queue'[t])
    BY <1>0, <1>5, <1>7 DEF WaitersExact
  <2>2. ASSUME NEW t \in Sem, NEW q \in Proc
        PROVE  q \in Elems(wait_queue'[t]) <=> wait_state'[q] = "WT_KSEM" /\ want'[q] = t
    <3>1. q \in Elems(wait_queue[t]) <=> wait_state[q] = "WT_KSEM" /\ want[q] = t
      BY <1>0 DEF WaitersExact
    <3>2. CASE t = s
      BY <1>1, <1>4, <1>5, <1>7, <3>1, <3>2
    <3>3. CASE t # s
      BY <1>1, <1>4, <1>5, <3>1, <3>3
    <3> QED
      BY <3>2, <3>3
  <2>3. \A q \in Proc : pc'[q] # "panic"
    BY <1>9 DEF TypeOK
  <2> QED
    BY <2>1, <2>2, <2>3 DEF WaitersExact
<1>14. UnitsConserved'
  <2> SUFFICES ASSUME NEW t \in Sem PROVE balance'[t] = value'[t] + Cardinality(Granted(t))'
    BY DEF UnitsConserved
  <2>1. Granted(t)' = Granted(t)
    <3>1. CASE t = s
      BY <1>1, <1>4, <1>5, <1>7, <3>1 DEF Granted
    <3>2. CASE t # s
      BY <1>1, <1>4, <1>5, <3>2 DEF Granted
    <3> QED
      BY <3>1, <3>2
  <2> QED
    BY <1>0, <1>3, <2>1 DEF UnitsConserved
<1> QED
  BY <1>9, <1>10, <1>11, <1>12, <1>13, <1>14 DEF IInv

\* A thread that gets the CPU inside down() was handed its unit and is on no
\* wait queue any more.
LEMMA ReturnerFacts ==
    ASSUME IInv, Running("down")
    PROVE  /\ current \in Proc /\ want[current] \in Sem /\ WokenByUp
           /\ \A t \in Sem : current \notin Elems(wait_queue[t])
           /\ wait_queue' = [wait_queue EXCEPT ![want[current]] = Keep(@, Proc \ {current})]
                => wait_queue' = wait_queue
           /\ current \in Granted(want[current])
<1>0. TypeOK /\ CpuExact /\ ThreadExact /\ NoIdleUnits /\ WaitersExact /\ UnitsConserved
  BY DEF IInv
<1>1. current \in Proc /\ pc[current] = "down" /\ wait_state[current] = "0"
  BY RunningFacts
<1>2. want[current] \in Sem /\ WokenByUp
  BY <1>0, <1>1 DEF TypeOK, ThreadExact, WokenByUp
<1>3. \A t \in Sem : current \notin Elems(wait_queue[t])
  BY <1>0, <1>1 DEF WaitersExact
<1>4. Keep(wait_queue[want[current]], Proc \ {current}) = wait_queue[want[current]]
  <2>1. wait_queue[want[current]] \in Seq(Proc)
    BY <1>0, <1>2 DEF TypeOK
  <2>2. Elems(wait_queue[want[current]]) \subseteq Proc \ {current}
    BY <1>2, <1>3, <2>1, ElemsIn
  <2> QED
    BY <2>1, <2>2, KeepList
<1>5. ASSUME wait_queue' = [wait_queue EXCEPT ![want[current]] = Keep(@, Proc \ {current})]
      PROVE  wait_queue' = wait_queue
  BY <1>0, <1>2, <1>4, <1>5 DEF TypeOK
<1>6. current \in Granted(want[current])
  BY <1>1, <1>2, <1>3 DEF Granted
<1> QED
  BY <1>1, <1>2, <1>3, <1>5, <1>6

\* The rest of down() after its schedule().
LEMMA DownReturnsStep ==
    ASSUME IInv, DownReturns
    PROVE  IInv'
<1>0. TypeOK /\ CpuExact /\ ThreadExact /\ NoIdleUnits /\ WaitersExact /\ UnitsConserved
  BY DEF IInv
<1> DEFINE p == current s == want[current]
<1>1. /\ p \in Proc /\ s \in Sem /\ WokenByUp /\ p \in Granted(s)
      /\ wait_state[p] = "0" /\ pc[p] = "down"
      /\ wait_queue' = wait_queue
  BY ReturnerFacts, RunningFacts DEF DownReturns, Unblock
<1>2. /\ UNCHANGED <<value, wakeup_flags, current, run_list, wait_state, exiting>>
      /\ want' = [want EXCEPT ![p] = NULL]
      /\ balance' = [balance EXCEPT ![s] = @ - 1]
      /\ pc' = [pc EXCEPT ![p] = "run"]
  BY <1>1 DEF DownReturns, Unblock, cpuVars
<1> HIDE DEF s
<1>3. /\ s \in Sem /\ want[p] = s /\ want'[p] = NULL /\ pc'[p] = "run"
      /\ \A q \in Proc : q # p => want'[q] = want[q] /\ pc'[q] = pc[q]
  BY <1>0, <1>1, <1>2 DEF TypeOK, s
<1>4. \A t \in Sem : Granted(t)' = IF t = s THEN Granted(t) \ {p} ELSE Granted(t)
  BY SemAssumption, <1>1, <1>3 DEF Granted
<1>5. \A t \in Sem :
        /\ balance[t] = value[t] + Cardinality(Granted(t))
        /\ balance[t] \in Nat /\ value[t] \in Nat
        /\ IsFiniteSet(Granted(t)) /\ Cardinality(Granted(t)) \in Nat
        /\ balance'[t] = IF t = s THEN balance[t] - 1 ELSE balance[t]
  BY <1>0, <1>2, GrantedFinite DEF TypeOK, UnitsConserved
<1>6. /\ Cardinality(Granted(s) \ {p}) = Cardinality(Granted(s)) - 1
      /\ Cardinality(Granted(s) \ {p}) \in Nat
  <2>1. IsFiniteSet(Granted(s)) /\ IsFiniteSet(Granted(s) \ {p})
    BY <1>3, <1>5, FS_RemoveElement
  <2> QED
    BY <1>1, <2>1, FS_RemoveElement, FS_CardinalityType
<1>7. UnitsConserved'
  <2> SUFFICES ASSUME NEW t \in Sem PROVE balance'[t] = value'[t] + Cardinality(Granted(t))'
    BY DEF UnitsConserved
  <2> QED
    <3>1. CASE t = s
      <4>1. Granted(t)' = Granted(s) \ {p}
        BY <1>4, <3>1
      <4>2. balance[s] = value[s] + Cardinality(Granted(s)) /\ balance'[s] = balance[s] - 1
        BY <1>5, <3>1
      <4>3. value[s] \in Nat /\ Cardinality(Granted(s)) \in Nat /\ value' = value
        BY <1>2, <1>5, <3>1
      <4> QED
        BY <1>6, <3>1, <4>1, <4>2, <4>3
    <3>2. CASE t # s
      BY <1>2, <1>4, <1>5, <3>2
    <3> QED
      BY <3>1, <3>2
<1>8. TypeOK'
  <2>1. \A t \in Sem : balance'[t] \in Nat
    BY <1>3, <1>5, <1>6
  <2>2. balance' \in [Sem -> Nat]
    BY <1>0, <1>2, <2>1 DEF TypeOK
  <2> QED
    BY <1>0, <1>1, <1>2, <2>2 DEF TypeOK
<1>9. CpuExact' /\ NoIdleUnits'
  BY <1>0, <1>1, <1>2 DEF CpuExact, NoIdleUnits
<1>10. ThreadExact'
  BY <1>0, <1>1, <1>2, <1>3 DEF ThreadExact
<1>11. WaitersExact'
  <2>1. ASSUME NEW t \in Sem, NEW q \in Proc
        PROVE  q \in Elems(wait_queue'[t]) <=> wait_state'[q] = "WT_KSEM" /\ want'[q] = t
    BY SemAssumption, <1>0, <1>1, <1>2, <1>3 DEF WaitersExact
  <2>2. \A q \in Proc : pc'[q] # "panic"
    BY <1>8 DEF TypeOK
  <2> QED
    BY <1>0, <1>1, <2>1, <2>2 DEF WaitersExact
<1> QED
  BY <1>7, <1>8, <1>9, <1>10, <1>11 DEF IInv

\* Every step that only moves threads between the CPU, its queue and timers.
LEMMA SchedulingStep ==
    ASSUME IInv, \/ DoSleep \/ Yield \/ Idle
                 \/ \E p \in Proc : Kill(p) \/ Timer(p)
    PROVE  IInv' /\ UNCHANGED <<semVars, pc, want, balance>>
<1>0. TypeOK /\ CpuExact /\ ThreadExact
  BY DEF IInv
<1>1. UNCHANGED <<semVars, pc, want, balance>>
  BY DEF DoSleep, Yield, Idle, Kill, Timer, StartSleep, IdleSchedules, TimerFires
<1> DEFINE Moved ==
      /\ exiting' \in [Proc -> BOOLEAN]
      /\ current' \in Proc \cup {NULL} /\ run_list' \in Seq(Proc)
      /\ wait_state' \in [Proc -> {"0", "WT_KSEM", "WT_TIMER"}]
      /\ CpuExact'
      /\ \A p \in Proc : \/ wait_state'[p] = wait_state[p]
                         \/ wait_state'[p] \in {"0", "WT_TIMER"} /\ wait_state[p] # "WT_KSEM"
                            /\ pc[p] = "run"
<1>2. Moved
  <2>1. CASE DoSleep
    <3>1. /\ current \in Proc /\ pc[current] = "run" /\ wait_state[current] = "0"
          /\ run_list \in Seq(Proc) /\ Distinct(run_list) /\ Elems(run_list) \subseteq Proc
          /\ \A p \in Elems(run_list) : p # current /\ wait_state[p] = "0"
      BY <2>1, RunningFacts DEF DoSleep
    <3>2. /\ wait_state' = [wait_state EXCEPT ![current] = "WT_TIMER"]
          /\ Switch(run_list) /\ exiting' = exiting
      BY <2>1 DEF DoSleep, StartSleep
    <3>3. /\ wait_state'[current] = "WT_TIMER"
          /\ \A p \in Proc : p # current => wait_state'[p] = wait_state[p]
          /\ wait_state' \in [Proc -> {"0", "WT_KSEM", "WT_TIMER"}]
      BY <1>0, <3>1, <3>2 DEF TypeOK
    <3>4. \A p \in Elems(run_list) : wait_state'[p] = "0"
      BY <3>1, <3>3
    <3>5. /\ current' \in Proc \cup {NULL} /\ run_list' \in Seq(Proc)
          /\ Distinct(run_list')
          /\ current' # NULL => wait_state'[current'] = "0"
          /\ \A p \in Elems(run_list') : p # current' /\ wait_state'[p] = "0"
      BY <3>1, <3>2, <3>4, SwitchFacts
    <3> QED
      BY <1>0, <3>1, <3>2, <3>3, <3>5 DEF TypeOK, CpuExact
  <2>2. CASE Yield
    <3>1. /\ current \in Proc /\ pc[current] = "run" /\ wait_state[current] = "0"
          /\ run_list \in Seq(Proc) /\ Distinct(run_list) /\ Elems(run_list) \subseteq Proc
          /\ \A p \in Elems(run_list) : p # current /\ wait_state[p] = "0"
      BY <2>2, RunningFacts DEF Yield
    <3>2. /\ wait_state' = wait_state
          /\ Switch(Append(run_list, current)) /\ exiting' = exiting
      BY <2>2 DEF Yield
    <3>3. /\ Append(run_list, current) \in Seq(Proc)
          /\ Elems(Append(run_list, current)) = Elems(run_list) \cup {current}
          /\ Distinct(Append(run_list, current))
      BY <3>1, AppendList
    <3>4. \A p \in Elems(Append(run_list, current)) : wait_state[p] = "0"
      BY <3>1, <3>3
    <3>5. /\ current' \in Proc \cup {NULL} /\ run_list' \in Seq(Proc)
          /\ Distinct(run_list')
          /\ current' # NULL => wait_state[current'] = "0"
          /\ \A p \in Elems(run_list') : p # current' /\ wait_state[p] = "0"
      BY <3>2, <3>3, <3>4, SwitchFacts
    <3> QED
      BY <1>0, <3>2, <3>5 DEF TypeOK, CpuExact
  <2>3. CASE Idle
    <3>1. /\ run_list \in Seq(Proc) /\ Distinct(run_list)
          /\ \A p \in Elems(run_list) : wait_state[p] = "0"
      BY <1>0 DEF TypeOK, CpuExact
    <3>2. wait_state' = wait_state /\ Switch(run_list) /\ exiting' = exiting
      BY <2>3 DEF Idle, IdleSchedules
    <3>3. /\ current' \in Proc \cup {NULL} /\ run_list' \in Seq(Proc)
          /\ Distinct(run_list')
          /\ current' # NULL => wait_state[current'] = "0"
          /\ \A p \in Elems(run_list') : p # current' /\ wait_state[p] = "0"
      BY <3>1, <3>2, SwitchFacts
    <3> QED
      BY <1>0, <3>2, <3>3 DEF TypeOK, CpuExact
  <2>4. ASSUME NEW p \in Proc, wait_state[p] = "WT_TIMER", Wakeup(p),
               current' = current, exiting' \in [Proc -> BOOLEAN]
        PROVE  Moved
    <3>1. /\ wait_state' \in [Proc -> {"0", "WT_KSEM", "WT_TIMER"}]
          /\ wait_state'[p] = "0"
          /\ \A q \in Proc : q # p => wait_state'[q] = wait_state[q]
          /\ run_list' \in Seq(Proc)
          /\ CpuExact'
      BY <1>0, <2>4, WakeupFacts
    <3>2. pc[p] = "run"
      BY <1>0, <2>4 DEF ThreadExact
    <3> QED
      BY <1>0, <2>4, <3>1, <3>2 DEF TypeOK
  <2>5. ASSUME NEW p \in Proc, Kill(p) PROVE Moved
    <3>1. exiting' \in [Proc -> BOOLEAN] /\ current' = current
      BY <1>0, <2>5 DEF Kill, TypeOK
    <3>2. CASE wait_state[p] = "WT_TIMER"
      BY <2>4, <2>5, <3>1, <3>2 DEF Kill, Interruptible
    <3>3. CASE wait_state[p] # "WT_TIMER"
      BY <1>0, <2>5, <3>1, <3>3 DEF Kill, Interruptible, TypeOK, CpuExact
    <3> QED
      BY <3>2, <3>3
  <2>6. ASSUME NEW p \in Proc, Timer(p) PROVE Moved
    <3>1. exiting' \in [Proc -> BOOLEAN]
      BY <1>0, <2>6 DEF Timer, TypeOK
    <3>2. wait_state[p] = "WT_TIMER" /\ Wakeup(p) /\ current' = current
      BY <2>6 DEF Timer, TimerFires
    <3> QED
      BY <2>4, <3>1, <3>2
  <2> QED
    BY <2>1, <2>2, <2>3, <2>5, <2>6
<1>3. TypeOK'
  BY <1>0, <1>1, <1>2 DEF TypeOK, semVars
<1>4. ThreadExact'
  BY <1>0, <1>1, <1>2 DEF ThreadExact, semVars
<1>5. NoIdleUnits' /\ WaitersExact' /\ UnitsConserved'
  <2>1. \A p \in Proc : wait_state'[p] = "WT_KSEM" <=> wait_state[p] = "WT_KSEM"
    BY <1>2
  <2> QED
    BY <1>1, <2>1, SemaphoresKept
<1> QED
  BY <1>1, <1>2, <1>3, <1>4, <1>5 DEF IInv

\* Every step keeps it.
LEMMA NextIInv == IInv /\ [Next]_vars => IInv'
<1> SUFFICES ASSUME IInv, [Next]_vars PROVE IInv'
  OBVIOUS
<1>1. ASSUME NEW s \in Sem, DoUp(s) PROVE IInv'
  BY <1>1, DoUpStep
<1>2. ASSUME NEW s \in Sem, DoDown(s) PROVE IInv'
  <2>1. CASE Take(s) /\ balance' = [balance EXCEPT ![s] = @ - 1] /\ UNCHANGED <<pc, want>>
    BY <1>2, <2>1, TakeStep DEF DoDown
  <2>2. CASE /\ Block(s) /\ pc' = [pc EXCEPT ![current] = "down"]
             /\ want' = [want EXCEPT ![current] = s] /\ UNCHANGED balance
    BY <1>2, <2>2, BlockStep DEF DoDown
  <2> QED
    BY <1>2, <2>1, <2>2 DEF DoDown
<1>3. CASE DownReturns
  BY <1>3, DownReturnsStep
<1>4. CASE \/ DoSleep \/ Yield \/ Idle
           \/ \E p \in Proc : Kill(p) \/ Timer(p)
  BY <1>4, SchedulingStep
<1>5. CASE UNCHANGED vars
  BY <1>5 DEF vars, cpuVars, semVars, IInv, TypeOK, CpuExact, ThreadExact, NoIdleUnits,
              WaitersExact, UnitsConserved, Granted
<1> QED
  BY <1>1, <1>2, <1>3, <1>4, <1>5 DEF Next

\* IInv holds throughout.
LEMMA Inductive == Spec => []IInv
BY InitIInv, NextIInv, PTL DEF Spec

\* A thread is on a wait queue, once, exactly while it sleeps in down() of that
\* semaphore, and no wakeup but up()'s ever makes down() panic.
THEOREM WaitersAreExact == Spec => []WaitersExact
<1>1. IInv => WaitersExact
  BY DEF IInv
<1> QED
  BY <1>1, Inductive, PTL

\* No unit is made or lost, with any number of threads and semaphores.
THEOREM UnitsAreConserved == Spec => []UnitsConserved
<1>1. IInv => UnitsConserved
  BY DEF IInv
<1> QED
  BY <1>1, Inductive, PTL

-----------------------------------------------------------------------------
\* up() is a release when nobody waits, and serves the first otherwise.
LEMMA UpRefines ==
    ASSUME IInv, NEW s \in Sem, DoUp(s)
    PROVE  Fifo!Release(s) \/ Fifo!Serve(s)
<1>0. TypeOK /\ ThreadExact /\ WaitersExact
  BY DEF IInv
<1>1. UNCHANGED <<pc, want>>
  BY DEF DoUp
<1>2. CASE wait_queue[s] = <<>>
  <2>1. value' = [value EXCEPT ![s] = @ + 1] /\ wait_queue' = wait_queue
    BY <1>2 DEF DoUp, Up
  <2>2. [p \in Proc |-> Phase(p)]' = [p \in Proc |-> Phase(p)]
    BY <1>1, <2>1 DEF Phase
  <2> QED
    BY <1>2, <2>1, <2>2 DEF Fifo!Release
<1>3. CASE wait_queue[s] # <<>>
  <2> DEFINE h == Head(wait_queue[s])
  <2>1. /\ h \in Proc /\ h \in Elems(wait_queue[s])
        /\ Elems(Tail(wait_queue[s])) = Elems(wait_queue[s]) \ {h}
    <3>1. wait_queue[s] \in Seq(Proc) /\ Distinct(wait_queue[s])
      BY <1>0 DEF TypeOK, WaitersExact
    <3> QED
      BY <1>3, <3>1, TailList
  <2>2. want[h] = s /\ pc[h] = "down"
    BY <1>0, <2>1 DEF WaitersExact, ThreadExact
  <2>3. wait_queue' = [wait_queue EXCEPT ![s] = Tail(@)] /\ value' = value
    BY <1>3 DEF DoUp, Up, WakeupWait
  <2>4. /\ wait_queue'[s] = Tail(wait_queue[s])
        /\ \A t \in Sem : t # s => wait_queue'[t] = wait_queue[t]
    BY <1>0, <2>3 DEF TypeOK
  <2>5. Phase(h) = "waiting"
    BY <2>1, <2>2 DEF Phase
  <2>6. ASSUME NEW p \in Proc PROVE Phase(p)' = IF p = h THEN "served" ELSE Phase(p)
    <3>1. CASE pc[p] # "down"
      BY <1>1, <2>2, <3>1 DEF Phase
    <3>2. CASE pc[p] = "down" /\ want[p] = s
      BY <1>1, <2>1, <2>2, <2>4, <3>2 DEF Phase
    <3>3. CASE pc[p] = "down" /\ want[p] # s
      <4>1. want[p] \in Sem
        BY <1>0, <3>3 DEF TypeOK, ThreadExact
      <4> QED
        BY <1>1, <2>2, <2>4, <3>3, <4>1 DEF Phase
    <3> QED
      BY <3>1, <3>2, <3>3
  <2>7. [p \in Proc |-> Phase(p)]' = [[p \in Proc |-> Phase(p)] EXCEPT ![h] = "served"]
    <3> HIDE DEF h
    <3> QED
      BY <2>6
  <2> QED
    BY <1>3, <2>1, <2>3, <2>5, <2>7 DEF Fifo!Serve
<1> QED
  BY <1>2, <1>3

\* down() that finds a unit takes it, and nobody was in line.
LEMMA TakeRefines ==
    ASSUME IInv, NEW s \in Sem, Running("run"), Take(s), UNCHANGED <<pc, want>>
    PROVE  Fifo!Take(current, s)
<1>1. current \in Proc /\ Phase(current) = "idle"
  BY RunningFacts DEF Phase
<1>2. /\ value[s] > 0 /\ value' = [value EXCEPT ![s] = @ - 1]
      /\ wait_queue' = wait_queue
  BY DEF Take
<1>3. wait_queue[s] = <<>>
  BY <1>2 DEF IInv, NoIdleUnits
<1>4. [p \in Proc |-> Phase(p)]' = [p \in Proc |-> Phase(p)]
  BY <1>2 DEF Phase
<1> QED
  BY <1>1, <1>2, <1>3, <1>4 DEF Fifo!Take

\* down() that finds none joins the line.
LEMMA BlockRefines ==
    ASSUME IInv, NEW s \in Sem, Running("run"), Block(s),
           pc' = [pc EXCEPT ![current] = "down"],
           want' = [want EXCEPT ![current] = s]
    PROVE  Fifo!Join(current, s)
<1>0. TypeOK /\ ThreadExact /\ WaitersExact
  BY DEF IInv
<1>1. /\ current \in Proc /\ pc[current] = "run" /\ wait_state[current] = "0"
      /\ Phase(current) = "idle"
  BY RunningFacts DEF Phase
<1>2. /\ value[s] = 0 /\ value' = value
      /\ wait_queue' = [wait_queue EXCEPT ![s] = Append(@, current)]
  BY DEF Block, WaitCurrentSet
<1>3. /\ wait_queue'[s] = Append(wait_queue[s], current)
      /\ \A t \in Sem : t # s => wait_queue'[t] = wait_queue[t]
  BY <1>0, <1>2 DEF TypeOK
<1>4. Elems(Append(wait_queue[s], current)) = Elems(wait_queue[s]) \cup {current}
  <2>1. wait_queue[s] \in Seq(Proc)
    BY <1>0 DEF TypeOK
  <2> QED
    BY <1>1, <2>1, AppendList
<1>5. /\ pc'[current] = "down" /\ want'[current] = s
      /\ \A p \in Proc : p # current => pc'[p] = pc[p] /\ want'[p] = want[p]
  BY <1>0, <1>1 DEF TypeOK
<1>6. ASSUME NEW p \in Proc PROVE Phase(p)' = IF p = current THEN "waiting" ELSE Phase(p)
  <2>1. CASE p = current
    BY <1>3, <1>4, <1>5, <2>1 DEF Phase
  <2>2. CASE p # current /\ pc[p] # "down"
    BY <1>5, <2>2 DEF Phase
  <2>3. CASE p # current /\ pc[p] = "down" /\ want[p] = s
    <3>1. want'[p] = s /\ pc'[p] = "down"
      BY <1>5, <2>3
    <3>2. p \in Elems(wait_queue'[s]) <=> p \in Elems(wait_queue[s])
      BY <1>3, <1>4, <2>3
    <3> QED
      BY <2>3, <3>1, <3>2 DEF Phase
  <2>4. CASE p # current /\ pc[p] = "down" /\ want[p] # s
    <3>1. want[p] \in Sem
      BY <1>0, <2>4 DEF TypeOK, ThreadExact
    <3> QED
      BY <1>3, <1>5, <2>4, <3>1 DEF Phase
  <2> QED
    BY <2>1, <2>2, <2>3, <2>4
<1>7. [p \in Proc |-> Phase(p)]' = [[p \in Proc |-> Phase(p)] EXCEPT ![current] = "waiting"]
  BY <1>6
<1> QED
  BY <1>1, <1>2, <1>7 DEF Fifo!Join

\* A thread that was served returns.
LEMMA ReturnRefines ==
    ASSUME IInv, DownReturns
    PROVE  Fifo!Return(current)
<1>0. TypeOK /\ ThreadExact
  BY DEF IInv
<1>1. /\ current \in Proc /\ want[current] \in Sem /\ WokenByUp /\ pc[current] = "down"
      /\ current \notin Elems(wait_queue[want[current]])
      /\ wait_queue' = wait_queue
  BY ReturnerFacts, RunningFacts DEF DownReturns, Unblock
<1>2. /\ value' = value
      /\ pc' = [pc EXCEPT ![current] = "run"] /\ want' = [want EXCEPT ![current] = NULL]
  BY <1>1 DEF DownReturns, Unblock
<1>3. /\ pc'[current] = "run"
      /\ \A p \in Proc : p # current => pc'[p] = pc[p] /\ want'[p] = want[p]
  BY <1>0, <1>1, <1>2 DEF TypeOK
<1>4. Phase(current) = "served"
  BY <1>1 DEF Phase
<1>5. ASSUME NEW p \in Proc PROVE Phase(p)' = IF p = current THEN "idle" ELSE Phase(p)
  BY <1>1, <1>3 DEF Phase
<1>6. [p \in Proc |-> Phase(p)]' = [[p \in Proc |-> Phase(p)] EXCEPT ![current] = "idle"]
  BY <1>5
<1> QED
  BY <1>1, <1>2, <1>4, <1>6 DEF Fifo!Return

\* The initial states are those of a FIFO semaphore.
LEMMA InitRefines == Init => Fifo!Init
<1> SUFFICES ASSUME Init PROVE Fifo!Init
  OBVIOUS
<1>1. /\ value = InitialValue /\ wait_queue = [s \in Sem |-> <<>>]
      /\ pc = [p \in Proc |-> "run"]
  BY DEF Init, SemInit
<1>2. [p \in Proc |-> Phase(p)] = [p \in Proc |-> "idle"]
  BY <1>1 DEF Phase
<1> QED
  BY <1>1, <1>2 DEF Fifo!Init

\* Every step is one of a FIFO semaphore, or leaves it alone.
LEMMA NextRefines == IInv /\ [Next]_vars => [Fifo!Next]_Fifo!vars
<1> SUFFICES ASSUME IInv, [Next]_vars PROVE [Fifo!Next]_Fifo!vars
  OBVIOUS
<1>1. ASSUME NEW s \in Sem, DoUp(s) PROVE Fifo!Next
  BY <1>1, UpRefines DEF Fifo!Next
<1>2. ASSUME NEW s \in Sem, DoDown(s) PROVE Fifo!Next
  <2>0. current \in Proc /\ Running("run")
    BY <1>2, RunningFacts DEF DoDown
  <2>1. CASE Take(s) /\ UNCHANGED <<pc, want>>
    <3>1. Fifo!Take(current, s)
      BY <2>0, <2>1, TakeRefines
    <3> QED
      BY <2>0, <3>1 DEF Fifo!Next
  <2>2. CASE /\ Block(s) /\ pc' = [pc EXCEPT ![current] = "down"]
             /\ want' = [want EXCEPT ![current] = s]
    <3>1. Fifo!Join(current, s)
      BY <2>0, <2>2, BlockRefines
    <3> QED
      BY <2>0, <3>1 DEF Fifo!Next
  <2> QED
    BY <1>2, <2>1, <2>2 DEF DoDown
<1>3. CASE DownReturns
  <2>1. current \in Proc
    BY <1>3, RunningFacts DEF DownReturns
  <2>2. Fifo!Return(current)
    BY <1>3, ReturnRefines
  <2> QED
    BY <2>1, <2>2 DEF Fifo!Next
<1>4. ASSUME UNCHANGED <<semVars, pc, want>> PROVE UNCHANGED Fifo!vars
  <2>1. UNCHANGED <<value, wait_queue, pc, want>>
    BY <1>4 DEF semVars
  <2>2. [p \in Proc |-> Phase(p)]' = [p \in Proc |-> Phase(p)]
    BY <2>1 DEF Phase
  <2> QED
    BY <2>1, <2>2 DEF Fifo!vars
<1>5. CASE \/ DoSleep \/ Yield \/ Idle
           \/ \E p \in Proc : Kill(p) \/ Timer(p)
  BY <1>4, <1>5, SchedulingStep
<1>6. CASE UNCHANGED vars
  BY <1>4, <1>6 DEF vars
<1> QED
  BY <1>1, <1>2, <1>3, <1>5, <1>6 DEF Next

\* The code is a FIFO semaphore: step by step, whatever is killed, woken by a
\* timer or moved to the tail of the run queue in between.
THEOREM RefinesFifo == Spec => Fifo!Safe
<1>1. Init => Fifo!Init
  BY InitRefines
<1>2. IInv /\ [Next]_vars => [Fifo!Next]_Fifo!vars
  BY NextRefines
<1> QED
  BY <1>1, <1>2, Inductive, PTL DEF Spec, Fifo!Safe

-----------------------------------------------------------------------------
\* The monitor of MCSync is that of MonitorProofs.
Proven == INSTANCE MonitorProofs
            WITH Sem <- MonSem, InitialValue <- MonInitialValue,
                 value <- mvalue, wait_queue <- mwait_queue

\* MonitorProofs assumes what MCSync does.
LEMMA MonitorHolds == Proven!SemAssumption /\ Proven!MonitorAssumption
<1>1. MonInitialValue \in [MonSem -> Nat]
  BY DEF MonInitialValue
<1>2. IsFiniteSet(Proc) <=> Proven!IsFiniteSet(Proc)
  BY DEF IsFiniteSet, Proven!IsFiniteSet
<1> QED
  BY <1>1, <1>2, SemAssumption, MonSemAssumption
     DEF Proven!SemAssumption, Proven!MonitorAssumption, MonSem, MonInitialValue

\* The two instances begin alike, in an order of the threads of MCSync.
LEMMA SameInit ==
    ASSUME Mon!Init PROVE Proven!InitMonitor /\ run_list \in Seq(Proc) /\ Proven!Distinct(run_list)
<1>1. Mon!Cardinality(Proc) = Cardinality(Proc)
  BY Zenon DEF Mon!Cardinality, Cardinality
<1>2. Cardinality(Proc) \in Nat
  BY SemAssumption, FS_CardinalityType
<1>3. Mon!Distinct(run_list) <=> Distinct(run_list)
  BY DEF Mon!Distinct, Distinct
<1>4. Proven!Distinct(run_list) <=> Distinct(run_list)
  BY DEF Proven!Distinct, Distinct
<1> QED
  BY <1>1, <1>2, <1>3, <1>4, FunctionList
     DEF Mon!Init, Mon!InitMonitor, Mon!SemInit, Proven!InitMonitor, Proven!SemInit

\* ... and step alike.
LEMMA SameStep ==
    ASSUME Mon!Next PROVE Proven!Next
<1> USE DEF Mon!Is, Proven!Is, Mon!cpuVars, Proven!cpuVars, Mon!semVars, Proven!semVars
<1>1. ASSUME NEW s PROVE Mon!Up(s) <=> Proven!Up(s)
  BY DEF Mon!Up, Proven!Up, Mon!WakeupWait, Proven!WakeupWait, Mon!Wakeup, Proven!Wakeup
<1>2. ASSUME NEW s PROVE Mon!Take(s) <=> Proven!Take(s)
  BY DEF Mon!Take, Proven!Take
<1>3. ASSUME NEW s PROVE Mon!Block(s) <=> Proven!Block(s)
  BY DEF Mon!Block, Proven!Block, Mon!WaitCurrentSet, Proven!WaitCurrentSet,
         Mon!Switch, Proven!Switch
<1>4. ASSUME NEW s PROVE Mon!Unblock(s) <=> Proven!Unblock(s)
  BY Zenon DEF Mon!Unblock, Proven!Unblock, Mon!Keep, Proven!Keep
<1> USE DEF Mon!PassOn, Proven!PassOn
<1>5. CASE Mon!Enter
  BY <1>5, <1>2, <1>3 DEF Mon!Enter, Proven!Enter, Mon!Down, Proven!Down, Proven!Next
<1>6. CASE Mon!EnterEnds
  BY <1>6, <1>4 DEF Mon!EnterEnds, Proven!EnterEnds, Mon!DownEnds, Proven!DownEnds,
                    Mon!WokenByUp, Proven!WokenByUp, Proven!Kernel, Proven!Next
<1>7. CASE Mon!Leave
  BY <1>7, <1>1 DEF Mon!Leave, Proven!Leave, Proven!Next
<1>8. ASSUME NEW c \in Cv, Mon!Signal(c) PROVE Proven!Next
  BY <1>8, <1>1 DEF Mon!Signal, Proven!Signal, Proven!Next
<1>9. CASE Mon!StepBack
  BY <1>9, <1>2, <1>3 DEF Mon!StepBack, Proven!StepBack, Proven!Kernel, Proven!Next
<1>10. CASE Mon!StepBackEnds
  BY <1>10, <1>4 DEF Mon!StepBackEnds, Proven!StepBackEnds, Mon!DownEnds, Proven!DownEnds,
                     Mon!WokenByUp, Proven!WokenByUp, Proven!Kernel, Proven!Next
<1>11. ASSUME NEW c \in Cv, Mon!Wait(c) PROVE Proven!Next
  BY <1>11, <1>1 DEF Mon!Wait, Proven!Wait, Proven!Next
<1>12. CASE Mon!WaitBlocks
  BY <1>12, <1>2, <1>3 DEF Mon!WaitBlocks, Proven!WaitBlocks, Proven!Kernel, Proven!Next
<1>13. CASE Mon!WaitEnds
  BY <1>13, <1>4 DEF Mon!WaitEnds, Proven!WaitEnds, Mon!DownEnds, Proven!DownEnds,
                     Mon!WokenByUp, Proven!WokenByUp, Proven!Kernel, Proven!Next
<1>14. CASE Mon!Nap
  BY <1>14 DEF Mon!Nap, Proven!Nap, Mon!StartSleep, Proven!StartSleep,
               Mon!Switch, Proven!Switch, Proven!Next
<1>15. CASE Mon!Idle
  BY <1>15 DEF Mon!Idle, Proven!Idle, Mon!IdleSchedules, Proven!IdleSchedules,
               Mon!Switch, Proven!Switch, Proven!Kernel, Proven!Next
<1>16. ASSUME NEW p \in Proc, Mon!Timer(p) PROVE Proven!Next
  BY <1>16 DEF Mon!Timer, Proven!Timer, Mon!TimerFires, Proven!TimerFires,
               Mon!Wakeup, Proven!Wakeup, Proven!Next
<1> QED
  BY <1>5, <1>6, <1>7, <1>8, <1>9, <1>10, <1>11, <1>12, <1>13, <1>14, <1>15, <1>16
     DEF Mon!Next, Mon!Kernel

\* The monitor while the threads use semaphores.
Untouched ==
    /\ mvalue = MonInitialValue /\ mwait_queue = [s \in MonSem |-> <<>>]
    /\ next_count = 0 /\ count = [c \in Cv |-> 0]
    /\ mpc = [p \in Proc |-> "out"] /\ cv = [p \in Proc |-> NULL]

\* The inductive invariant of MCSync.
SyncInv ==
    \/ part = "semaphores" /\ IInv /\ Untouched
    \/ part = "monitor" /\ Proven!MonInv

\* Nobody is active in a monitor that is not used.
LEMMA UntouchedIsFree ==
    ASSUME Untouched PROVE OneActive /\ CountsExact /\ Mon!Holder = NULL
<1>1. Mon!Active = {}
  BY DEF Untouched, Mon!Active, Mon!Granted
<1>2. Mon!Cardinality({}) = Cardinality({}) /\ Cardinality({}) = 0
  BY Zenon, FS_EmptySet DEF Mon!Cardinality, Cardinality
<1>3. mvalue[mutex] = 1
  BY DEF Untouched, MonInitialValue, MonSem
<1> QED
  BY <1>1, <1>2, <1>3 DEF OneActive, Mon!OneActive, CountsExact, Mon!CountsExact,
                          Mon!Holder, Untouched

\* What MonitorProofs shows of a monitor that is used.
LEMMA UsedIsRight ==
    ASSUME Proven!MonInv PROVE OneActive /\ CountsExact
<1>1. Proven!OneActive /\ Proven!CountsExact
  BY Proven!MonInvImplies, MonitorHolds
<1>2. Mon!Active = Proven!Active
  BY Zenon DEF Mon!Active, Proven!Active, Mon!Granted, Proven!Granted
<1>3. Mon!Cardinality(Mon!Active) = Proven!Cardinality(Proven!Active)
  BY <1>2, Zenon DEF Mon!Cardinality, Proven!Cardinality
<1> QED
  BY <1>1, <1>3 DEF OneActive, Mon!OneActive, Proven!OneActive,
                    CountsExact, Mon!CountsExact, Proven!CountsExact

\* The two refinement mappings are one.
LEMMA SameMapping ==
    /\ Mon!Holder = Proven!Holder /\ Mon!Back = Proven!Back /\ Mon!Asleep = Proven!Asleep
<1>1. Mon!Holder = Proven!Holder
  BY Zenon DEF Mon!Holder, Proven!Holder, Mon!Active, Proven!Active, Mon!Granted, Proven!Granted
<1>2. Mon!Back = Proven!Back
  BY Zenon DEF Mon!Back, Proven!Back, Mon!Is, Proven!Is
<1>3. Mon!Asleep = Proven!Asleep
  BY Zenon DEF Mon!Asleep, Proven!Asleep, Mon!Is, Proven!Is
<1> QED
  BY <1>1, <1>2, <1>3

\* A step of the threads on the monitor is a step of HoareMonitor, or none.
LEMMA UsedIsHoare ==
    ASSUME Proven!MonInv, Proven!Next
    PROVE  Proven!MonInv' /\ (Mon!Hoare!Next \/ UNCHANGED Mon!Hoare!vars)
<1>1. Proven!MonInv' /\ (Proven!Hoare!Next \/ UNCHANGED Proven!Hoare!vars)
  BY Proven!MonitorStep, MonitorHolds
<1>2. /\ Mon!Holder' = Proven!Holder' /\ Mon!Back' = Proven!Back'
      /\ Mon!Asleep' = Proven!Asleep'
  <2>1. Mon!Holder' = Proven!Holder'
    BY Zenon DEF Mon!Holder, Proven!Holder, Mon!Active, Proven!Active, Mon!Granted, Proven!Granted
  <2>2. Mon!Back' = Proven!Back'
    BY Zenon DEF Mon!Back, Proven!Back, Mon!Is, Proven!Is
  <2>3. Mon!Asleep' = Proven!Asleep'
    BY Zenon DEF Mon!Asleep, Proven!Asleep, Mon!Is, Proven!Is
  <2> QED
    BY <2>1, <2>2, <2>3
<1>3. Proven!Hoare!Next => Mon!Hoare!Next
  BY SameMapping, <1>2 DEF Mon!Hoare!Next, Proven!Hoare!Next, Mon!Hoare!Leave, Proven!Hoare!Leave,
     Mon!Hoare!Enter, Proven!Hoare!Enter, Mon!Hoare!Wait, Proven!Hoare!Wait,
     Mon!Hoare!Signal, Proven!Hoare!Signal, Mon!Hoare!Successor, Proven!Hoare!Successor
<1>4. UNCHANGED Proven!Hoare!vars => UNCHANGED Mon!Hoare!vars
  BY SameMapping, <1>2 DEF Mon!Hoare!vars, Proven!Hoare!vars
<1> QED
  BY <1>1, <1>3, <1>4

\* What threads do on other semaphores is nothing to it.
LEMMA UntouchedStutters ==
    ASSUME IInv, IInv', Untouched, UNCHANGED monOnly
    PROVE  Untouched' /\ UNCHANGED Mon!Hoare!vars
<1>1. UNCHANGED <<mvalue, mwait_queue, next_count, count, mpc, cv>>
  BY DEF monOnly
<1>2. Untouched'
  BY <1>1 DEF Untouched
<1>3. Mon!Active = {} /\ Mon!Active' = {}
  BY <1>2 DEF Untouched, Mon!Active, Mon!Granted
<1>4. Mon!Holder' = Mon!Holder
  BY <1>3 DEF Mon!Holder
<1>5. \A l \in {"signalled", "released"} : ~ Mon!Is(l)
  BY DEF Untouched, Mon!Is, IInv, TypeOK
<1>6. \A l \in {"signalled", "released"} : ~ (current' # NULL /\ mpc'[current'] = l)
  BY <1>2 DEF Untouched, IInv, TypeOK
<1>7. Mon!Back' = Mon!Back /\ Mon!Asleep' = Mon!Asleep
  BY <1>1, <1>5, <1>6 DEF Mon!Back, Mon!Asleep, Mon!Is
<1> QED
  BY <1>1, <1>2, <1>4, <1>7 DEF Mon!Hoare!vars

\* SyncInv is an invariant of the threads of either part, and every step maps
\* to one of HoareMonitor or to none.
LEMMA SyncSteps ==
    ASSUME SyncInv, [SyncNext]_<<part, vars, monOnly>>
    PROVE  SyncInv' /\ (Mon!Hoare!Next \/ UNCHANGED Mon!Hoare!vars)
<1>1. CASE part = "semaphores"
  <2>0. IInv /\ Untouched
    BY <1>1 DEF SyncInv
  <2>1. part' = part /\ [Next]_vars /\ UNCHANGED monOnly
    BY <1>1 DEF SyncNext
  <2>2. IInv'
    BY <2>0, <2>1, NextIInv
  <2>3. Untouched' /\ UNCHANGED Mon!Hoare!vars
    BY <2>0, <2>1, <2>2, UntouchedStutters
  <2> QED
    BY <1>1, <2>1, <2>2, <2>3 DEF SyncInv
<1>2. CASE part = "monitor"
  <2>0. Proven!MonInv
    BY <1>2 DEF SyncInv
  <2>1. CASE Mon!Next /\ part' = part
    <3>1. Proven!Next
      BY <2>1, SameStep
    <3> QED
      BY <1>2, <2>0, <2>1, <3>1, UsedIsHoare DEF SyncInv
  <2>2. CASE UNCHANGED <<part, vars, monOnly>>
    <3>1. UNCHANGED Proven!monVars
      BY <2>2 DEF Proven!monVars, Proven!cpuVars, Proven!semVars, vars, cpuVars, semVars, monOnly
    <3>2. Proven!MonInv'
      BY <2>0, <3>1, Proven!MonitorStutter, MonitorHolds
    <3>3. UNCHANGED Mon!Hoare!vars
      BY <2>2 DEF Mon!Hoare!vars, Mon!Holder, Mon!Back, Mon!Asleep, Mon!Is, Mon!Active,
                  Mon!Granted, vars, cpuVars, semVars, monOnly
    <3> QED
      BY <1>2, <2>2, <3>2, <3>3 DEF SyncInv
  <2> QED
    BY <1>2, <2>1, <2>2 DEF SyncNext
<1> QED
  BY <1>1, <1>2 DEF SyncInv

\* It holds at first, when the monitor maps to one that is free.
LEMMA SyncBegins ==
    ASSUME SyncInit PROVE SyncInv /\ Mon!Hoare!Init
<1>1. IInv
  BY InitIInv DEF SyncInit
<1>2. Untouched
  BY DEF SyncInit, Mon!Init, Mon!InitMonitor, Mon!SemInit, Untouched
<1>3. Proven!MonInv /\ Proven!Hoare!Init
  BY SameInit, Proven!MonitorInit, MonitorHolds DEF SyncInit
<1>4. Mon!Hoare!Init
  BY <1>3, SameMapping DEF Mon!Hoare!Init, Proven!Hoare!Init
<1> QED
  BY <1>1, <1>2, <1>3, <1>4 DEF SyncInit, SyncInv

\* SyncInv is inductive.
LEMMA SyncInductive == SyncSpec => []SyncInv
<1>1. SyncInit => SyncInv
  BY SyncBegins
<1>2. SyncInv /\ [SyncNext]_<<part, vars, monOnly>> => SyncInv'
  BY SyncSteps
<1> QED
  BY <1>1, <1>2, PTL DEF SyncSpec

\* monitor.h:12, one thread at a time is active in a monitor, whoever sleeps,
\* waits or signals in it, with any number of threads and condition variables.
THEOREM OneThreadActive == SyncSpec => []OneActive
<1>1. SyncInv => OneActive
  BY UntouchedIsFree, UsedIsRight DEF SyncInv
<1> QED
  BY <1>1, SyncInductive, PTL

\* count and next_count of a monitor say who is asleep whenever a routine can
\* look at them.
THEOREM CountersAreExact == SyncSpec => []CountsExact
<1>1. SyncInv => CountsExact
  BY UntouchedIsFree, UsedIsRight DEF SyncInv
<1> QED
  BY <1>1, SyncInductive, PTL

\* The semaphores of monitor.c implement a monitor with signal-and-urgent-wait:
\* nobody is active between a signal and the thread that is signalled.
THEOREM MonitorIsHoare == SyncSpec => ImplementsHoare
<1>1. SyncInit => SyncInv /\ Mon!Hoare!Init
  BY SyncBegins
<1>2. SyncInv /\ [SyncNext]_<<part, vars, monOnly>>
        => SyncInv' /\ [Mon!Hoare!Next]_(Mon!Hoare!vars)
  BY SyncSteps
<1> QED
  BY <1>1, <1>2, PTL DEF SyncSpec, ImplementsHoare, Mon!ImplementsHoare, Mon!Hoare!Spec

=============================================================================
