----------------------------- MODULE StdinProofs -----------------------------
(***************************************************************************)
(* The safety of the keyboard buffer and its sleeping readers, for any     *)
(* number of readers, any size of the buffer and reads of any length.      *)
(***************************************************************************)
EXTENDS Stdin, Foundations, FiniteSetTheorems, TLAPS

Slot == 0..(STDIN_BUFSIZE - 1)

TypeOK ==
    /\ current \in Proc \cup {NULL}
    /\ run_list \in Seq(Proc)
    /\ wait_state \in [Proc -> {"0", "WT_KBD"}]
    /\ exiting \in [Proc -> BOOLEAN]
    /\ wait_queue \in Seq(Proc)
    /\ wakeup_flags \in [Proc -> {"WT_INTERRUPTED", "WT_KBD"}]
    /\ stdin_buffer \in [Slot -> Nat]
    /\ p_rpos \in Nat /\ p_wpos \in Nat
    /\ pc \in [Proc -> {"user", "wait", "trapret", "dead"}]
    /\ left \in [Proc -> Nat]
    /\ typed \in Nat /\ consumed \in Seq(Nat) /\ overrun \in BOOLEAN

\* Who has the CPU or waits for it is RUNNABLE, and there once.
CpuExact ==
    /\ Distinct(run_list)
    /\ current # NULL => wait_state[current] = "0"
    /\ \A p \in Elems(run_list) : p # current /\ wait_state[p] = "0"

\* The positions are at most the buffer apart; as long as it never was full the
\* write position counts the keys, and what lies between the two positions are
\* the keys nobody has read.
BufferExact ==
    /\ p_rpos <= p_wpos /\ p_wpos <= p_rpos + STDIN_BUFSIZE
    /\ ~ overrun => /\ p_wpos = typed
                    /\ \A i \in p_rpos..(p_wpos - 1) : stdin_buffer[i % STDIN_BUFSIZE] = i + 1

IInv == TypeOK /\ CpuExact /\ BufferExact /\ NothingLostInOrder /\ SleepersExact

-----------------------------------------------------------------------------
\* Two positions less than the buffer apart are in different slots.
LEMMA SlotsApart ==
    ASSUME NEW i \in Nat, NEW j \in Nat, i < j, j < i + STDIN_BUFSIZE
    PROVE  i % STDIN_BUFSIZE # j % STDIN_BUFSIZE
<1> DEFINE B == STDIN_BUFSIZE
<1>0. B \in Nat \ {0}
  BY StdinAssumption
<1> HIDE DEF B
<1>1. /\ i \div B \in Int /\ i % B \in 0..B - 1 /\ i = B * (i \div B) + (i % B)
      /\ j \div B \in Int /\ j % B \in 0..B - 1 /\ j = B * (j \div B) + (j % B)
  BY <1>0
<1> DEFINE q == j \div B - i \div B
<1>2. SUFFICES ASSUME i % B = j % B PROVE FALSE
  BY DEF B
<1>3. B * (j \div B) - B * (i \div B) = j - i
  BY <1>0, <1>1, <1>2
<1>4. B * q = j - i
  BY <1>0, <1>1, <1>3
<1>5. q <= 0 => B * q <= 0
  BY <1>0, <1>1
<1>6. q >= 1 => B * q >= B
  BY <1>0, <1>1
<1> QED
  BY <1>0, <1>1, <1>4, <1>5, <1>6 DEF B

\* Every position is in a slot.
LEMMA InSlot == \A i \in Nat : i % STDIN_BUFSIZE \in Slot
BY StdinAssumption DEF Slot

\* schedule() with a queue of RUNNABLE threads.
LEMMA SwitchFacts ==
    ASSUME NEW ws, NEW queue \in Seq(Proc), Distinct(queue),
           \A p \in Elems(queue) : ws[p] = "0", Switch(queue)
    PROVE  /\ current' \in Proc \cup {NULL} /\ run_list' \in Seq(Proc)
           /\ Distinct(run_list')
           /\ current' # NULL => ws[current'] = "0"
           /\ \A p \in Elems(run_list') : p # current' /\ ws[p] = "0"
<1>1. CASE queue = <<>>
  BY <1>1, EmptyList DEF Switch
<1>2. CASE queue # <<>>
  <2>1. current' = Head(queue) /\ run_list' = Tail(queue)
    BY <1>2 DEF Switch
  <2>2. /\ Head(queue) \in Elems(queue) /\ Head(queue) \in Proc
        /\ Tail(queue) \in Seq(Proc) /\ Distinct(Tail(queue))
        /\ Elems(Tail(queue)) = Elems(queue) \ {Head(queue)}
    BY <1>2, TailList
  <2> QED
    BY <2>1, <2>2
<1> QED
  BY <1>1, <1>2

\* wakeup_proc of some: those that sleep join the run queue.
LEMMA WakeupFacts ==
    ASSUME TypeOK, CpuExact, NEW ws \in Seq(Proc), Distinct(ws),
           Wakeup(ws), current' = current
    PROVE  /\ wait_state' \in [Proc -> {"0", "WT_KBD"}]
           /\ \A p \in Proc : wait_state'[p] = IF p \in Elems(ws) THEN "0" ELSE wait_state[p]
           /\ run_list' \in Seq(Proc)
           /\ CpuExact'
<1> DEFINE asleep == {p \in Proc : wait_state[p] # "0"}
    woken == Keep(ws, asleep)
<1>0. run_list \in Seq(Proc) /\ Distinct(run_list) /\ Elems(run_list) \subseteq Proc
  BY ElemsIn DEF TypeOK, CpuExact
<1>1. /\ wait_state' = [p \in Proc |-> IF p \in Elems(ws) THEN "0" ELSE wait_state[p]]
      /\ run_list' = run_list \o woken
  BY DEF Wakeup
<1>2. woken \in Seq(Proc) /\ Distinct(woken) /\ Elems(woken) = Elems(ws) \cap asleep
  BY KeepList
<1> HIDE DEF woken
<1>3. Elems(run_list) \cap Elems(woken) = {}
  BY <1>2 DEF CpuExact
<1>4. /\ run_list' \in Seq(Proc) /\ Distinct(run_list')
      /\ Elems(run_list') = Elems(run_list) \cup Elems(woken)
  BY <1>0, <1>1, <1>2, <1>3, ConcatList
<1>5. /\ wait_state' \in [Proc -> {"0", "WT_KBD"}]
      /\ \A p \in Proc : wait_state'[p] = IF p \in Elems(ws) THEN "0" ELSE wait_state[p]
  BY <1>1 DEF TypeOK
<1>6. CpuExact'
  <2>1. \A p \in Elems(run_list') : p # current /\ wait_state'[p] = "0"
    BY StdinAssumption, <1>0, <1>2, <1>4, <1>5 DEF CpuExact
  <2>2. current # NULL => wait_state'[current] = "0"
    BY <1>5 DEF CpuExact, TypeOK
  <2> QED
    BY <1>4, <2>1, <2>2 DEF CpuExact
<1> QED
  BY <1>4, <1>5, <1>6

\* At the start the buffer is empty and nobody sleeps.
LEMMA InitIInv == Init => IInv
<1> SUFFICES ASSUME Init PROVE IInv
  OBVIOUS
<1>0. /\ current = NULL /\ NULL \notin Proc
      /\ wait_state = [p \in Proc |-> "0"] /\ exiting = [p \in Proc |-> FALSE]
      /\ wait_queue = <<>> /\ wakeup_flags = [p \in Proc |-> "WT_INTERRUPTED"]
      /\ p_rpos = 0 /\ p_wpos = 0
      /\ pc = [p \in Proc |-> "user"] /\ left = [p \in Proc |-> 0]
      /\ typed = 0 /\ consumed = <<>> /\ overrun = FALSE
  BY StdinAssumption DEF Init
<1>1. stdin_buffer = [i \in Slot |-> 0]
  BY DEF Init, Slot
<1>2. run_list \in Seq(Proc) /\ Distinct(run_list) /\ Elems(run_list) \subseteq Proc
  <2>1. Cardinality(Proc) \in Nat
    BY StdinAssumption, FS_CardinalityType
  <2>2. run_list \in [1..Cardinality(Proc) -> Proc] /\ Distinct(run_list)
    BY DEF Init
  <2>3. run_list \in Seq(Proc)
    BY <2>1, <2>2, FunctionList
  <2> QED
    BY <2>2, <2>3, ElemsIn
<1>3. TypeOK
  <2>1. consumed \in Seq(Nat) /\ wait_queue \in Seq(Proc)
    BY <1>0
  <2>2. stdin_buffer \in [Slot -> Nat]
    BY <1>1
  <2> QED
    BY <1>0, <1>2, <2>1, <2>2 DEF TypeOK
<1>4. CpuExact
  BY <1>0, <1>2 DEF CpuExact
<1>5. BufferExact
  BY StdinAssumption, <1>0 DEF BufferExact
<1>6. NothingLostInOrder
  BY <1>0 DEF NothingLostInOrder
<1>7. SleepersExact
  BY <1>0, EmptyList DEF SleepersExact
<1> QED
  BY <1>3, <1>4, <1>5, <1>6, <1>7 DEF IInv

-----------------------------------------------------------------------------
\* What the parts of the invariant say together about the CPU's owner.
LEMMA RunningFacts ==
    ASSUME IInv, NEW l, Running(l)
    PROVE  /\ current \in Proc /\ pc[current] = l /\ wait_state[current] = "0"
           /\ run_list \in Seq(Proc) /\ Distinct(run_list) /\ Elems(run_list) \subseteq Proc
           /\ \A p \in Elems(run_list) : p # current /\ wait_state[p] = "0"
<1>1. run_list \in Seq(Proc)
  BY DEF IInv, TypeOK
<1>2. Elems(run_list) \subseteq Proc
  BY <1>1, ElemsIn
<1> QED
  BY <1>1, <1>2 DEF IInv, TypeOK, CpuExact, Running

\* A step that neither types nor reads keeps what is known of the buffer.
LEMMA BufferKept ==
    ASSUME BufferExact, NothingLostInOrder, UNCHANGED <<inputVars, p_rpos, consumed>>
    PROVE  BufferExact' /\ NothingLostInOrder'
BY DEF BufferExact, NothingLostInOrder, inputVars

\* Counting on from r.
LEMMA CountedOn ==
    ASSUME NEW r \in Nat, NEW k \in Nat
    PROVE  [i \in 1..r |-> i] \o [i \in 1..k |-> r + i] = [i \in 1..r + k |-> i]
<1> DEFINE x == [i \in 1..r |-> i] y == [i \in 1..k |-> r + i] z == [i \in 1..r + k |-> i]
<1>1. x \in Seq(Nat) /\ Len(x) = r /\ y \in Seq(Nat) /\ Len(y) = k
  OBVIOUS
<1>2. x \o y \in Seq(Nat) /\ Len(x \o y) = r + k
  BY <1>1
<1>3. ASSUME NEW i \in 1..r + k PROVE (x \o y)[i] = i
  <2>1. CASE i <= r
    BY <1>1, <2>1
  <2>2. CASE i > r
    <3>1. i - r \in 1..k /\ (x \o y)[i] = y[i - r]
      BY <1>1, <2>2
    <3> QED
      BY <3>1
  <2> QED
    BY <2>1, <2>2
<1>4. z \in Seq(Nat) /\ Len(z) = r + k /\ \A i \in 1..r + k : z[i] = i
  OBVIOUS
<1> HIDE DEF x, y, z
<1>5. x \o y = z
  BY <1>2, <1>3, <1>4
<1> QED
  BY <1>5 DEF x, y, z

\* The timer interrupt with a key: it goes into the buffer and wakes all.
LEMMA TypeStep ==
    ASSUME IInv, Type
    PROVE  IInv'
<1> DEFINE B == STDIN_BUFSIZE
<1>0. /\ TypeOK /\ CpuExact /\ BufferExact /\ NothingLostInOrder /\ SleepersExact
      /\ B \in Nat \ {0}
  BY StdinAssumption DEF IInv
<1>1. /\ current # NULL => pc[current] = "user"
      /\ typed' = typed + 1
      /\ stdin_buffer' = [stdin_buffer EXCEPT ![p_wpos % B] = typed']
      /\ p_wpos' = IF p_wpos - p_rpos < B THEN p_wpos + 1 ELSE p_wpos
      /\ overrun' = (overrun \/ p_wpos - p_rpos = B)
      /\ pc' = IF current = NULL THEN pc ELSE [pc EXCEPT ![current] = "trapret"]
      /\ UNCHANGED <<current, exiting, p_rpos, left, consumed>>
  BY DEF Type, Room
<1>2. /\ wait_queue' = <<>>
      /\ wakeup_flags' = [p \in Proc |-> IF p \in Elems(wait_queue) THEN "WT_KBD"
                                                                   ELSE wakeup_flags[p]]
      /\ Wakeup(wait_queue)
  BY DEF Type, WakeupQueue
<1> HIDE DEF B
<1>3. /\ wait_state' \in [Proc -> {"0", "WT_KBD"}]
      /\ \A p \in Proc : wait_state'[p] = IF p \in Elems(wait_queue) THEN "0" ELSE wait_state[p]
      /\ run_list' \in Seq(Proc)
      /\ CpuExact'
  <2>1. wait_queue \in Seq(Proc) /\ Distinct(wait_queue)
    BY <1>0 DEF TypeOK, SleepersExact
  <2> QED
    BY <1>0, <1>1, <1>2, <2>1, WakeupFacts
<1>4. /\ p_wpos % B \in Slot /\ stdin_buffer \in [Slot -> Nat]
      /\ p_wpos \in Nat /\ p_rpos \in Nat /\ typed \in Nat
  BY <1>0, InSlot DEF TypeOK, B
<1>5. stdin_buffer' \in [Slot -> Nat]
  BY <1>1, <1>4
<1>6. TypeOK'
  <2>1. wait_queue' \in Seq(Proc)
    BY <1>2
  <2>2. wakeup_flags' \in [Proc -> {"WT_INTERRUPTED", "WT_KBD"}]
    BY <1>0, <1>2 DEF TypeOK
  <2>3. pc' \in [Proc -> {"user", "wait", "trapret", "dead"}]
    BY <1>0, <1>1 DEF TypeOK
  <2>4. p_wpos' \in Nat /\ typed' \in Nat /\ overrun' \in BOOLEAN
    BY <1>0, <1>1 DEF TypeOK
  <2> QED
    BY <1>0, <1>1, <1>3, <1>5, <2>1, <2>2, <2>3, <2>4 DEF TypeOK
<1>7. BufferExact'
  <2>1. p_rpos' <= p_wpos' /\ p_wpos' <= p_rpos' + B
    BY <1>0, <1>1, <1>4 DEF BufferExact, B
  <2>2. ASSUME ~ overrun'
        PROVE  /\ ~ overrun /\ p_wpos - p_rpos < B /\ p_wpos = typed
               /\ p_wpos' = p_wpos + 1
    <3>1. ~ overrun /\ p_wpos - p_rpos # B
      BY <1>1, <2>2, Zenon
    <3>2. p_wpos = typed /\ p_wpos <= p_rpos + B
      BY <1>0, <3>1 DEF BufferExact, B
    <3>3. p_wpos - p_rpos < B
      BY <1>0, <1>4, <3>1, <3>2
    <3> QED
      BY <1>1, <3>1, <3>2, <3>3
  <2>3. ASSUME ~ overrun', NEW i \in p_rpos'..(p_wpos' - 1)
        PROVE  stdin_buffer'[i % B] = i + 1
    <3>0. i \in p_rpos..p_wpos
      BY <1>1, <1>4, <2>2, <2>3
    <3>1. /\ ~ overrun /\ p_wpos - p_rpos < B /\ p_wpos = typed
          /\ i \in Nat /\ p_rpos <= i /\ i <= p_wpos
      BY <1>4, <2>2, <2>3, <3>0
    <3>2. CASE i = p_wpos
      BY <1>1, <1>4, <3>1, <3>2
    <3>3. CASE i < p_wpos
      <4>0. i % B \in Slot
        BY <3>1, InSlot DEF B
      <4>1. i % B # p_wpos % B
        <5>1. p_wpos < i + B
          BY <1>0, <1>4, <3>1
        <5> QED
          BY <1>4, <3>1, <3>3, <5>1, SlotsApart DEF B
      <4>2. stdin_buffer[i % B] = i + 1
        BY <1>0, <1>4, <3>1, <3>3 DEF BufferExact, B
      <4> QED
        BY <1>1, <1>4, <4>0, <4>1, <4>2
    <3> QED
      BY <1>4, <3>1, <3>2, <3>3
  <2>4. ASSUME ~ overrun' PROVE p_wpos' = typed'
    BY <1>1, <2>2, <2>4
  <2> QED
    BY <2>1, <2>3, <2>4 DEF BufferExact, B
<1>8. NothingLostInOrder'
  BY <1>0, <1>1 DEF NothingLostInOrder
<1>9. SleepersExact'
  <2>1. \A p \in Proc : wait_state'[p] = "0"
    BY <1>0, <1>3 DEF SleepersExact, TypeOK
  <2> QED
    BY <1>2, <2>1, EmptyList DEF SleepersExact
<1> QED
  BY <1>3, <1>6, <1>7, <1>8, <1>9 DEF IInv

\* One round of the loop of dev_stdin_read, with the wait_t of current off the
\* queue: the keys that are there are taken, and the reader goes to sleep when
\* they are not enough.
LEMMA ReadOnStep ==
    ASSUME IInv, NEW l, Running(l), NEW n \in Nat, NEW queue \in Seq(Proc), Distinct(queue),
           Elems(queue) = Elems(wait_queue) \ {current}, ReadOn(n, queue)
    PROVE  IInv'
<1> DEFINE B == STDIN_BUFSIZE
    k == Available(n)
    new == [i \in 1..k |-> stdin_buffer[(p_rpos + i - 1) % B]]
<1>0. /\ TypeOK /\ CpuExact /\ BufferExact /\ NothingLostInOrder /\ SleepersExact
      /\ B \in Nat \ {0}
  BY StdinAssumption DEF IInv
<1>1. /\ current \in Proc /\ pc[current] = l /\ wait_state[current] = "0"
      /\ run_list \in Seq(Proc) /\ Distinct(run_list) /\ Elems(run_list) \subseteq Proc
      /\ \A p \in Elems(run_list) : p # current /\ wait_state[p] = "0"
  BY RunningFacts
<1>2. /\ p_rpos \in Nat /\ p_wpos \in Nat /\ p_rpos <= p_wpos /\ p_wpos <= p_rpos + B
      /\ k \in Nat /\ k <= n /\ k <= p_wpos - p_rpos /\ (k # n => k = p_wpos - p_rpos)
  BY <1>0 DEF TypeOK, BufferExact, Available
<1>3. /\ p_rpos' = p_rpos + k /\ consumed' = consumed \o new
      /\ left' = [left EXCEPT ![current] = n - k]
      /\ UNCHANGED <<exiting, stdin_buffer, p_wpos, typed, overrun>>
  BY DEF ReadOn, inputVars
<1> HIDE DEF B, k, new
<1>4. new \in Seq(Nat) /\ consumed' \in Seq(Nat)
  <2>1. \A i \in 1..k : p_rpos + i - 1 \in Nat
    BY <1>2
  <2>2. \A i \in 1..k : stdin_buffer[(p_rpos + i - 1) % B] \in Nat
    BY <1>0, <2>1, InSlot DEF TypeOK, B
  <2>3. new \in [1..k -> Nat]
    BY <2>2 DEF new
  <2>4. new \in Seq(Nat)
    BY <1>2, <2>3, FunctionList
  <2> QED
    BY <1>0, <1>3, <2>4 DEF TypeOK
<1>5. BufferExact'
  <2>1. p_rpos' <= p_wpos' /\ p_wpos' <= p_rpos' + B
    BY <1>0, <1>2, <1>3
  <2>2. ASSUME ~ overrun, NEW i \in p_rpos'..(p_wpos - 1)
        PROVE  stdin_buffer[i % B] = i + 1
    <3>1. i \in p_rpos..(p_wpos - 1)
      BY <1>2, <1>3
    <3> QED
      BY <1>0, <2>2, <3>1 DEF BufferExact, B
  <2>3. ~ overrun => p_wpos = typed
    BY <1>0 DEF BufferExact
  <2> QED
    BY <1>3, <2>1, <2>2, <2>3 DEF BufferExact, B
<1>6. NothingLostInOrder'
  <2> SUFFICES ASSUME ~ overrun PROVE consumed' = [i \in 1..p_rpos + k |-> i]
    BY <1>3 DEF NothingLostInOrder
  <2>1. consumed = [i \in 1..p_rpos |-> i]
    BY <1>0 DEF NothingLostInOrder
  <2>2. new = [i \in 1..k |-> p_rpos + i]
    <3>1. ASSUME NEW i \in 1..k PROVE stdin_buffer[(p_rpos + i - 1) % B] = p_rpos + i
      <4>1. p_rpos + i - 1 \in p_rpos..(p_wpos - 1) /\ (p_rpos + i - 1) + 1 = p_rpos + i
        BY <1>2
      <4> QED
        BY <1>0, <4>1 DEF BufferExact, B
    <3> QED
      BY <3>1 DEF new
  <2> QED
    BY <1>2, <1>3, <2>1, <2>2, CountedOn
<1>7. left' \in [Proc -> Nat]
  BY <1>0, <1>1, <1>2, <1>3 DEF TypeOK
<1>8. /\ current \notin Elems(queue) /\ Elems(queue) \subseteq Elems(wait_queue)
      /\ \A p \in Elems(queue) : p # current /\ pc[p] = "wait"
      /\ \A p \in Proc : wait_state[p] = "WT_KBD" => /\ p \in Elems(queue) /\ p # current
                                                    /\ p_rpos = p_wpos
  BY <1>0, <1>1 DEF SleepersExact
<1>9. CASE k = n
  <2>1. /\ pc' = [pc EXCEPT ![current] = "trapret"] /\ wait_queue' = queue
        /\ UNCHANGED <<current, run_list, wait_state, wakeup_flags>>
    BY <1>9 DEF ReadOn, cpuVars, k
  <2>2. TypeOK'
    <3>1. pc' \in [Proc -> {"user", "wait", "trapret", "dead"}]
      BY <1>0, <2>1 DEF TypeOK
    <3>2. p_rpos' \in Nat
      BY <1>2, <1>3
    <3> QED
      BY <1>0, <1>3, <1>4, <1>7, <2>1, <3>1, <3>2 DEF TypeOK
  <2>3. CpuExact'
    BY <1>0, <2>1 DEF CpuExact
  <2>4. SleepersExact'
    <3>1. \A p \in Elems(wait_queue') : pc'[p] = "wait"
      BY <1>0, <1>8, <2>1 DEF TypeOK
    <3>2. \A p \in Proc : wait_state'[p] = "WT_KBD" => p \in Elems(wait_queue') /\ p_rpos' = p_wpos'
      BY <1>2, <1>3, <1>8, <2>1
    <3> QED
      BY <2>1, <3>1, <3>2 DEF SleepersExact
  <2> QED
    BY <1>5, <1>6, <2>2, <2>3, <2>4 DEF IInv
<1>10. CASE k # n
  <2>1. /\ pc' = [pc EXCEPT ![current] = "wait"] /\ wait_queue' = Append(queue, current)
        /\ wakeup_flags' = [wakeup_flags EXCEPT ![current] = "WT_INTERRUPTED"]
        /\ wait_state' = [wait_state EXCEPT ![current] = "WT_KBD"]
        /\ Switch(run_list)
    BY <1>10 DEF ReadOn, k
  <2>2. /\ wait_state' \in [Proc -> {"0", "WT_KBD"}] /\ wait_state'[current] = "WT_KBD"
        /\ \A p \in Proc : p # current => wait_state'[p] = wait_state[p] /\ pc'[p] = pc[p]
        /\ pc'[current] = "wait" /\ pc' \in [Proc -> {"user", "wait", "trapret", "dead"}]
        /\ wakeup_flags' \in [Proc -> {"WT_INTERRUPTED", "WT_KBD"}]
    BY <1>0, <1>1, <2>1 DEF TypeOK
  <2>3. /\ current' \in Proc \cup {NULL} /\ run_list' \in Seq(Proc)
        /\ Distinct(run_list')
        /\ current' # NULL => wait_state'[current'] = "0"
        /\ \A p \in Elems(run_list') : p # current' /\ wait_state'[p] = "0"
    <3>1. \A p \in Elems(run_list) : wait_state'[p] = "0"
      BY <1>1, <2>2
    <3> QED
      BY <1>1, <2>1, <3>1, SwitchFacts
  <2>4. /\ wait_queue' \in Seq(Proc) /\ Distinct(wait_queue')
        /\ Elems(wait_queue') = Elems(queue) \cup {current}
    BY <1>1, <1>8, <2>1, AppendList
  <2>5. TypeOK'
    <3>1. p_rpos' \in Nat
      BY <1>2, <1>3
    <3> QED
      BY <1>0, <1>3, <1>4, <1>7, <2>2, <2>3, <2>4, <3>1 DEF TypeOK
  <2>6. CpuExact'
    BY <2>3 DEF CpuExact
  <2>7. SleepersExact'
    <3>1. Elems(wait_queue') \subseteq Proc
      BY <2>4, ElemsIn
    <3>2. \A p \in Elems(wait_queue') : pc'[p] = "wait"
      BY <1>8, <2>2, <2>4, <3>1
    <3>3. p_rpos' = p_wpos'
      BY <1>2, <1>3, <1>10
    <3>4. \A p \in Proc : wait_state'[p] = "WT_KBD" => p \in Elems(wait_queue')
      BY <1>8, <2>2, <2>4
    <3> QED
      BY <2>4, <3>2, <3>3, <3>4 DEF SleepersExact
  <2> QED
    BY <1>5, <1>6, <2>5, <2>6, <2>7 DEF IInv
<1> QED
  BY <1>9, <1>10

\* dev_stdin_read from the start
LEMMA ReadStep ==
    ASSUME IInv, NEW n \in 1..MAX_LEN, Read(n)
    PROVE  IInv'
<1>1. current \in Proc /\ pc[current] = "user" /\ Running("user")
  BY RunningFacts DEF Read
<1>2. wait_queue \in Seq(Proc) /\ Distinct(wait_queue) /\ current \notin Elems(wait_queue)
  BY <1>1 DEF IInv, TypeOK, SleepersExact
<1>3. n \in Nat /\ ReadOn(n, wait_queue)
  BY StdinAssumption DEF Read
<1> QED
  BY <1>1, <1>2, <1>3, ReadOnStep

\* ... and after its schedule()
LEMMA ReadResumesStep ==
    ASSUME IInv, ReadResumes
    PROVE  IInv'
<1>0. TypeOK /\ CpuExact /\ BufferExact /\ NothingLostInOrder /\ SleepersExact
  BY DEF IInv
<1>1. /\ current \in Proc /\ pc[current] = "wait" /\ wait_state[current] = "0"
      /\ Running("wait")
  BY RunningFacts DEF ReadResumes
<1>2. /\ Unlinked \in Seq(Proc) /\ Distinct(Unlinked)
      /\ Elems(Unlinked) = Elems(wait_queue) \ {current}
  <2>1. wait_queue \in Seq(Proc) /\ Distinct(wait_queue)
    BY <1>0 DEF TypeOK, SleepersExact
  <2>2. Elems(wait_queue) \subseteq Proc
    BY <2>1, ElemsIn
  <2>3. /\ Unlinked \in Seq(Proc) /\ Distinct(Unlinked)
        /\ Elems(Unlinked) = Elems(wait_queue) \cap (Proc \ {current})
    BY <2>1, KeepList DEF Unlinked
  <2> QED
    BY <2>2, <2>3
<1>3. CASE wakeup_flags[current] = "WT_KBD"
  <2>1. left[current] \in Nat /\ ReadOn(left[current], Unlinked)
    BY <1>0, <1>1, <1>3 DEF TypeOK, ReadResumes
  <2> QED
    BY <1>1, <1>2, <2>1, ReadOnStep
<1>4. CASE wakeup_flags[current] # "WT_KBD"
  <2>1. /\ wait_queue' = Unlinked
        /\ pc' = [pc EXCEPT ![current] = "trapret"]
        /\ UNCHANGED <<cpuVars, wakeup_flags, exiting, inputVars, p_rpos, left, consumed>>
    BY <1>4 DEF ReadResumes
  <2>2. /\ pc' \in [Proc -> {"user", "wait", "trapret", "dead"}]
        /\ \A p \in Proc : p # current => pc'[p] = pc[p]
    BY <1>0, <1>1, <2>1 DEF TypeOK
  <2>3. TypeOK'
    BY <1>0, <1>2, <2>1, <2>2 DEF TypeOK, cpuVars, inputVars
  <2>4. CpuExact'
    BY <1>0, <2>1 DEF CpuExact, cpuVars
  <2>5. SleepersExact'
    <3>1. Elems(wait_queue') \subseteq Proc
      BY <1>2, <2>1, ElemsIn
    <3>2. \A p \in Elems(wait_queue') : pc'[p] = "wait"
      BY <1>0, <1>2, <2>1, <2>2, <3>1 DEF SleepersExact
    <3>3. \A p \in Proc : wait_state'[p] = "WT_KBD" => p \in Elems(wait_queue') /\ p_rpos' = p_wpos'
      BY <1>0, <1>1, <1>2, <2>1 DEF SleepersExact, cpuVars, inputVars
    <3> QED
      BY <1>2, <2>1, <3>2, <3>3 DEF SleepersExact
  <2> QED
    BY <1>0, <2>1, <2>3, <2>4, <2>5, BufferKept DEF IInv
<1> QED
  BY <1>3, <1>4

\* The steps that neither read nor type.
LEMMA OtherStep ==
    ASSUME IInv, TrapReturn \/ Tick \/ Idle \/ \E p \in Proc : Kill(p)
    PROVE  IInv'
<1>0. TypeOK /\ CpuExact /\ BufferExact /\ NothingLostInOrder /\ SleepersExact
  BY DEF IInv
<1>1. UNCHANGED <<waitVars, inputVars, p_rpos, left, consumed>>
  BY DEF TrapReturn, Tick, Idle, Kill
<1>2. UNCHANGED <<wait_queue, wakeup_flags, stdin_buffer, p_wpos, p_rpos, typed, overrun>>
  BY <1>1 DEF waitVars, inputVars
<1> DEFINE Moved ==
      /\ exiting' \in [Proc -> BOOLEAN]
      /\ current' \in Proc \cup {NULL} /\ run_list' \in Seq(Proc)
      /\ wait_state' \in [Proc -> {"0", "WT_KBD"}]
      /\ pc' \in [Proc -> {"user", "wait", "trapret", "dead"}]
      /\ CpuExact'
      /\ \A p \in Proc : /\ wait_state'[p] \in {wait_state[p], "0"}
                         /\ pc[p] = "wait" => pc'[p] = "wait"
<1>3. Moved
  <2>1. CASE TrapReturn
    <3>1. /\ current \in Proc /\ pc[current] = "trapret" /\ wait_state[current] = "0"
          /\ run_list \in Seq(Proc) /\ Distinct(run_list) /\ Elems(run_list) \subseteq Proc
          /\ \A p \in Elems(run_list) : p # current /\ wait_state[p] = "0"
      BY <2>1, RunningFacts DEF TrapReturn
    <3>2. /\ wait_state' = wait_state /\ exiting' = exiting
          /\ \/ pc' = [pc EXCEPT ![current] = "dead"]
             \/ pc' = [pc EXCEPT ![current] = "user"]
          /\ \/ Switch(run_list) \/ Switch(Append(run_list, current))
             \/ UNCHANGED <<current, run_list>>
      BY <2>1 DEF TrapReturn
    <3>3. /\ Append(run_list, current) \in Seq(Proc)
          /\ Elems(Append(run_list, current)) = Elems(run_list) \cup {current}
          /\ Distinct(Append(run_list, current))
      BY <3>1, AppendList
    <3> DEFINE Placed == /\ current' \in Proc \cup {NULL} /\ run_list' \in Seq(Proc)
                         /\ Distinct(run_list')
                         /\ current' # NULL => wait_state[current'] = "0"
                         /\ \A p \in Elems(run_list') : p # current' /\ wait_state[p] = "0"
    <3>4. ASSUME Switch(run_list) PROVE Placed
      BY <3>1, <3>4, SwitchFacts
    <3>5. ASSUME Switch(Append(run_list, current)) PROVE Placed
      <4>1. \A p \in Elems(Append(run_list, current)) : wait_state[p] = "0"
        BY <3>1, <3>3
      <4> QED
        BY <3>3, <3>5, <4>1, SwitchFacts
    <3>6. ASSUME UNCHANGED <<current, run_list>> PROVE Placed
      BY <1>0, <3>1, <3>6
    <3>7. Placed
      BY <3>2, <3>4, <3>5, <3>6
    <3>8. /\ pc' \in [Proc -> {"user", "wait", "trapret", "dead"}]
          /\ \A p \in Proc : pc[p] = "wait" => pc'[p] = "wait"
      BY <1>0, <3>1, <3>2 DEF TypeOK
    <3> QED
      BY <1>0, <3>2, <3>7, <3>8 DEF TypeOK, CpuExact
  <2>2. CASE Tick
    <3>1. current \in Proc /\ pc[current] = "user"
      BY <2>2, RunningFacts DEF Tick
    <3>2. /\ pc' = [pc EXCEPT ![current] = "trapret"]
          /\ UNCHANGED <<current, run_list, wait_state, exiting>>
      BY <2>2 DEF Tick, cpuVars
    <3>3. /\ pc' \in [Proc -> {"user", "wait", "trapret", "dead"}]
          /\ \A p \in Proc : pc[p] = "wait" => pc'[p] = "wait"
      BY <1>0, <3>1, <3>2 DEF TypeOK
    <3> QED
      BY <1>0, <3>2, <3>3 DEF TypeOK, CpuExact
  <2>3. CASE Idle
    <3>1. /\ run_list \in Seq(Proc) /\ Distinct(run_list)
          /\ \A p \in Elems(run_list) : wait_state[p] = "0"
      BY <1>0 DEF TypeOK, CpuExact
    <3>2. UNCHANGED <<wait_state, exiting, pc>> /\ Switch(run_list)
      BY <2>3 DEF Idle
    <3>3. /\ current' \in Proc \cup {NULL} /\ run_list' \in Seq(Proc)
          /\ Distinct(run_list')
          /\ current' # NULL => wait_state[current'] = "0"
          /\ \A p \in Elems(run_list') : p # current' /\ wait_state[p] = "0"
      BY <3>1, <3>2, SwitchFacts
    <3> QED
      BY <1>0, <3>2, <3>3 DEF TypeOK, CpuExact
  <2>4. ASSUME NEW p \in Proc, Kill(p) PROVE Moved
    <3>1. current \in Proc /\ pc[current] = "user"
      BY <2>4, RunningFacts DEF Kill
    <3>2. /\ pc' = [pc EXCEPT ![current] = "trapret"] /\ current' = current
          /\ exiting' = [exiting EXCEPT ![p] = TRUE] /\ Wakeup(<<p>>)
      BY <2>4 DEF Kill
    <3>3. <<p>> \in Seq(Proc) /\ Distinct(<<p>>)
      BY SingletonList
    <3>4. /\ wait_state' \in [Proc -> {"0", "WT_KBD"}]
          /\ \A q \in Proc : wait_state'[q] = IF q \in Elems(<<p>>) THEN "0" ELSE wait_state[q]
          /\ run_list' \in Seq(Proc)
          /\ CpuExact'
      BY <1>0, <3>2, <3>3, WakeupFacts
    <3>5. /\ pc' \in [Proc -> {"user", "wait", "trapret", "dead"}]
          /\ exiting' \in [Proc -> BOOLEAN]
          /\ \A q \in Proc : pc[q] = "wait" => pc'[q] = "wait"
      BY <1>0, <3>1, <3>2 DEF TypeOK
    <3> QED
      BY <1>0, <3>2, <3>4, <3>5 DEF TypeOK
  <2> QED
    BY <2>1, <2>2, <2>3, <2>4
<1>4. TypeOK'
  BY <1>0, <1>1, <1>2, <1>3 DEF TypeOK
<1>5. SleepersExact'
  <2>1. Elems(wait_queue) \subseteq Proc
    BY <1>0, ElemsIn DEF TypeOK
  <2>2. \A p \in Elems(wait_queue') : pc'[p] = "wait"
    BY <1>0, <1>2, <1>3, <2>1 DEF SleepersExact
  <2>3. \A p \in Proc : wait_state'[p] = "WT_KBD" => p \in Elems(wait_queue') /\ p_rpos' = p_wpos'
    BY <1>0, <1>2, <1>3 DEF SleepersExact
  <2> QED
    BY <1>0, <1>2, <2>2, <2>3 DEF SleepersExact
<1> QED
  BY <1>0, <1>1, <1>3, <1>4, <1>5, BufferKept DEF IInv

\* Every step keeps it.
LEMMA NextIInv == IInv /\ [Next]_vars => IInv'
<1> SUFFICES ASSUME IInv, [Next]_vars PROVE IInv'
  OBVIOUS
<1>1. CASE Type
  BY <1>1, TypeStep
<1>2. CASE ReadResumes
  BY <1>2, ReadResumesStep
<1>3. ASSUME NEW n \in 1..MAX_LEN, Read(n) PROVE IInv'
  BY <1>3, ReadStep
<1>4. CASE TrapReturn \/ Tick \/ Idle \/ \E p \in Proc : Kill(p)
  BY <1>4, OtherStep
<1>5. CASE UNCHANGED vars
  BY <1>5 DEF vars, cpuVars, waitVars, inputVars, IInv, TypeOK, CpuExact, BufferExact,
              NothingLostInOrder, SleepersExact
<1> QED
  BY <1>1, <1>2, <1>3, <1>4, <1>5 DEF Next

\* IInv holds throughout.
LEMMA Inductive == Spec => []IInv
BY InitIInv, NextIInv, PTL DEF Spec

\* What is read is what was typed, in that order, each character once, whoever
\* reads it and whoever is killed while reading, until the buffer overruns.
THEOREM NothingIsLost == Spec => []NothingLostInOrder
<1>1. IInv => NothingLostInOrder
  BY DEF IInv
<1> QED
  BY <1>1, Inductive, PTL

\* A sleeping reader is on the wait queue, once, and has nothing to read, so
\* that the next key wakes it; whoever is on the queue is inside its read.
THEOREM SleepersAreExact == Spec => []SleepersExact
<1>1. IInv => SleepersExact
  BY DEF IInv
<1> QED
  BY <1>1, Inductive, PTL

=============================================================================
