----------------------------- MODULE ProcProofs -----------------------------
(***************************************************************************)
(* The safety of the two halves of MCProcFiles: of process management and  *)
(* scheduling, for any number of process structures, any time slice and    *)
(* any sleeping times; and of the descriptor tables, for any number of     *)
(* processes, slots and inodes and whatever programs pass to open(); and   *)
(* that of the pids, for any number of them.                               *)
(***************************************************************************)
EXTENDS MCProcFiles, PidAlloc, Foundations, FiniteSetTheorems, TLAPS

(***************************************************************************)
(* What add_timer, del_timer and the tick do to the owners on the timer    *)
(* list, for timer lists of any length.                                    *)
(***************************************************************************)
Entries(S) == [proc : S, expires : Nat]

\* The assertion of run_timer_list: the head is not due yet.
HeadNotDue(tl) == tl # <<>> => tl[1].expires > 0

\* The entries of a timer list.
LEMMA Fields ==
    ASSUME NEW S, NEW tl \in Seq(Entries(S))
    PROVE  /\ Len(tl) \in Nat
           /\ \A i \in 1..Len(tl) : /\ tl[i] \in Entries(S)
                                    /\ tl[i].proc \in S /\ tl[i].expires \in Nat
<1>1. \A i \in 1..Len(tl) : tl[i] \in Entries(S)
  OBVIOUS
<1> QED
  BY <1>1 DEF Entries

\* The sums of the deltas are defined along the whole list.
LEMMA DueSums ==
    ASSUME NEW S, NEW tl \in Seq(Entries(S))
    PROVE  /\ Due(tl) \in [0..Len(tl) -> Nat]
           /\ Due(tl)[0] = 0
           /\ \A i \in 1..Len(tl) : Due(tl)[i] = Due(tl)[i - 1] + tl[i].expires
<1> DEFINE N == Len(tl)
    Body(f) == [i \in 0..N |-> IF i = 0 THEN 0 ELSE f[i - 1] + tl[i].expires]
    f == CHOOSE f : f = Body(f)
    step == [n \in Nat |-> [x \in Nat |->
                IF n + 1 \in 1..N THEN x + tl[n + 1].expires ELSE x]]
<1>0. N \in Nat /\ \A i \in 1..N : tl[i].expires \in Nat
  BY Fields
<1>1. \E g : g \in [0..N -> Nat] /\ g = Body(g)
  <2>1. step \in [Nat -> [Nat -> Nat]]
    <3> SUFFICES ASSUME NEW n \in Nat, NEW x \in Nat
                 PROVE  (IF n + 1 \in 1..N THEN x + tl[n + 1].expires ELSE x) \in Nat
      OBVIOUS
    <3> HIDE DEF N
    <3> QED
      BY <1>0
  <2>2. PICK g : Follows(g, Nat, 0, step, N)
    <3> HIDE DEF step, N, f, Body
    <3> QED
      BY <1>0, <2>1, FiniteRecursion
  <2>3. ASSUME NEW i \in 0..N PROVE g[i] = Body(g)[i]
    <3>1. CASE i = 0
      BY <3>1, <2>2 DEF Follows
    <3>2. CASE i # 0
      <4>1. i - 1 \in 0..N - 1 /\ (i - 1) + 1 = i /\ i \in 1..N /\ i - 1 \in Nat
        BY <3>2
      <4>2. g[i - 1] \in Nat
        <5> HIDE DEF N, step
        <5>1. i - 1 \in 0..N
          BY <4>1, <1>0
        <5> QED
          BY <5>1, <2>2 DEF Follows
      <4>3. g[i] = step[i - 1][g[i - 1]]
        <5> HIDE DEF N, step
        <5> QED
          BY <4>1, <2>2 DEF Follows
      <4>4. step[i - 1][g[i - 1]] = g[i - 1] + tl[i].expires
        BY <4>1, <4>2
      <4> QED
        BY <3>2, <4>3, <4>4
    <3> QED
      BY <3>1, <3>2
  <2>4. g \in [0..N -> Nat]
    BY <2>2 DEF Follows
  <2> HIDE DEF N
  <2> QED
    BY <2>3, <2>4
<1>2. f = Body(f)
  BY <1>1
<1>3. Due(tl) = f
  BY DEF Due
<1> HIDE DEF f, N
<1>4. /\ f[0] = 0
      /\ \A i \in 1..N : f[i] = f[i - 1] + tl[i].expires
  <2>1. ASSUME NEW i \in 1..N PROVE f[i] = f[i - 1] + tl[i].expires
    <3>1. i \in 0..N /\ i # 0
      BY <1>0
    <3> QED
      BY <3>1, <1>2
  <2> QED
    BY <1>0, <1>2, <2>1
<1> DEFINE I == {i \in Nat : i <= N => f[i] \in Nat}
<1>5. Nat \subseteq I
  <2>1. 0 \in I
    BY <1>4
  <2>2. ASSUME NEW n \in Nat, n \in I PROVE n + 1 \in I
    <3> SUFFICES ASSUME n + 1 <= N PROVE f[n + 1] \in Nat
      OBVIOUS
    <3>1. n + 1 \in 1..N /\ (n + 1) - 1 = n /\ f[n] \in Nat
      BY <1>0, <2>2
    <3>2. f[n + 1] = f[n] + tl[n + 1].expires
      BY <3>1, <1>4
    <3> QED
      BY <3>1, <3>2, <1>0
  <2> HIDE DEF I
  <2> QED
    BY <2>1, <2>2, NatInd
<1>6. f \in [0..N -> Nat]
  <2>1. \A i \in 0..N : f[i] \in Nat
    BY <1>0, <1>5
  <2>2. f = [i \in 0..N |-> f[i]]
    BY <1>2
  <2> QED
    BY <2>1, <2>2
<1> QED
  BY <1>3, <1>4, <1>6 DEF N

\* There is a position for every expiry time.
LEMMA PositionExists ==
    ASSUME NEW S, NEW tl \in Seq(Entries(S)), NEW n \in Nat
    PROVE  /\ Position(tl, n) \in 0..Len(tl)
           /\ Due(tl)[Position(tl, n)] <= n
           /\ Position(tl, n) < Len(tl) => n < Due(tl)[Position(tl, n) + 1]
<1> DEFINE d == Due(tl)
    N == Len(tl)
    Fits(k) == d[k] <= n /\ (k < N => n < d[k + 1])
<1>1. N \in Nat /\ d \in [0..N -> Nat] /\ d[0] = 0
  BY DueSums
<1> HIDE DEF d
<1> DEFINE T == {k \in 0..N : n < d[k]}
<1>2. \E k \in 0..N : Fits(k)
  <2>1. CASE T = {}
    BY <2>1, <1>1
  <2>2. CASE T # {}
    <3>1. PICK m \in T : \A k \in T : m <= k
      <4>1. T \in SUBSET Nat
        BY <1>1
      <4> HIDE DEF T
      <4> QED
        BY <4>1, <2>2, LeastNatural
    <3>2. m - 1 \in 0..N /\ m - 1 \notin T /\ (m - 1) + 1 = m
      BY <3>1, <1>1
    <3> QED
      BY <3>1, <3>2, <1>1
  <2> QED
    BY <2>1, <2>2
<1>3. Position(tl, n) = CHOOSE k \in 0..N : Fits(k)
  BY DEF Position, d
<1> QED
  BY <1>2, <1>3 DEF d

\* The owners of a timer list form a list as well.
LEMMA OwnersList ==
    ASSUME NEW S, NEW tl \in Seq(Entries(S))
    PROVE  /\ Owners(tl) \in Seq(S)
           /\ Len(Owners(tl)) = Len(tl)
           /\ \A i \in 1..Len(tl) : Owners(tl)[i] = tl[i].proc
           /\ Armed(tl) = {tl[i].proc : i \in 1..Len(tl)}
           /\ Distinct(Owners(tl)) <=>
                \A i, j \in 1..Len(tl) : tl[i].proc = tl[j].proc => i = j
<1>1. Owners(tl) \in Seq(S) /\ Len(Owners(tl)) = Len(tl)
      /\ \A i \in 1..Len(tl) : Owners(tl)[i] = tl[i].proc
  BY Fields DEF Owners
<1> QED
  BY <1>1 DEF Armed, Elems, Distinct

\* add_timer: the process joins the owners; the head stays undue.
LEMMA AddTimerList ==
    ASSUME NEW S, NEW tl \in Seq(Entries(S)), NEW p \in S, NEW n \in Nat \ {0}
    PROVE  /\ AddTimer(tl, p, n) \in Seq(Entries(S))
           /\ Armed(AddTimer(tl, p, n)) = Armed(tl) \cup {p}
           /\ Distinct(Owners(tl)) /\ p \notin Armed(tl)
                => Distinct(Owners(AddTimer(tl, p, n)))
           /\ HeadNotDue(tl) => HeadNotDue(AddTimer(tl, p, n))
<1> DEFINE N == Len(tl)
    pos == Position(tl, n)
    left == n - Due(tl)[pos]
    t == AddTimer(tl, p, n)
<1>1. /\ N \in Nat /\ \A i \in 1..N : tl[i].proc \in S /\ tl[i].expires \in Nat
  BY Fields
<1>2. pos \in 0..N /\ left \in Nat /\ (pos < N => left < tl[pos + 1].expires)
      /\ (pos = 0 => left = n)
  <2>1. /\ pos \in 0..N /\ Due(tl)[pos] <= n
        /\ pos < N => n < Due(tl)[pos + 1]
    BY PositionExists
  <2>2. /\ Due(tl) \in [0..N -> Nat] /\ Due(tl)[0] = 0
        /\ \A i \in 1..N : Due(tl)[i] = Due(tl)[i - 1] + tl[i].expires
    BY DueSums
  <2> HIDE DEF pos, N
  <2>3. Due(tl)[pos] \in Nat
    BY <2>1, <2>2
  <2>4. ASSUME pos < N PROVE Due(tl)[pos + 1] = Due(tl)[pos] + tl[pos + 1].expires
    <3>1. pos + 1 \in 1..N /\ (pos + 1) - 1 = pos
      BY <2>1, <2>4, <1>1
    <3> QED
      BY <3>1, <2>2
  <2>5. pos < N => tl[pos + 1].expires \in Nat
    BY <1>1, <2>1
  <2> QED
    BY <2>1, <2>2, <2>3, <2>4, <2>5
<1>3. t = [i \in 1..N + 1 |->
            IF i <= pos THEN tl[i]
            ELSE IF i = pos + 1 THEN Timer(p, left)
            ELSE IF i = pos + 2 THEN [tl[i - 1] EXCEPT !.expires = @ - left]
            ELSE tl[i - 1]]
  BY DEF AddTimer
<1> HIDE DEF N, pos, left, t
<1>4. \A i \in 1..N + 1 :
        /\ i <= pos => i \in 1..N /\ t[i] = tl[i]
        /\ i = pos + 1 => t[i].proc = p /\ t[i].expires = left /\ t[i] = Timer(p, left)
        /\ i > pos + 1 => /\ i - 1 \in 1..N
                          /\ t[i].proc = tl[i - 1].proc
                          /\ t[i].expires \in Nat
                          /\ t[i] \in Entries(S)
  <2> SUFFICES ASSUME NEW i \in 1..N + 1
      PROVE  /\ i <= pos => i \in 1..N /\ t[i] = tl[i]
             /\ i = pos + 1 => t[i].proc = p /\ t[i].expires = left /\ t[i] = Timer(p, left)
             /\ i > pos + 1 => /\ i - 1 \in 1..N
                               /\ t[i].proc = tl[i - 1].proc
                               /\ t[i].expires \in Nat
                               /\ t[i] \in Entries(S)
    OBVIOUS
  <2>1. CASE i <= pos
    BY <2>1, <1>1, <1>2, <1>3
  <2>2. CASE i = pos + 1
    BY <2>2, <1>1, <1>2, <1>3 DEF Timer
  <2>3. CASE i > pos + 1
    <3>1. i - 1 \in 1..N /\ tl[i - 1] \in Entries(S) /\ tl[i - 1].proc \in S
          /\ tl[i - 1].expires \in Nat
      BY <2>3, <1>1, <1>2, Fields DEF N
    <3>2. CASE i = pos + 2
      <4>1. t[i] = [tl[i - 1] EXCEPT !.expires = @ - left]
        BY <3>2, <1>1, <1>2, <1>3
      <4>2. tl[i - 1].expires - left \in Nat
        <5>1. i - 1 = pos + 1 /\ pos < N
          BY <3>1, <3>2, <1>1, <1>2
        <5> QED
          BY <5>1, <3>1, <1>2
      <4>3. \A r \in Entries(S), e \in Nat :
               LET x == [r EXCEPT !.expires = e]
               IN  x.proc = r.proc /\ x.expires = e /\ x \in Entries(S)
        BY DEF Entries
      <4>4. t[i].proc = tl[i - 1].proc /\ t[i].expires \in Nat /\ t[i] \in Entries(S)
        <5> HIDE DEF Entries
        <5> QED
          BY <3>1, <4>1, <4>2, <4>3
      <4> QED
        BY <2>3, <3>1, <4>4, <1>2
    <3>3. CASE i # pos + 2
      <4>1. t[i] = tl[i - 1]
        BY <2>3, <3>3, <1>1, <1>2, <1>3
      <4> QED
        BY <2>3, <3>1, <4>1, <1>2
    <3> QED
      BY <3>2, <3>3
  <2> QED
    BY <2>1, <2>2, <2>3, <1>2
<1>5. t \in Seq(Entries(S)) /\ Len(t) = N + 1
  <2>1. Timer(p, left) \in Entries(S)
    BY <1>2 DEF Timer, Entries
  <2>2. \A i \in 1..N : tl[i] \in Entries(S)
    BY Fields DEF N
  <2>3. \A i \in 1..N + 1 : t[i] \in Entries(S)
    BY <1>1, <1>2, <1>4, <2>1, <2>2
  <2>4. t = [i \in 1..N + 1 |-> t[i]] /\ N + 1 \in Nat
    BY <1>1, <1>3
  <2> HIDE DEF Entries
  <2> QED
    BY <2>3, <2>4
<1>6. Armed(t) = Armed(tl) \cup {p}
  <2>1. /\ Armed(t) = {t[i].proc : i \in 1..N + 1}
        /\ Armed(tl) = {tl[i].proc : i \in 1..N}
    BY <1>5, OwnersList DEF N
  <2>2. \A i \in 1..N + 1 : t[i].proc \in Armed(tl) \cup {p}
    BY <1>1, <1>2, <1>4, <2>1
  <2>3. p \in Armed(t)
    <3>1. pos + 1 \in 1..N + 1
      BY <1>1, <1>2
    <3> QED
      BY <3>1, <1>4, <2>1
  <2>4. ASSUME NEW i \in 1..N PROVE tl[i].proc \in Armed(t)
    <3>1. CASE i <= pos
      BY <3>1, <1>1, <1>2, <1>4, <2>1
    <3>2. CASE i > pos
      <4>1. i + 1 \in 1..N + 1 /\ i + 1 > pos + 1 /\ (i + 1) - 1 = i
        BY <3>2, <1>1, <1>2
      <4>2. t[i + 1].proc = tl[i].proc
        BY <4>1, <1>4
      <4> QED
        BY <4>1, <4>2, <2>1
    <3> QED
      BY <3>1, <3>2, <1>2
  <2> QED
    BY <2>1, <2>2, <2>3, <2>4
<1>7. ASSUME Distinct(Owners(tl)), p \notin Armed(tl) PROVE Distinct(Owners(t))
  <2>1. /\ \A i, j \in 1..N : tl[i].proc = tl[j].proc => i = j
        /\ \A i \in 1..N : tl[i].proc # p
    BY <1>7, OwnersList DEF N
  <2>2. ASSUME NEW i \in 1..N + 1, NEW j \in 1..N + 1, t[i].proc = t[j].proc, i < j
        PROVE  FALSE
    <3>1. CASE j <= pos
      BY <3>1, <2>1, <2>2, <1>1, <1>2, <1>4
    <3>2. CASE j = pos + 1
      BY <3>2, <2>1, <2>2, <1>1, <1>2, <1>4
    <3>3. CASE j > pos + 1
      <4>1. j - 1 \in 1..N /\ t[j].proc = tl[j - 1].proc
        BY <3>3, <1>4
      <4>2. CASE i <= pos
        BY <4>1, <4>2, <3>3, <2>1, <2>2, <1>1, <1>2, <1>4
      <4>3. CASE i = pos + 1
        BY <4>1, <4>3, <2>1, <2>2, <1>4
      <4>4. CASE i > pos + 1
        <5>1. i - 1 \in 1..N /\ t[i].proc = tl[i - 1].proc
          BY <4>4, <1>4
        <5>2. i - 1 = j - 1
          BY <5>1, <4>1, <2>1, <2>2
        <5> QED
          BY <5>2, <2>2
      <4> QED
        BY <4>2, <4>3, <4>4, <1>2
    <3> QED
      BY <3>1, <3>2, <3>3, <1>2
  <2>3. \A i, j \in 1..N + 1 : t[i].proc = t[j].proc => i = j
    BY <2>2, <1>1
  <2> QED
    BY <2>3, <1>5, OwnersList
<1>8. ASSUME HeadNotDue(tl) PROVE t[1].expires > 0
  <2>1. CASE pos = 0
    BY <2>1, <1>1, <1>2, <1>4
  <2>2. CASE pos # 0
    <3>1. 1 <= pos /\ 1 \in 1..N + 1 /\ N > 0
      BY <2>2, <1>1, <1>2
    <3>2. t[1] = tl[1]
      BY <3>1, <1>4
    <3>3. tl # <<>>
      BY <3>1 DEF N
    <3> QED
      BY <3>2, <3>3, <1>8 DEF HeadNotDue
  <2> QED
    BY <2>1, <2>2
<1> QED
  BY <1>5, <1>6, <1>7, <1>8 DEF t, HeadNotDue

\* Adding ticks to an entry keeps it an entry of the same process.
LEMMA MoreTicks ==
    ASSUME NEW S, NEW r \in Entries(S), NEW e \in Nat
    PROVE  LET x == [r EXCEPT !.expires = e]
           IN  x.proc = r.proc /\ x.expires = e /\ x \in Entries(S)
BY DEF Entries

\* del_timer: the process leaves the owners; the head stays undue.
LEMMA DelTimerList ==
    ASSUME NEW S, NEW tl \in Seq(Entries(S)), NEW p, Distinct(Owners(tl))
    PROVE  /\ DelTimer(tl, p) \in Seq(Entries(S))
           /\ Armed(DelTimer(tl, p)) = Armed(tl) \ {p}
           /\ Distinct(Owners(DelTimer(tl, p)))
           /\ HeadNotDue(tl) => HeadNotDue(DelTimer(tl, p))
<1>1. CASE p \notin Armed(tl)
  BY <1>1 DEF DelTimer
<1>2. CASE p \in Armed(tl)
  <2> DEFINE N == Len(tl)
      k == CHOOSE i \in 1..N : tl[i].proc = p
      t == DelTimer(tl, p)
  <2>1. /\ N \in Nat
        /\ \A i \in 1..N : tl[i] \in Entries(S) /\ tl[i].proc \in S /\ tl[i].expires \in Nat
        /\ \A i, j \in 1..N : tl[i].proc = tl[j].proc => i = j
        /\ Armed(tl) = {tl[i].proc : i \in 1..N}
    BY Fields, OwnersList
  <2>2. k \in 1..N /\ tl[k].proc = p
    BY <1>2, <2>1
  <2>3. t = [i \in 1..N - 1 |->
                IF i < k THEN tl[i]
                ELSE IF i = k THEN [tl[i + 1] EXCEPT !.expires = @ + tl[k].expires]
                ELSE tl[i + 1]]
    BY <1>2 DEF DelTimer
  <2> HIDE DEF N, k, t
  <2>4. \A i \in 1..N - 1 :
          /\ i < k => t[i] = tl[i] /\ i \in 1..N
          /\ i >= k => i + 1 \in 1..N /\ t[i].proc = tl[i + 1].proc
          /\ i = k => t[i].expires = tl[i + 1].expires + tl[k].expires
          /\ t[i] \in Entries(S)
    <3> SUFFICES ASSUME NEW i \in 1..N - 1
                 PROVE  /\ i < k => t[i] = tl[i] /\ i \in 1..N
                        /\ i >= k => i + 1 \in 1..N /\ t[i].proc = tl[i + 1].proc
                        /\ i = k => t[i].expires = tl[i + 1].expires + tl[k].expires
                        /\ t[i] \in Entries(S)
      OBVIOUS
    <3>1. i \in 1..N /\ i + 1 \in 1..N
      BY <2>1
    <3>2. CASE i < k
      BY <3>1, <3>2, <2>1, <2>2, <2>3
    <3>3. CASE i = k
      <4> DEFINE e == tl[i + 1].expires + tl[k].expires
      <4>1. t[i] = [tl[i + 1] EXCEPT !.expires = e]
        BY <3>3, <2>2, <2>3
      <4>2. e \in Nat /\ tl[i + 1] \in Entries(S)
        BY <3>1, <2>1, <2>2
      <4> HIDE DEF e
      <4>3. t[i].proc = tl[i + 1].proc /\ t[i].expires = e /\ t[i] \in Entries(S)
        BY <4>1, <4>2, MoreTicks
      <4> QED
        BY <3>1, <3>3, <4>3, <2>2 DEF e
    <3>4. CASE i > k
      BY <3>1, <3>4, <2>1, <2>2, <2>3
    <3> QED
      BY <3>2, <3>3, <3>4, <2>2
  <2>5. t \in Seq(Entries(S)) /\ Len(t) = N - 1
    <3>1. t = [i \in 1..N - 1 |-> t[i]] /\ N - 1 \in Nat
      BY <2>1, <2>2, <2>3
    <3> QED
      BY <3>1, <2>4
  <2>6. /\ Armed(t) = {t[i].proc : i \in 1..N - 1}
        /\ Distinct(Owners(t)) <=>
             \A i, j \in 1..N - 1 : t[i].proc = t[j].proc => i = j
    BY <2>5, OwnersList
  <2>7. ASSUME NEW i \in 1..N - 1 PROVE t[i].proc \in Armed(tl) \ {p}
    <3>1. CASE i < k
      <4>1. t[i] = tl[i] /\ i \in 1..N /\ i # k
        BY <3>1, <2>2, <2>4
      <4> QED
        BY <4>1, <2>1, <2>2
    <3>2. CASE i >= k
      <4>1. i + 1 \in 1..N /\ i + 1 # k /\ t[i].proc = tl[i + 1].proc
        BY <3>2, <2>2, <2>4
      <4> QED
        BY <4>1, <2>1, <2>2
    <3> QED
      BY <3>1, <3>2, <2>2
  <2>8. ASSUME NEW i \in 1..N, tl[i].proc # p PROVE tl[i].proc \in Armed(t)
    <3>1. CASE i < k
      <4>1. i \in 1..N - 1
        BY <3>1, <2>1, <2>2
      <4> QED
        BY <3>1, <4>1, <2>4, <2>6
    <3>2. CASE i > k
      <4>1. i - 1 \in 1..N - 1 /\ i - 1 >= k /\ (i - 1) + 1 = i
        BY <3>2, <2>1, <2>2
      <4>2. t[i - 1].proc = tl[i].proc
        BY <4>1, <2>4
      <4> QED
        BY <4>1, <4>2, <2>6
    <3> QED
      BY <3>1, <3>2, <2>2, <2>8
  <2>9. Distinct(Owners(t))
    <3>1. ASSUME NEW i \in 1..N - 1, NEW j \in 1..N - 1, t[i].proc = t[j].proc, i < j
          PROVE  FALSE
      <4>1. CASE j < k
        BY <3>1, <4>1, <2>1, <2>2, <2>4
      <4>2. CASE j >= k
        <5>1. j + 1 \in 1..N /\ t[j].proc = tl[j + 1].proc
          BY <4>2, <2>4
        <5>2. CASE i < k
          <6>1. t[i] = tl[i] /\ i \in 1..N
            BY <5>2, <2>4
          <6>2. i = j + 1
            BY <3>1, <5>1, <6>1, <2>1
          <6> QED
            BY <6>2, <3>1
        <5>3. CASE i >= k
          <6>1. i + 1 \in 1..N /\ t[i].proc = tl[i + 1].proc
            BY <5>3, <2>4
          <6>2. i + 1 = j + 1
            BY <3>1, <5>1, <6>1, <2>1
          <6> QED
            BY <6>2, <3>1
        <5> QED
          BY <5>2, <5>3, <2>2
      <4> QED
        BY <4>1, <4>2, <2>2
    <3>2. \A i, j \in 1..N - 1 : t[i].proc = t[j].proc => i = j
      BY <3>1, <2>1
    <3> QED
      BY <3>2, <2>6
  <2>10. ASSUME HeadNotDue(tl) PROVE HeadNotDue(t)
    <3> SUFFICES ASSUME t # <<>> PROVE t[1].expires > 0
      BY DEF HeadNotDue
    <3>1. 1 \in 1..N - 1 /\ 1 \in 1..N /\ 2 \in 1..N /\ tl # <<>>
      BY <2>1, <2>5 DEF N
    <3>2. tl[1].expires > 0 /\ tl[1].expires \in Nat /\ tl[2].expires \in Nat
      BY <3>1, <2>1, <2>10 DEF HeadNotDue
    <3>3. CASE k = 1
      BY <3>1, <3>2, <3>3, <2>4
    <3>4. CASE 1 < k
      BY <3>1, <3>2, <3>4, <2>4
    <3> QED
      BY <3>3, <3>4, <2>2
  <2>11. Armed(t) = Armed(tl) \ {p}
    <3>1. Armed(t) \subseteq Armed(tl) \ {p}
      BY <2>6, <2>7
    <3>2. Armed(tl) \ {p} \subseteq Armed(t)
      BY <2>1, <2>8
    <3> QED
      BY <3>1, <3>2
  <2> QED
    BY <2>5, <2>9, <2>10, <2>11 DEF t
<1> QED
  BY <1>1, <1>2

\* A tick expires a front of the list up to the next entry that is not due.
LEMMA ExpiringFront ==
    ASSUME NEW S, NEW tl \in Seq(Entries(S)), HeadNotDue(tl)
    PROVE  /\ Expiring(tl) \in 0..Len(tl)
           /\ Expiring(tl) = 0 /\ tl # <<>> => tl[1].expires > 1
           /\ Expiring(tl) \in 1..Len(tl) - 1 => tl[Expiring(tl) + 1].expires > 0
<1> DEFINE N == Len(tl)
    Front(k) == (\A i \in 2..k : tl[i].expires = 0) /\ (k < N => tl[k + 1].expires # 0)
    T == {i \in 2..N : tl[i].expires # 0}
<1>1. N \in Nat /\ \A i \in 1..N : tl[i].expires \in Nat
  BY Fields
<1>2. CASE tl = <<>> \/ tl[1].expires # 1
  <2>1. Expiring(tl) = 0
    BY <1>2 DEF Expiring
  <2>2. tl # <<>> => tl[1].expires \in Nat /\ tl[1].expires > 0
    <3>1. tl # <<>> => N > 0
      OBVIOUS
    <3> HIDE DEF N
    <3> QED
      BY <1>1, <3>1 DEF HeadNotDue
  <2> QED
    BY <1>1, <1>2, <2>1, <2>2
<1>3. CASE tl # <<>> /\ tl[1].expires = 1
  <2>1. N \in Nat \ {0}
    BY <1>3
  <2>2. Expiring(tl) = CHOOSE k \in 1..N : Front(k)
    BY <1>3 DEF Expiring
  <2> HIDE DEF N
  <2>3. \E k \in 1..N : Front(k)
    <3>1. CASE T = {}
      BY <2>1, <3>1
    <3>2. CASE T # {}
      <4>1. PICK m \in T : \A i \in T : m <= i
        <5>1. T \in SUBSET Nat
          BY <1>1
        <5> HIDE DEF T
        <5> QED
          BY <5>1, <3>2, LeastNatural
      <4>2. m - 1 \in 1..N /\ (m - 1) + 1 = m
        BY <4>1, <2>1
      <4>3. \A i \in 2..m - 1 : tl[i].expires = 0
        BY <4>1, <2>1
      <4>4. Front(m - 1)
        BY <4>1, <4>2, <4>3
      <4> QED
        BY <4>2, <4>4
    <3> QED
      BY <3>1, <3>2
  <2>4. Expiring(tl) \in 1..N /\ Front(Expiring(tl))
    <3> HIDE DEF Front
    <3> QED
      BY <2>2, <2>3
  <2> QED
    BY <2>1, <2>4, <1>1 DEF N
<1> QED
  BY <1>2, <1>3

\* The tick: the owners are split into those woken and those still waiting.
LEMMA TickList ==
    ASSUME NEW S, NEW tl \in Seq(Entries(S)), HeadNotDue(tl), Distinct(Owners(tl))
    PROVE  /\ Fired(tl) \in Seq(S)
           /\ Distinct(Fired(tl))
           /\ TickTimers(tl) \in Seq(Entries(S))
           /\ Distinct(Owners(TickTimers(tl)))
           /\ HeadNotDue(TickTimers(tl))
           /\ Elems(Fired(tl)) \cup Armed(TickTimers(tl)) = Armed(tl)
<1> DEFINE N == Len(tl)
    k == Expiring(tl)
    t == TickTimers(tl)
    w == Fired(tl)
<1>1. /\ N \in Nat
      /\ \A i \in 1..N : tl[i] \in Entries(S) /\ tl[i].proc \in S /\ tl[i].expires \in Nat
      /\ \A i, j \in 1..N : tl[i].proc = tl[j].proc => i = j
      /\ Armed(tl) = {tl[i].proc : i \in 1..N}
  BY Fields, OwnersList
<1>2. /\ k \in 0..N
      /\ k = 0 /\ tl # <<>> => tl[1].expires > 1
      /\ k \in 1..N - 1 => tl[k + 1].expires > 0
  BY ExpiringFront
<1>3. w = [i \in 1..k |-> tl[i].proc]
  BY DEF Fired
<1> HIDE DEF k, w
<1>4. /\ w \in Seq(S) /\ Len(w) = k
      /\ \A i \in 1..k : w[i] = tl[i].proc
  BY <1>1, <1>2, <1>3
<1>5. Distinct(w)
  BY <1>1, <1>2, <1>4 DEF Distinct
<1>6. CASE tl = <<>>
  <2>1. t = tl /\ k = 0
    BY <1>2, <1>6 DEF TickTimers
  <2>2. Elems(w) = {}
    BY <1>4, <2>1 DEF Elems
  <2> QED
    BY <1>4, <1>5, <2>1, <2>2 DEF w
<1>7. CASE tl # <<>> /\ k = 0
  <2>1. t = [tl EXCEPT ![1].expires = @ - 1]
    BY <1>7 DEF TickTimers, k
  <2> DEFINE e == tl[1].expires - 1
      r == [tl[1] EXCEPT !.expires = e]
  <2>2. N > 0 /\ 1 \in 1..N /\ e \in Nat /\ e > 0 /\ tl[1] \in Entries(S)
    BY <1>1, <1>2, <1>7
  <2>3. r.proc = tl[1].proc /\ r.expires = e /\ r \in Entries(S)
    <3> HIDE DEF e
    <3> QED
      BY <2>2, MoreTicks
  <2>4. t = [tl EXCEPT ![1] = r]
    BY <2>1
  <2> HIDE DEF t, r, e
  <2>5. t \in Seq(Entries(S)) /\ Len(t) = N /\ t[1] = r /\ \A i \in 2..N : t[i] = tl[i]
    BY <2>2, <2>3, <2>4
  <2>6. \A i \in 1..N : t[i].proc = tl[i].proc
    <3> HIDE DEF N
    <3> QED
      BY <1>1, <2>3, <2>5
  <2>7. /\ Armed(t) = {t[i].proc : i \in 1..N}
        /\ Distinct(Owners(t)) <=> \A i, j \in 1..N : t[i].proc = t[j].proc => i = j
    BY <2>5, OwnersList
  <2>8. Elems(w) = {}
    BY <1>4, <1>7 DEF Elems
  <2>9. HeadNotDue(t)
    BY <2>2, <2>3, <2>5 DEF HeadNotDue
  <2> HIDE DEF N
  <2>10. Armed(t) = Armed(tl) /\ Distinct(Owners(t))
    BY <1>1, <2>6, <2>7
  <2> QED
    BY <1>4, <1>5, <2>5, <2>8, <2>9, <2>10 DEF t, w
<1>8. CASE tl # <<>> /\ k # 0
  <2>1. t = SubSeq(tl, k + 1, Len(tl))
    BY <1>8 DEF TickTimers, k
  <2>2. /\ t \in Seq(Entries(S)) /\ Len(t) = N - k
        /\ \A i \in 1..N - k : t[i] = tl[k + i]
    BY <1>1, <1>2, <2>1
  <2> HIDE DEF t, N
  <2>3. /\ Armed(t) = {t[i].proc : i \in 1..N - k}
        /\ Distinct(Owners(t)) <=> \A i, j \in 1..N - k : t[i].proc = t[j].proc => i = j
    BY <2>2, OwnersList
  <2>4. \A i \in 1..N - k : k + i \in 1..N
    BY <1>1, <1>2
  <2>5. Distinct(Owners(t))
    <3> SUFFICES ASSUME NEW i \in 1..N - k, NEW j \in 1..N - k, t[i].proc = t[j].proc
                 PROVE  i = j
      BY <2>3
    <3>1. k + i \in 1..N /\ k + j \in 1..N
      BY <2>4
    <3>2. tl[k + i].proc = tl[k + j].proc
      BY <2>2
    <3>3. k + i = k + j
      BY <1>1, <3>1, <3>2
    <3> QED
      BY <3>3, <1>1, <1>2
  <2>6. HeadNotDue(t)
    <3> SUFFICES ASSUME t # <<>> PROVE t[1].expires > 0
      BY DEF HeadNotDue
    <3>1. N - k > 0
      BY <2>2, <1>1, <1>2
    <3>2. t[1] = tl[k + 1]
      BY <3>1, <2>2, <1>1, <1>2
    <3> QED
      BY <3>1, <3>2, <1>1, <1>2, <1>8
  <2>7. Elems(w) \cup Armed(t) = Armed(tl)
    <3>1. ASSUME NEW i \in 1..N PROVE tl[i].proc \in Elems(w) \cup Armed(t)
      <4>1. CASE i <= k
        BY <4>1, <1>1, <1>2, <1>4 DEF Elems
      <4>2. CASE i > k
        <5>1. i - k \in 1..N - k /\ k + (i - k) = i
          BY <4>2, <1>1, <1>2
        <5>2. t[i - k] = tl[i]
          BY <5>1, <2>2
        <5> QED
          BY <5>1, <5>2, <2>3
      <4> QED
        BY <4>1, <4>2, <1>2
    <3>2. ASSUME NEW i \in 1..k PROVE w[i] \in Armed(tl)
      <4>1. i \in 1..N
        BY <1>1, <1>2
      <4> QED
        BY <4>1, <1>1, <1>4
    <3>3. ASSUME NEW i \in 1..N - k PROVE t[i].proc \in Armed(tl)
      BY <1>1, <2>2, <2>4
    <3>4. Elems(w) = {w[i] : i \in 1..k}
      BY <1>4 DEF Elems
    <3>5. Armed(tl) \subseteq Elems(w) \cup Armed(t)
      BY <1>1, <3>1
    <3>6. Elems(w) \subseteq Armed(tl)
      BY <3>2, <3>4
    <3>7. Armed(t) \subseteq Armed(tl)
      BY <2>3, <3>3
    <3> QED
      BY <3>5, <3>6, <3>7
  <2> QED
    BY <1>4, <1>5, <2>2, <2>5, <2>6, <2>7 DEF t, w
<1> QED
  BY <1>6, <1>7, <1>8

-----------------------------------------------------------------------------
(***************************************************************************)
(* Processes and the scheduler.                                            *)
(***************************************************************************)

\* What the continuation of a process says about its state.
PcExact ==
    /\ state[idleproc] = "RUNNABLE" /\ pc[idleproc] = "idle"
    /\ state[initproc] \in {"SLEEPING", "RUNNABLE"} /\ pc[initproc] \in PcInit
    /\ wait_pid[initproc] = NULL
    /\ \A p \in Users : /\ pc[p] \in PcUser
                        /\ state[p] = "NONE" <=> pc[p] = "none"
                        /\ state[p] = "ZOMBIE" <=> pc[p] = "dead"
    /\ \A p \in Proc : /\ wait_state[p] = "WT_CHILD" => pc[p] = "wait"
                       /\ wait_state[p] = "WT_TIMER" => pc[p] = "sleep"

\* The family has no cycle of user processes: parents have the lower rank.
Ranked(r) ==
    /\ r \in [Proc -> Nat]
    /\ \A p \in Users : Live(p) => /\ parent[p] # idleproc
                                   /\ parent[p] \in Users => r[parent[p]] < r[p]
Rooted == \E r : Ranked(r)

\* Once init has stopped, it keeps the CPU.
Stopped == pc[initproc] \in {"done", "panic"} => current = initproc

IInv ==
    /\ TypeOK /\ PcExact /\ RunQueueExact /\ WaitStateExact /\ NoLostChildWakeup
    /\ FamilyTree /\ TimersOwned /\ Rooted /\ Stopped /\ InitLeavesLast

States == {"NONE", "SLEEPING", "RUNNABLE", "ZOMBIE"}
WaitStates == {"0", "WT_CHILD", "WT_TIMER"}

\* The queue q is right for states st when process c owns the CPU.
QueueIs(q, st, c) ==
    /\ Distinct(q)
    /\ Elems(q) = {p \in Proc \ {idleproc, c} : st[p] = "RUNNABLE"}

-----------------------------------------------------------------------------
\* schedule() leaves a queue that is right for the process it switches to,
\* which is RUNNABLE.
LEMMA ScheduleFacts ==
    ASSUME current \in Proc, need_resched \in [Proc -> BOOLEAN],
           NEW st, NEW queue \in Seq(Proc), NEW slice \in [Proc -> 0..MAX_TIME_SLICE],
           st[idleproc] = "RUNNABLE",
           QueueIs(queue, st, current),
           Schedule(st, queue, slice)
    PROVE  /\ current' \in Proc /\ st[current'] = "RUNNABLE"
           /\ run_list' \in Seq(Proc)
           /\ QueueIs(run_list', st, current')
           /\ time_slice' \in [Proc -> 0..MAX_TIME_SLICE]
           /\ need_resched' \in [Proc -> BOOLEAN]
<1> USE ProcAssumption, BoundsAssumption
<1> DEFINE requeue == st[current] = "RUNNABLE" /\ current # idleproc
    q == IF requeue THEN Append(queue, current) ELSE queue
    R == {p \in Proc \ {idleproc} : st[p] = "RUNNABLE"}
<1>1. q \in Seq(Proc) /\ Distinct(q) /\ Elems(q) = R
  <2>1. CASE requeue
    <3>1. current \notin Elems(queue)
      BY DEF QueueIs
    <3>2. /\ Append(queue, current) \in Seq(Proc)
          /\ Distinct(Append(queue, current))
          /\ Elems(Append(queue, current)) = Elems(queue) \cup {current}
      BY <3>1, AppendList DEF QueueIs
    <3>3. Elems(queue) \cup {current} = R
      BY <2>1 DEF QueueIs
    <3> QED
      BY <2>1, <3>2, <3>3
  <2>2. CASE ~ requeue
    <3>1. Elems(queue) = R
      BY <2>2 DEF QueueIs
    <3> QED
      BY <2>2, <3>1 DEF QueueIs
  <2> QED
    BY <2>1, <2>2
<1>2. /\ need_resched' = [need_resched EXCEPT ![current] = FALSE]
      /\ time_slice' = IF requeue THEN Refill(slice, current) ELSE slice
      /\ IF q = <<>> THEN current' = idleproc /\ run_list' = q
                     ELSE current' = Head(q) /\ run_list' = Tail(q)
  BY DEF Schedule
<1>3. time_slice' \in [Proc -> 0..MAX_TIME_SLICE]
  BY <1>2 DEF Refill
<1>4. need_resched' \in [Proc -> BOOLEAN]
  BY <1>2
<1> HIDE DEF q, requeue
<1>5. CASE q = <<>>
  <2>1. current' = idleproc /\ run_list' = <<>> /\ R = {}
    BY <1>1, <1>2, <1>5 DEF Elems
  <2>2. QueueIs(<<>>, st, idleproc)
    BY <2>1 DEF QueueIs, Elems, Distinct
  <2> QED
    BY <1>1, <1>3, <1>4, <1>5, <2>1, <2>2
<1>6. CASE q # <<>>
  <2>1. current' = Head(q) /\ run_list' = Tail(q)
    BY <1>2, <1>6
  <2>2. /\ Head(q) \in R /\ Tail(q) \in Seq(Proc) /\ Distinct(Tail(q))
        /\ Elems(Tail(q)) = R \ {Head(q)}
    BY <1>1, <1>6, TailList
  <2>3. R \ {Head(q)} = {p \in Proc \ {idleproc, Head(q)} : st[p] = "RUNNABLE"}
    OBVIOUS
  <2>4. QueueIs(Tail(q), st, Head(q))
    BY <2>2, <2>3 DEF QueueIs
  <2> QED
    BY <1>3, <1>4, <2>1, <2>2, <2>4
<1> QED
  BY <1>5, <1>6

\* wakeup_proc on a list of processes: those that were not RUNNABLE join the
\* queue, and the queue is right for the new states.
LEMMA WakeupFacts ==
    ASSUME TypeOK, RunQueueExact,
           NEW ws \in Seq(Proc), Distinct(ws),
           \A q \in Elems(ws) : q # idleproc /\ q # current
    PROVE  LET wake  == WakeupProcs(ws)
               woken == {q \in Elems(ws) : state[q] # "RUNNABLE"}
           IN  /\ wake.state = [q \in Proc |-> IF q \in woken THEN "RUNNABLE" ELSE state[q]]
               /\ wake.wait = [q \in Proc |-> IF q \in woken THEN "0" ELSE wait_state[q]]
               /\ wake.queue \in Seq(Proc)
               /\ QueueIs(wake.queue, wake.state, current)
               /\ wake.slice \in [Proc -> 0..MAX_TIME_SLICE]
<1> USE ProcAssumption, BoundsAssumption
<1> DEFINE wake  == WakeupProcs(ws)
    woken == {q \in Elems(ws) : state[q] # "RUNNABLE"}
    a == Asleep(ws)
    st == [q \in Proc |-> IF q \in woken THEN "RUNNABLE" ELSE state[q]]
<1>0. Elems(ws) \subseteq Proc
  BY DEF Elems
<1>1. a \in Seq(Proc) /\ Elems(a) = woken /\ Distinct(a)
  <2>1. /\ a \in Seq(Proc)
        /\ Elems(a) = Elems(ws) \cap {q \in Proc : state[q] # "RUNNABLE"}
        /\ Distinct(a)
    BY KeepList DEF Asleep
  <2> QED
    BY <2>1, <1>0
<1> HIDE DEF a
<1>2. /\ wake.state = st
      /\ wake.wait = [q \in Proc |-> IF q \in woken THEN "0" ELSE wait_state[q]]
      /\ wake.queue = run_list \o a
      /\ wake.slice = [q \in Proc |-> IF q \in woken THEN Refill(time_slice, q)[q]
                                                    ELSE time_slice[q]]
  BY <1>1 DEF WakeupProcs, WaitStateCleared, a
<1>3. wake.slice \in [Proc -> 0..MAX_TIME_SLICE]
  BY <1>2 DEF TypeOK, Refill
<1>4. run_list \in Seq(Proc) /\ Distinct(run_list)
      /\ Elems(run_list) = {p \in Proc \ {idleproc, current} : state[p] = "RUNNABLE"}
  BY DEF TypeOK, RunQueueExact
<1>5. /\ run_list \o a \in Seq(Proc)
      /\ Elems(run_list \o a) = Elems(run_list) \cup woken
      /\ Distinct(run_list \o a)
  <2>1. Elems(run_list) \cap Elems(a) = {}
    BY <1>1, <1>4
  <2> QED
    BY <1>1, <1>4, <2>1, ConcatList
<1>6. Elems(run_list) \cup woken = {p \in Proc \ {idleproc, current} : st[p] = "RUNNABLE"}
  BY <1>0, <1>4
<1>7. QueueIs(run_list \o a, st, current)
  BY <1>5, <1>6 DEF QueueIs
<1> HIDE DEF st, woken, wake
<1> QED
  BY <1>2, <1>3, <1>5, <1>7 DEF wake, st, woken

-----------------------------------------------------------------------------
\* What the parts of the invariant say together about the CPU's owner.
LEMMA CurrentFacts ==
    ASSUME IInv
    PROVE  /\ current \in Proc /\ state[current] = "RUNNABLE" /\ wait_state[current] = "0"
           /\ QueueIs(run_list, state, current)
           /\ Distinct(run_list)
           /\ state[idleproc] = "RUNNABLE" /\ wait_state[idleproc] = "0"
           /\ current \in Users => pc[current] \notin {"none", "dead"}
BY ProcAssumption DEF IInv, TypeOK, PcExact, WaitStateExact, RunQueueExact, QueueIs

\* The family is undisturbed when processes only fall asleep and wake up.
LEMMA FamilyKept ==
    ASSUME TypeOK, FamilyTree, Rooted,
           parent' = parent, nr_process' = nr_process,
           \A p \in Proc : \/ state'[p] = state[p]
                           \/ /\ state[p] \in {"SLEEPING", "RUNNABLE"}
                               /\ state'[p] \in {"SLEEPING", "RUNNABLE"}
    PROVE  FamilyTree' /\ Rooted'
<1> USE ProcAssumption
<1>1. \A p \in Proc : Live(p)' <=> Live(p)
  BY DEF Live
<1>2. {p \in Proc : Live(p)}' = {p \in Proc : Live(p)}
  BY <1>1
<1>3. nr_process' = Cardinality({p \in Proc : Live(p)})'
  BY <1>2 DEF FamilyTree
<1>4. \A p \in Proc : parent'[p] = NULL <=> (p = idleproc \/ ~ Live(p)')
  BY <1>1 DEF FamilyTree
<1>5. ASSUME NEW p \in Proc \ {idleproc}, Live(p)'
      PROVE  state'[parent'[p]] \in {"SLEEPING", "RUNNABLE"}
  <2>1. parent[p] \in Proc /\ state[parent[p]] \in {"SLEEPING", "RUNNABLE"}
    BY <1>1, <1>5 DEF FamilyTree, TypeOK
  <2> QED
    BY <2>1
<1>6. FamilyTree'
  BY <1>3, <1>4, <1>5 DEF FamilyTree
<1>7. PICK r : Ranked(r)
  BY DEF Rooted
<1>8. Ranked(r)'
  BY <1>1, <1>7 DEF Ranked, Users
<1> QED
  BY <1>6, <1>8 DEF Rooted

\* No wakeup is lost when nobody dies or falls asleep for a child.
LEMMA WaitersKept ==
    ASSUME TypeOK, NoLostChildWakeup,
           parent' = parent, wait_pid' = wait_pid,
           \A p \in Proc : wait_state'[p] = "WT_CHILD" => wait_state[p] = "WT_CHILD",
           \A p \in Proc : state'[p] = "ZOMBIE" => state[p] = "ZOMBIE"
    PROVE  NoLostChildWakeup'
<1>1. \A p \in Proc : Awaited(p)' = Awaited(p) /\ Awaited(p) \subseteq Proc
  BY DEF Awaited, Children
<1> QED
  BY <1>1 DEF NoLostChildWakeup

\* Timers belong to processes.
LEMMA ArmedProcs ==
    ASSUME TypeOK
    PROVE  timer_list \in Seq(Entries(Proc)) /\ Armed(timer_list) \subseteq Proc
<1>1. timer_list \in Seq(Entries(Proc))
  BY DEF TypeOK, Entries
<1>2. /\ Armed(timer_list) = {timer_list[i].proc : i \in 1..Len(timer_list)}
      /\ \A i \in 1..Len(timer_list) : timer_list[i].proc \in Proc
  BY <1>1, OwnersList, Fields
<1> QED
  BY <1>1, <1>2

\* The timers are undisturbed by a step that starts or ends no sleep.
LEMMA TimersKept ==
    ASSUME TypeOK, TimersOwned, timer_list' = timer_list,
           \A p \in Proc : pc[p] = "sleep" /\ state[p] \in {"SLEEPING", "RUNNABLE"} =>
               pc'[p] = "sleep" /\ state'[p] \in {"SLEEPING", "RUNNABLE"},
           \A p \in Proc : wait_state'[p] = "WT_TIMER" => wait_state[p] = "WT_TIMER"
    PROVE  TimersOwned'
<1>1. Armed(timer_list) \subseteq Proc
  BY ArmedProcs
<1>2. \A p \in Armed(timer_list) : pc'[p] = "sleep" /\ state'[p] \in {"SLEEPING", "RUNNABLE"}
  BY <1>1 DEF TimersOwned
<1> QED
  BY <1>2 DEF TimersOwned

\* Init has not stopped while somebody else owns the CPU.
LEMMA InitGoesOn ==
    ASSUME IInv, current # initproc
    PROVE  pc[initproc] \notin {"done", "panic"}
BY DEF IInv, Stopped

-----------------------------------------------------------------------------
\* A call of do_fork keeps the invariant.
LEMMA DoForkInv ==
    ASSUME IInv, NEW start \in {"user_main", "user"}, NEW next,
           (current = initproc /\ next = "reap") \/ (current \in Users /\ next = "trapret"),
           pc[current] # "sleep", pc[initproc] # "done",
           DoFork(start, next)
    PROVE  IInv'
<1> USE ProcAssumption, BoundsAssumption
<1>0. /\ TypeOK /\ PcExact /\ RunQueueExact /\ WaitStateExact /\ NoLostChildWakeup
      /\ FamilyTree /\ TimersOwned /\ Rooted /\ Stopped
  BY DEF IInv
<1>1. /\ current \in Proc /\ state[current] = "RUNNABLE" /\ wait_state[current] = "0"
      /\ current # idleproc
      /\ current # initproc => pc[initproc] \notin {"done", "panic"}
  BY CurrentFacts, InitGoesOn DEF Users
<1>2. UNCHANGED <<current, wait_state, exiting, wait_pid, need_resched, timer_list>>
  BY DEF DoFork
<1>5. /\ start \in PcUser /\ start \notin {"none", "dead"} /\ next \in PcUser \cup PcInit
      /\ current \in Users => next = "trapret"
      /\ current \notin Users => current = initproc /\ next = "reap"
  BY DEF PcUser, PcInit, Users
<1>3. CASE UNCHANGED <<state, parent, run_list, time_slice, nr_process>>
           /\ pc' = [pc EXCEPT ![current] = IF current = initproc THEN "panic" ELSE next]
  <2>1. TypeOK'
    BY <1>0, <1>1, <1>2, <1>3 DEF TypeOK, PcUser, PcInit
  <2>2. PcExact'
    BY <1>0, <1>1, <1>2, <1>3 DEF PcExact, TypeOK, PcUser, PcInit, Users
  <2>3. RunQueueExact' /\ WaitStateExact'
    BY <1>0, <1>2, <1>3 DEF RunQueueExact, WaitStateExact
  <2>4. NoLostChildWakeup'
    BY <1>0, <1>2, <1>3, WaitersKept
  <2>5. FamilyTree' /\ Rooted'
    BY <1>0, <1>2, <1>3, FamilyKept
  <2>6. TimersOwned'
    BY <1>0, <1>1, <1>2, <1>3, TimersKept DEF TypeOK
  <2>7. Stopped' /\ InitLeavesLast'
    BY <1>0, <1>1, <1>2, <1>3 DEF Stopped, InitLeavesLast, TypeOK, Users
  <2> QED
    BY <2>1, <2>2, <2>3, <2>4, <2>5, <2>6, <2>7 DEF IInv
<1>4. ASSUME NEW c \in Proc, state[c] = "NONE",
             state' = [state EXCEPT ![c] = "RUNNABLE"],
             parent' = [parent EXCEPT ![c] = current],
             pc' = [pc EXCEPT ![c] = start, ![current] = next],
             run_list' = Append(run_list, c),
             time_slice' = [time_slice EXCEPT ![c] = MAX_TIME_SLICE],
             nr_process' = nr_process + 1
      PROVE  IInv'
  <2>0. /\ c \in Users /\ c # current /\ pc[c] = "none" /\ wait_state[c] = "0"
        /\ parent[c] = NULL
    BY <1>0, <1>1, <1>4 DEF PcExact, Users, WaitStateExact, FamilyTree, Live
  <2>1. TypeOK'
    <3>1. run_list' \in Seq(Proc)
      BY <1>0, <1>4 DEF TypeOK
    <3>2. pc' \in [Proc -> PcUser \cup PcInit \cup {"idle"}]
      BY <1>0, <1>4, <1>5 DEF TypeOK
    <3>3. time_slice' \in [Proc -> 0..MAX_TIME_SLICE] /\ nr_process' \in Nat
      BY <1>0, <1>4 DEF TypeOK
    <3>4. /\ state' \in [Proc -> {"NONE", "SLEEPING", "RUNNABLE", "ZOMBIE"}]
          /\ parent' \in [Proc -> Proc \cup {NULL}]
      BY <1>0, <1>1, <1>4 DEF TypeOK
    <3> QED
      BY <3>1, <3>2, <3>3, <3>4, <1>0, <1>2 DEF TypeOK
  <2>2. PcExact'
    <3>1. \A p \in Proc : p # c /\ p # current => pc'[p] = pc[p] /\ state'[p] = state[p]
      BY <1>0, <1>4 DEF TypeOK
    <3>2. pc'[c] = start /\ pc'[current] = next /\ state'[c] = "RUNNABLE"
          /\ state'[current] = "RUNNABLE"
      BY <1>0, <1>1, <1>4, <2>0 DEF TypeOK
    <3>3. \A p \in Users : /\ pc'[p] \in PcUser
                           /\ state'[p] = "NONE" <=> pc'[p] = "none"
                           /\ state'[p] = "ZOMBIE" <=> pc'[p] = "dead"
      <4>1. \A p \in Users : p \in Proc /\ pc[p] \in PcUser
                            /\ (state[p] = "NONE" <=> pc[p] = "none")
                            /\ (state[p] = "ZOMBIE" <=> pc[p] = "dead")
        BY <1>0 DEF PcExact, Users
      <4>2. "trapret" \in PcUser
        BY DEF PcUser
      <4> QED
        BY <4>1, <4>2, <3>1, <3>2, <1>5
    <3>4. \A p \in Proc : /\ wait_state'[p] = "WT_CHILD" => pc'[p] = "wait"
                          /\ wait_state'[p] = "WT_TIMER" => pc'[p] = "sleep"
      BY <3>1, <1>0, <1>1, <1>2, <2>0 DEF PcExact
    <3>5. state'[idleproc] = "RUNNABLE" /\ pc'[idleproc] = "idle"
      BY <3>1, <1>0, <1>1, <2>0 DEF PcExact, Users
    <3>6. /\ state'[initproc] \in {"SLEEPING", "RUNNABLE"} /\ pc'[initproc] \in PcInit
          /\ wait_pid'[initproc] = NULL
      <4>1. initproc # c /\ (initproc = current => next = "reap") /\ "reap" \in PcInit
        BY <1>5, <2>0 DEF Users, PcInit
      <4> QED
        BY <4>1, <3>1, <3>2, <1>0, <1>2 DEF PcExact
    <3> QED
      BY <3>3, <3>4, <3>5, <3>6 DEF PcExact, Users
  <2>3. RunQueueExact'
    <3>1. c \notin Elems(run_list) /\ run_list \in Seq(Proc)
      BY <1>0, <1>4 DEF RunQueueExact, TypeOK
    <3>2. Distinct(run_list') /\ Elems(run_list') = Elems(run_list) \cup {c}
      BY <3>1, <1>0, <1>4, AppendList DEF RunQueueExact
    <3>3. Elems(run_list') = {p \in Proc \ {idleproc, current'} : state'[p] = "RUNNABLE"}
      BY <3>2, <1>0, <1>2, <1>4, <2>0 DEF RunQueueExact, TypeOK, Users
    <3> QED
      BY <3>2, <3>3 DEF RunQueueExact
  <2>4. WaitStateExact'
    BY <1>0, <1>1, <1>2, <1>4, <2>0 DEF WaitStateExact, TypeOK
  <2>5. NoLostChildWakeup'
    <3> SUFFICES ASSUME NEW p \in Proc, wait_state'[p] = "WT_CHILD"
                 PROVE  Awaited(p)' # {} /\ \A d \in Awaited(p)' : state'[d] # "ZOMBIE"
      BY DEF NoLostChildWakeup
    <3>1. wait_state[p] = "WT_CHILD" /\ p # current
      BY <1>1, <1>2
    <3>2. Awaited(p)' = Awaited(p)
      BY <3>1, <1>0, <1>2, <1>4, <2>0 DEF Awaited, Children, TypeOK
    <3> QED
      BY <3>1, <3>2, <1>0, <1>4 DEF NoLostChildWakeup, TypeOK
  <2>6. FamilyTree'
    <3>1. {p \in Proc : Live(p)}' = {p \in Proc : Live(p)} \cup {c}
      BY <1>0, <1>4 DEF Live, TypeOK
    <3>2. nr_process' = Cardinality({p \in Proc : Live(p)}')
      <4> DEFINE L == {p \in Proc : Live(p)}
      <4>1. IsFiniteSet(L) /\ c \notin L
        BY <1>4, FS_Subset DEF Live
      <4>2. nr_process' = Cardinality(L) + 1
        BY <1>0, <1>4 DEF FamilyTree
      <4>3. L' = L \cup {c}
        BY <3>1
      <4> HIDE DEF L
      <4>4. Cardinality(L \cup {c}) = Cardinality(L) + 1
        BY <4>1, FS_AddElement
      <4>5. nr_process' = Cardinality(L')
        BY <4>2, <4>3, <4>4
      <4> QED
        BY <4>5 DEF L
    <3>3. \A p \in Proc : p # c => parent'[p] = parent[p] /\ (Live(p)' <=> Live(p))
      BY <1>0, <1>4 DEF Live, TypeOK
    <3>4. Live(c)' /\ parent'[c] = current /\ state'[current] = "RUNNABLE"
      BY <1>0, <1>1, <1>4, <2>0 DEF Live, TypeOK
    <3>5. \A p \in Proc : parent'[p] = NULL <=> (p = idleproc \/ ~ Live(p)')
      BY <3>3, <3>4, <1>0, <1>1, <2>0 DEF FamilyTree, Users
    <3>6. ASSUME NEW p \in Proc \ {idleproc}, Live(p)', p # c
          PROVE  state'[parent'[p]] \in {"SLEEPING", "RUNNABLE"}
      <4>1. state[parent[p]] \in {"SLEEPING", "RUNNABLE"} /\ parent[p] \in Proc
        BY <3>3, <3>6, <1>0 DEF FamilyTree, TypeOK
      <4>2. parent[p] # c
        BY <4>1, <1>4
      <4> QED
        BY <3>3, <3>6, <4>1, <4>2, <1>0, <1>4 DEF TypeOK
    <3> QED
      BY <3>2, <3>4, <3>5, <3>6 DEF FamilyTree
  <2>7. TimersOwned'
    BY <1>0, <1>1, <1>2, <1>4, <2>0, TimersKept DEF TypeOK
  <2>8. Rooted'
    <3>1. PICK r : Ranked(r)
      BY <1>0 DEF Rooted
    <3>2. PICK q \in [Proc -> Nat] :
             q[c] = r[current] + 1 /\ \A p \in Proc : p # c => q[p] = r[p]
      <4> DEFINE q == [r EXCEPT ![c] = r[current] + 1]
      <4>1. q \in [Proc -> Nat] /\ q[c] = r[current] + 1 /\ \A p \in Proc : p # c => q[p] = r[p]
        BY <3>1, <1>1, <1>4 DEF Ranked
      <4> QED
        BY <4>1
    <3>3. q[current] < q[c]
      BY <3>1, <3>2, <1>1, <2>0 DEF Ranked
    <3>4. parent'[c] = current
      BY <1>0, <1>4 DEF TypeOK
    <3>5. ASSUME NEW p \in Users, Live(p)', p # c
          PROVE  parent'[p] # idleproc /\ (parent'[p] \in Users => q[parent'[p]] < q[p])
      <4>1. p \in Proc /\ Live(p) /\ parent'[p] = parent[p]
        BY <3>5, <1>0, <1>4 DEF Live, TypeOK, Users
      <4>2. parent[p] # c
        BY <4>1, <3>5, <1>0, <1>4 DEF FamilyTree, Users
      <4> QED
        BY <4>1, <4>2, <3>1, <3>2, <3>5 DEF Ranked, Users
    <3>6. Ranked(q)'
      BY <3>2, <3>3, <3>4, <3>5, <1>1 DEF Ranked, Users
    <3> QED
      BY <3>6 DEF Rooted
  <2>9. Stopped' /\ InitLeavesLast'
    <3>1. pc'[initproc] \notin {"done", "panic"}
      BY <1>0, <1>1, <1>4, <2>0 DEF TypeOK, Users
    <3> QED
      BY <3>1 DEF Stopped, InitLeavesLast
  <2> QED
    BY <2>1, <2>2, <2>3, <2>4, <2>5, <2>6, <2>7, <2>8, <2>9 DEF IInv
<1> QED
  BY <1>3, <1>4 DEF DoFork

-----------------------------------------------------------------------------
\* do_exit keeps the invariant: whoever waits for the exiting process, or
\* inherits a zombie from it, is awake and queued afterwards.
LEMMA DoExitInv ==
    ASSUME IInv, current # idleproc, pc[current] # "sleep", pc[initproc] # "done", DoExit
    PROVE  IInv'
<1> USE ProcAssumption, BoundsAssumption
<1>0. /\ TypeOK /\ PcExact /\ RunQueueExact /\ WaitStateExact /\ NoLostChildWakeup
      /\ FamilyTree /\ TimersOwned /\ Rooted /\ Stopped
  BY DEF IInv
<1>1. /\ current \in Proc /\ state[current] = "RUNNABLE" /\ wait_state[current] = "0"
      /\ current # initproc => pc[initproc] \notin {"done", "panic"} /\ current \in Users
  BY CurrentFacts, InitGoesOn DEF Users
<1>2. CASE current = initproc
  <2>1. /\ UNCHANGED <<state, wait_state, exiting, treeVars, wait_pid, schedVars, timer_list>>
        /\ pc' = [pc EXCEPT ![current] = "panic"]
    BY <1>2 DEF DoExit
  <2> USE <2>1 DEF treeVars, schedVars
  <2>2. TypeOK'
    <3>1. pc' \in [Proc -> PcUser \cup PcInit \cup {"idle"}]
      BY <1>0 DEF TypeOK, PcInit
    <3> QED
      BY <3>1, <1>0 DEF TypeOK
  <2>3. PcExact'
    <3>1. pc'[initproc] = "panic" /\ \A p \in Proc : p # initproc => pc'[p] = pc[p]
      BY <1>0, <1>2 DEF TypeOK
    <3>2. "panic" \in PcInit
      BY DEF PcInit
    <3> QED
      BY <3>1, <3>2, <1>0, <1>1, <1>2 DEF PcExact, Users
  <2>4. RunQueueExact' /\ WaitStateExact'
    BY <1>0 DEF RunQueueExact, WaitStateExact
  <2>5. NoLostChildWakeup'
    BY <1>0, WaitersKept
  <2>6. FamilyTree' /\ Rooted'
    BY <1>0, FamilyKept
  <2>7. TimersOwned'
    BY <1>0, <1>1, TimersKept DEF TypeOK
  <2>8. Stopped' /\ InitLeavesLast'
    BY <1>0, <1>1, <1>2 DEF Stopped, InitLeavesLast, TypeOK
  <2> QED
    BY <2>2, <2>3, <2>4, <2>5, <2>6, <2>7, <2>8 DEF IInv
<1>3. CASE current # initproc
  <2> DEFINE up == parent[current]
      kids == Children(current)
      toUp == WakesParent(up)
      toInit == up # initproc /\ WakesInit(kids)
      ws == (IF toUp THEN <<up>> ELSE <<>>) \o (IF toInit THEN <<initproc>> ELSE <<>>)
      W == {q \in Proc : (q = up /\ toUp) \/ (q = initproc /\ toInit)}
      wake == WakeupProcs(ws)
  <2>1. /\ state' = [wake.state EXCEPT ![current] = "ZOMBIE"]
        /\ wait_state' = wake.wait
        /\ parent' = [c \in Proc |-> IF c \in kids THEN initproc ELSE parent[c]]
        /\ pc' = [pc EXCEPT ![current] = "dead"]
        /\ wait_pid' = [wait_pid EXCEPT ![current] = NULL]
        /\ Schedule(state', wake.queue, wake.slice)
        /\ UNCHANGED <<exiting, nr_process, timer_list>>
    BY <1>3 DEF DoExit, Orphans
  <2>2. up \in Proc /\ up # idleproc /\ up # current /\ state[up] \in {"SLEEPING", "RUNNABLE"}
    <3>1. Live(current) /\ current \in Users
      BY <1>1, <1>3 DEF Live
    <3>2. PICK r : Ranked(r)
      BY <1>0 DEF Rooted
    <3>3. up \in Proc /\ up # idleproc /\ state[up] \in {"SLEEPING", "RUNNABLE"}
      BY <3>1, <3>2, <1>0, <1>1 DEF FamilyTree, TypeOK, Users, Ranked
    <3>4. up # current
      BY <3>1, <3>2 DEF Ranked, Users
    <3> QED
      BY <3>3, <3>4
  <2> HIDE DEF toUp, toInit
  <2>3. ws \in Seq(Proc) /\ Distinct(ws) /\ Elems(ws) = W
    <3> DEFINE a == IF toUp THEN <<up>> ELSE <<>>
        b == IF toInit THEN <<initproc>> ELSE <<>>
    <3>1. a \in Seq(Proc) /\ Distinct(a) /\ Elems(a) = IF toUp THEN {up} ELSE {}
      <4>1. a \in Seq(Proc)
        BY <2>2
      <4>2. CASE toUp
        BY <4>1, <4>2, SingletonList
      <4>3. CASE ~ toUp
        BY <4>1, <4>3 DEF Distinct, Elems
      <4> QED
        BY <4>2, <4>3
    <3>2. b \in Seq(Proc) /\ Distinct(b) /\ Elems(b) = IF toInit THEN {initproc} ELSE {}
      <4>1. CASE toInit
        BY <4>1 DEF Distinct, Elems
      <4>2. CASE ~ toInit
        BY <4>2 DEF Distinct, Elems
      <4> QED
        BY <4>1, <4>2
    <3>3. Elems(a) \cap Elems(b) = {}
      BY <3>1, <3>2 DEF toInit
    <3>4. ws = a \o b
      OBVIOUS
    <3> HIDE DEF a, b, ws
    <3>5. ws \in Seq(Proc) /\ Distinct(ws) /\ Elems(ws) = Elems(a) \cup Elems(b)
      BY <3>1, <3>2, <3>3, <3>4, ConcatList
    <3> QED
      BY <3>1, <3>2, <3>5, <2>2
  <2>4. \A q \in W : /\ q \in Proc /\ q # idleproc /\ q # current
                     /\ wait_state[q] = "WT_CHILD" /\ state[q] = "SLEEPING"
                     /\ pc[q] = "wait"
    BY <1>0, <1>3, <2>2 DEF toUp, toInit, WakesParent, WakesInit, WaitStateExact, PcExact
  <2>5. /\ wake.state = [q \in Proc |-> IF q \in W THEN "RUNNABLE" ELSE state[q]]
        /\ wake.wait = [q \in Proc |-> IF q \in W THEN "0" ELSE wait_state[q]]
        /\ wake.queue \in Seq(Proc)
        /\ QueueIs(wake.queue, wake.state, current)
        /\ wake.slice \in [Proc -> 0..MAX_TIME_SLICE]
    <3>1. {q \in Elems(ws) : state[q] # "RUNNABLE"} = W
      BY <2>3, <2>4
    <3> HIDE DEF ws, W
    <3> QED
      BY <1>0, <2>3, <2>4, <3>1, WakeupFacts
  <2> HIDE DEF ws, W, wake
  <2>6. /\ \A q \in Proc : /\ q \in W => state'[q] = "RUNNABLE" /\ wait_state'[q] = "0"
                           /\ q \notin W => wait_state'[q] = wait_state[q]
                           /\ q \notin W /\ q # current => state'[q] = state[q]
                           /\ q # current => pc'[q] = pc[q] /\ wait_pid'[q] = wait_pid[q]
        /\ state'[current] = "ZOMBIE" /\ pc'[current] = "dead"
        /\ wait_state'[current] = "0"
    BY <1>0, <1>1, <2>1, <2>4, <2>5 DEF TypeOK
  <2>7. /\ current' \in Proc /\ state'[current'] = "RUNNABLE"
        /\ run_list' \in Seq(Proc)
        /\ QueueIs(run_list', state', current')
        /\ time_slice' \in [Proc -> 0..MAX_TIME_SLICE]
        /\ need_resched' \in [Proc -> BOOLEAN]
    <3>1. state'[idleproc] = "RUNNABLE"
      BY <2>4, <2>6, <1>0 DEF PcExact
    <3>2. QueueIs(wake.queue, state', current)
      BY <2>1, <2>5 DEF QueueIs
    <3>3. current \in Proc /\ need_resched \in [Proc -> BOOLEAN]
      BY <1>0 DEF TypeOK
    <3> QED
      BY <2>1, <2>5, <3>1, <3>2, <3>3, ScheduleFacts
  <2>8. TypeOK'
    <3>1. pc' \in [Proc -> PcUser \cup PcInit \cup {"idle"}]
      BY <1>0, <2>1 DEF TypeOK, PcUser
    <3>2. /\ state' \in [Proc -> {"NONE", "SLEEPING", "RUNNABLE", "ZOMBIE"}]
          /\ wait_state' \in [Proc -> {"0", "WT_CHILD", "WT_TIMER"}]
      BY <1>0, <2>1, <2>5 DEF TypeOK
    <3>3. /\ parent' \in [Proc -> Proc \cup {NULL}]
          /\ wait_pid' \in [Proc -> Proc \cup {NULL}]
      BY <1>0, <2>1 DEF TypeOK
    <3> QED
      BY <3>1, <3>2, <3>3, <2>1, <2>7, <1>0 DEF TypeOK
  <2>9. PcExact'
    <3>1. "dead" \in PcUser
      BY DEF PcUser
    <3>2. ASSUME NEW p \in Users
          PROVE  /\ pc'[p] \in PcUser
                 /\ state'[p] = "NONE" <=> pc'[p] = "none"
                 /\ state'[p] = "ZOMBIE" <=> pc'[p] = "dead"
      <4>0. p \in Proc
        BY DEF Users
      <4>1. CASE p = current
        BY <4>1, <3>1, <2>6
      <4>2. CASE p # current /\ p \in W
        BY <4>0, <4>2, <2>4, <2>6, <1>0 DEF PcExact
      <4>3. CASE p # current /\ p \notin W
        BY <4>0, <4>3, <2>6, <1>0 DEF PcExact
      <4> QED
        BY <4>1, <4>2, <4>3
    <3>3. \A p \in Proc : /\ wait_state'[p] = "WT_CHILD" => pc'[p] = "wait"
                          /\ wait_state'[p] = "WT_TIMER" => pc'[p] = "sleep"
      BY <2>6, <1>0, <1>1 DEF PcExact
    <3>4. state'[idleproc] = "RUNNABLE" /\ pc'[idleproc] = "idle"
      BY <2>4, <2>6, <1>0 DEF PcExact
    <3>5. /\ state'[initproc] \in {"SLEEPING", "RUNNABLE"} /\ pc'[initproc] \in PcInit
          /\ wait_pid'[initproc] = NULL
      BY <2>6, <1>0, <1>3 DEF PcExact
    <3> QED
      BY <3>2, <3>3, <3>4, <3>5 DEF PcExact, Users
  <2>10. RunQueueExact'
    BY <2>7 DEF RunQueueExact, QueueIs
  <2>11. WaitStateExact'
    BY <2>4, <2>6, <2>7, <1>0 DEF WaitStateExact
  <2>12. NoLostChildWakeup'
    <3> SUFFICES ASSUME NEW p \in Proc, wait_state'[p] = "WT_CHILD"
                 PROVE  Awaited(p)' # {} /\ \A d \in Awaited(p)' : state'[d] # "ZOMBIE"
      BY DEF NoLostChildWakeup
    <3>1. wait_state[p] = "WT_CHILD" /\ p # current /\ p \notin W /\ wait_pid'[p] = wait_pid[p]
      BY <2>6, <1>1
    <3>2. Awaited(p) # {} /\ \A d \in Awaited(p) : d \in Proc /\ state[d] # "ZOMBIE"
      BY <3>1, <1>0 DEF NoLostChildWakeup, Awaited, Children
    <3>3. up # p
      BY <3>1 DEF W, toUp, WakesParent
    <3>4. current \notin Awaited(p)
      BY <3>3 DEF Awaited, Children
    <3>5. Awaited(p) \subseteq Awaited(p)'
      BY <3>1, <2>1 DEF Awaited, Children
    <3>6. ASSUME NEW d \in Awaited(p)', d \notin Awaited(p)
          PROVE  d \in Proc /\ d # current /\ state[d] # "ZOMBIE"
      <4>1. d \in kids /\ p = initproc
        BY <3>1, <3>6, <2>1 DEF Awaited, Children
      <4>2. d \in Proc /\ d # current
        BY <4>1, <2>2 DEF Children
      <4>3. ~ toInit
        BY <4>1, <3>1 DEF W
      <4>4. state[d] # "ZOMBIE"
        BY <4>1, <4>3, <3>1, <3>3 DEF toInit, WakesInit
      <4> QED
        BY <4>2, <4>4
    <3>7. ASSUME NEW d \in Awaited(p)' PROVE state'[d] # "ZOMBIE"
      <4>1. d \in Proc /\ d # current /\ state[d] # "ZOMBIE"
        BY <3>2, <3>4, <3>6
      <4> QED
        BY <4>1, <2>6
    <3> QED
      BY <3>2, <3>5, <3>7
  <2>13. \A p \in Proc : Live(p)' <=> Live(p)
    BY <1>1, <2>4, <2>6 DEF Live
  <2>14. FamilyTree'
    <3>1. {p \in Proc : Live(p)}' = {p \in Proc : Live(p)}
      BY <2>13
    <3>2. \A p \in Proc : parent'[p] = NULL <=> (p = idleproc \/ ~ Live(p)')
      BY <1>0, <1>1, <2>1, <2>13 DEF FamilyTree, Children
    <3>3. ASSUME NEW p \in Proc \ {idleproc}, Live(p)'
          PROVE  state'[parent'[p]] \in {"SLEEPING", "RUNNABLE"}
      <4>1. CASE p \in kids
        <5>1. parent'[p] = initproc
          BY <4>1, <2>1
        <5> QED
          BY <5>1, <2>9 DEF PcExact
      <4>2. CASE p \notin kids
        <5>1. parent'[p] = parent[p] /\ parent[p] # current
          BY <4>2, <2>1 DEF Children
        <5>2. parent[p] \in Proc /\ state[parent[p]] \in {"SLEEPING", "RUNNABLE"}
          BY <3>3, <2>13, <1>0 DEF FamilyTree, TypeOK
        <5> QED
          BY <5>1, <5>2, <2>6
      <4> QED
        BY <4>1, <4>2
    <3>4. nr_process' = Cardinality({p \in Proc : Live(p)})'
      BY <3>1, <1>0, <2>1 DEF FamilyTree
    <3> QED
      BY <3>2, <3>3, <3>4 DEF FamilyTree
  <2>15. Rooted'
    <3>1. PICK r : Ranked(r)
      BY <1>0 DEF Rooted
    <3>2. ASSUME NEW p \in Users, Live(p)'
          PROVE  parent'[p] # idleproc /\ (parent'[p] \in Users => r[parent'[p]] < r[p])
      BY <3>1, <3>2, <2>1, <2>13 DEF Ranked, Users
    <3>3. Ranked(r)'
      BY <3>1, <3>2 DEF Ranked, Users
    <3> QED
      BY <3>3 DEF Rooted
  <2>16. TimersOwned'
    <3>1. \A p \in Proc : pc[p] = "sleep" => p # current /\ p \notin W
      BY <2>4
    <3> QED
      BY <3>1, <2>1, <2>6, <1>0, TimersKept
  <2>17. Stopped' /\ InitLeavesLast'
    BY <1>1, <1>3, <2>6 DEF Stopped, InitLeavesLast
  <2> QED
    BY <2>8, <2>9, <2>10, <2>11, <2>12, <2>14, <2>15, <2>16, <2>17 DEF IInv
<1> QED
  BY <1>2, <1>3

-----------------------------------------------------------------------------
\* While a user process lives, init has a child: the live user process of
\* the least rank has no other parent.
LEMMA OldestIsInits ==
    ASSUME TypeOK, PcExact, FamilyTree, Rooted, Children(initproc) = {}
    PROVE  nr_process = 2 /\ \A p \in Users : ~ Live(p)
<1> USE ProcAssumption
<1>1. ASSUME NEW p \in Users, Live(p) PROVE FALSE
  <2>1. PICK r : Ranked(r)
    BY DEF Rooted
  <2> DEFINE T == {r[q] : q \in {u \in Users : Live(u)}}
  <2>2. T \in SUBSET Nat /\ T # {}
    BY <1>1, <2>1 DEF Ranked, Users
  <2>3. PICK m \in T : \A n \in T : m <= n
    <3> HIDE DEF T
    <3> QED
      BY <2>2, LeastNatural
  <2>4. PICK q \in Users : Live(q) /\ r[q] = m
    BY <2>3
  <2>5. parent[q] \in Users /\ Live(parent[q])
    <3>1. q \in Proc \ {idleproc} /\ parent[q] \in Proc
          /\ state[parent[q]] \in {"SLEEPING", "RUNNABLE"}
      BY <2>4 DEF FamilyTree, Users, TypeOK
    <3>2. parent[q] # idleproc /\ parent[q] # initproc
      BY <2>1, <2>4, <3>1 DEF Ranked, Children
    <3> QED
      BY <3>1, <3>2 DEF Users, Live
  <2>6. r[parent[q]] < r[q] /\ r[parent[q]] \in T /\ r[q] \in Nat
    BY <2>1, <2>4, <2>5 DEF Ranked, Users
  <2>7. r[q] <= r[parent[q]] /\ r[parent[q]] \in Nat
    BY <2>2, <2>3, <2>4, <2>6
  <2> QED
    BY <2>6, <2>7
<1>2. {p \in Proc : Live(p)} = {idleproc} \cup {initproc}
  BY <1>1 DEF PcExact, Live, Users
<1>3. Cardinality({idleproc} \cup {initproc}) = 2
  <2>1. IsFiniteSet({idleproc}) /\ Cardinality({idleproc}) = 1
    BY FS_Singleton
  <2>2. Cardinality({idleproc} \cup {initproc}) = Cardinality({idleproc}) + 1
    BY <2>1, FS_AddElement
  <2> QED
    BY <2>1, <2>2
<1> QED
  BY <1>1, <1>2, <1>3 DEF FamilyTree

\* One turn of do_wait keeps the invariant.
LEMMA DoWaitInv ==
    ASSUME IInv, NEW w \in Proc \cup {NULL}, NEW next,
           (current = initproc /\ next = "reaped" /\ w = NULL)
               \/ (current \in Users /\ next = "trapret"),
           pc[current] # "sleep", pc[initproc] # "done",
           DoWait(w, next)
    PROVE  IInv'
<1> USE ProcAssumption, BoundsAssumption
<1>0. /\ TypeOK /\ PcExact /\ RunQueueExact /\ WaitStateExact /\ NoLostChildWakeup
      /\ FamilyTree /\ TimersOwned /\ Rooted /\ Stopped
  BY DEF IInv
<1>1. /\ current \in Proc /\ state[current] = "RUNNABLE" /\ wait_state[current] = "0"
      /\ current # idleproc
      /\ current # initproc => pc[initproc] \notin {"done", "panic"}
      /\ current \in Users => next = "trapret"
      /\ current \notin Users => current = initproc /\ next = "reaped" /\ w = NULL
      /\ next \in PcUser \cup PcInit
  BY CurrentFacts, InitGoesOn DEF Users, PcUser, PcInit
<1> DEFINE kids == {c \in Children(current) : w \in {NULL, c}}
    zombies == {c \in kids : state[c] = "ZOMBIE"}
<1>2. ASSUME NEW c \in zombies,
             state' = [state EXCEPT ![c] = "NONE"],
             parent' = [parent EXCEPT ![c] = NULL],
             exiting' = [exiting EXCEPT ![c] = FALSE],
             time_slice' = [time_slice EXCEPT ![c] = 0],
             nr_process' = nr_process - 1,
             pc' = [pc EXCEPT ![c] = "none", ![current] = next],
             wait_pid' = [wait_pid EXCEPT ![current] = NULL],
             UNCHANGED <<current, wait_state, run_list, need_resched, timer_list>>
      PROVE  IInv'
  <2>0. /\ c \in Proc /\ c # current /\ c \in Users /\ state[c] = "ZOMBIE"
        /\ parent[c] = current /\ pc[c] = "dead" /\ wait_state[c] = "0"
    BY <1>0, <1>1 DEF Children, PcExact, Users, WaitStateExact
  <2> HIDE DEF kids, zombies
  <2>1. /\ \A p \in Proc : p # c => state'[p] = state[p] /\ parent'[p] = parent[p]
        /\ \A p \in Proc : p # current => wait_pid'[p] = wait_pid[p]
        /\ \A p \in Proc : p # c /\ p # current => pc'[p] = pc[p]
        /\ state'[c] = "NONE" /\ parent'[c] = NULL /\ pc'[c] = "none"
        /\ pc'[current] = next /\ wait_pid'[current] = NULL
    BY <1>0, <1>1, <1>2, <2>0 DEF TypeOK
  <2>2. \A p \in Proc : parent[p] # c
    BY <1>0, <2>0 DEF FamilyTree, TypeOK
  <2>3. nr_process' \in Nat /\ nr_process' = Cardinality({p \in Proc : Live(p)}')
    <3> DEFINE L == {p \in Proc : Live(p)}
    <3>1. IsFiniteSet(L) /\ c \in L
      BY <2>0, FS_Subset DEF Live
    <3>2. L' = L \ {c}
      BY <2>0, <2>1 DEF Live
    <3>3. nr_process = Cardinality(L)
      BY <1>0 DEF FamilyTree
    <3> HIDE DEF L
    <3>4. Cardinality(L \ {c}) = Cardinality(L) - 1 /\ Cardinality(L \ {c}) \in Nat
      BY <3>1, FS_RemoveElement, FS_Subset, FS_CardinalityType
    <3>5. nr_process' \in Nat /\ nr_process' = Cardinality(L')
      BY <1>2, <3>2, <3>3, <3>4
    <3> QED
      BY <3>5 DEF L
  <2>4. TypeOK'
    <3>1. pc' \in [Proc -> PcUser \cup PcInit \cup {"idle"}]
      BY <1>0, <1>1, <1>2 DEF TypeOK, PcUser
    <3>2. /\ state' \in [Proc -> {"NONE", "SLEEPING", "RUNNABLE", "ZOMBIE"}]
          /\ parent' \in [Proc -> Proc \cup {NULL}]
          /\ exiting' \in [Proc -> BOOLEAN]
          /\ wait_pid' \in [Proc -> Proc \cup {NULL}]
      BY <1>0, <1>2 DEF TypeOK
    <3>3. time_slice' \in [Proc -> 0..MAX_TIME_SLICE]
      <4>1. 0 \in 0..MAX_TIME_SLICE /\ time_slice \in [Proc -> 0..MAX_TIME_SLICE]
        BY <1>0 DEF TypeOK
      <4> QED
        BY <4>1, <1>2
    <3> QED
      BY <3>1, <3>2, <3>3, <2>3, <1>0, <1>2 DEF TypeOK
  <2>5. PcExact'
    <3>1. \A p \in Users : /\ p \in Proc /\ pc[p] \in PcUser
                           /\ state[p] = "NONE" <=> pc[p] = "none"
                           /\ state[p] = "ZOMBIE" <=> pc[p] = "dead"
      BY <1>0 DEF PcExact, Users
    <3>2. "trapret" \in PcUser /\ "none" \in PcUser /\ "reaped" \in PcInit
      BY DEF PcUser, PcInit
    <3>3. \A p \in Users : /\ pc'[p] \in PcUser
                           /\ state'[p] = "NONE" <=> pc'[p] = "none"
                           /\ state'[p] = "ZOMBIE" <=> pc'[p] = "dead"
      <4> SUFFICES ASSUME NEW p \in Users
                   PROVE  /\ pc'[p] \in PcUser
                          /\ state'[p] = "NONE" <=> pc'[p] = "none"
                          /\ state'[p] = "ZOMBIE" <=> pc'[p] = "dead"
        OBVIOUS
      <4>1. CASE p = c
        BY <4>1, <3>2, <2>1
      <4>2. CASE p = current
        BY <4>2, <3>1, <3>2, <2>0, <2>1, <1>1
      <4>3. CASE p # c /\ p # current
        BY <4>3, <3>1, <2>1
      <4> QED
        BY <4>1, <4>2, <4>3
    <3>4. \A p \in Proc : /\ wait_state'[p] = "WT_CHILD" => pc'[p] = "wait"
                          /\ wait_state'[p] = "WT_TIMER" => pc'[p] = "sleep"
      <4>1. wait_state' = wait_state
        BY <1>2
      <4>2. \A p \in Proc : wait_state[p] # "0" => p # c /\ p # current
        BY <2>0, <1>1
      <4> QED
        BY <4>1, <4>2, <2>1, <1>0 DEF PcExact
    <3>5. state'[idleproc] = "RUNNABLE" /\ pc'[idleproc] = "idle"
      BY <2>0, <2>1, <1>0, <1>1 DEF PcExact, Users
    <3>6. /\ state'[initproc] \in {"SLEEPING", "RUNNABLE"} /\ pc'[initproc] \in PcInit
          /\ wait_pid'[initproc] = NULL
      <4>1. initproc # c /\ (initproc = current => next = "reaped")
        BY <2>0, <1>1 DEF Users
      <4> QED
        BY <4>1, <3>2, <2>1, <1>0 DEF PcExact
    <3> QED
      BY <3>3, <3>4, <3>5, <3>6 DEF PcExact, Users
  <2>6. RunQueueExact' /\ WaitStateExact'
    BY <2>0, <2>1, <1>0, <1>1, <1>2 DEF RunQueueExact, WaitStateExact
  <2>7. NoLostChildWakeup'
    <3> SUFFICES ASSUME NEW p \in Proc, wait_state'[p] = "WT_CHILD"
                 PROVE  Awaited(p)' # {} /\ \A d \in Awaited(p)' : state'[d] # "ZOMBIE"
      BY DEF NoLostChildWakeup
    <3>1. wait_state[p] = "WT_CHILD" /\ p # current
      BY <1>1, <1>2
    <3>2. Awaited(p)' = Awaited(p)
      BY <3>1, <2>0, <2>1 DEF Awaited, Children
    <3>3. \A d \in Awaited(p) : d \in Proc /\ d # c
      BY <3>1, <2>0 DEF Awaited, Children
    <3> QED
      BY <3>1, <3>2, <3>3, <2>1, <1>0 DEF NoLostChildWakeup
  <2>8. FamilyTree'
    <3>1. \A p \in Proc : parent'[p] = NULL <=> (p = idleproc \/ ~ Live(p)')
      BY <2>0, <2>1, <1>0 DEF FamilyTree, Live
    <3>2. ASSUME NEW p \in Proc \ {idleproc}, Live(p)'
          PROVE  state'[parent'[p]] \in {"SLEEPING", "RUNNABLE"}
      <4>1. p # c /\ Live(p) /\ parent'[p] = parent[p]
        BY <3>2, <2>1 DEF Live
      <4>2. parent[p] \in Proc /\ state[parent[p]] \in {"SLEEPING", "RUNNABLE"}
        BY <4>1, <1>0 DEF FamilyTree, TypeOK
      <4> QED
        BY <4>1, <4>2, <2>1, <2>2
    <3> QED
      BY <3>1, <3>2, <2>3 DEF FamilyTree
  <2>9. TimersOwned'
    BY <1>0, <1>1, <1>2, <2>0, <2>1, TimersKept
  <2>10. Rooted'
    <3>1. PICK r : Ranked(r)
      BY <1>0 DEF Rooted
    <3>2. ASSUME NEW p \in Users, Live(p)'
          PROVE  parent'[p] # idleproc /\ (parent'[p] \in Users => r[parent'[p]] < r[p])
      <4>1. p \in Proc /\ p # c /\ Live(p) /\ parent'[p] = parent[p]
        BY <3>2, <2>1 DEF Live, Users
      <4> QED
        BY <4>1, <3>1 DEF Ranked
    <3>3. Ranked(r)'
      BY <3>1, <3>2 DEF Ranked, Users
    <3> QED
      BY <3>3 DEF Rooted
  <2>11. Stopped' /\ InitLeavesLast'
    <3>1. pc'[initproc] \notin {"done", "panic"}
      BY <2>0, <2>1, <1>1 DEF Users
    <3> QED
      BY <3>1 DEF Stopped, InitLeavesLast
  <2> QED
    BY <2>4, <2>5, <2>6, <2>7, <2>8, <2>9, <2>10, <2>11 DEF IInv
<1>3. ASSUME zombies = {}, kids # {},
             state' = [state EXCEPT ![current] = "SLEEPING"],
             wait_state' = [wait_state EXCEPT ![current] = "WT_CHILD"],
             pc' = [pc EXCEPT ![current] = "wait"],
             wait_pid' = [wait_pid EXCEPT ![current] = w],
             Schedule(state', run_list, time_slice),
             UNCHANGED <<exiting, parent, nr_process, timer_list>>
      PROVE  IInv'
  <2>1. /\ \A p \in Proc : p # current => /\ state'[p] = state[p] /\ pc'[p] = pc[p]
                                          /\ wait_state'[p] = wait_state[p]
                                          /\ wait_pid'[p] = wait_pid[p]
        /\ state'[current] = "SLEEPING" /\ wait_state'[current] = "WT_CHILD"
        /\ pc'[current] = "wait" /\ wait_pid'[current] = w
    BY <1>0, <1>1, <1>3 DEF TypeOK
  <2>2. /\ current' \in Proc /\ state'[current'] = "RUNNABLE"
        /\ run_list' \in Seq(Proc)
        /\ QueueIs(run_list', state', current')
        /\ time_slice' \in [Proc -> 0..MAX_TIME_SLICE]
        /\ need_resched' \in [Proc -> BOOLEAN]
    <3>1. state'[idleproc] = "RUNNABLE"
      BY <2>1, <1>0, <1>1 DEF PcExact
    <3>2. QueueIs(run_list, state', current)
      BY <2>1, <1>0 DEF QueueIs, RunQueueExact
    <3>3. /\ current \in Proc /\ need_resched \in [Proc -> BOOLEAN] /\ run_list \in Seq(Proc)
          /\ time_slice \in [Proc -> 0..MAX_TIME_SLICE]
      BY <1>0 DEF TypeOK
    <3> QED
      BY <1>3, <3>1, <3>2, <3>3, ScheduleFacts
  <2>3. TypeOK'
    <3>1. pc' \in [Proc -> PcUser \cup PcInit \cup {"idle"}]
      BY <1>0, <1>3 DEF TypeOK, PcUser
    <3>2. /\ state' \in [Proc -> {"NONE", "SLEEPING", "RUNNABLE", "ZOMBIE"}]
          /\ wait_state' \in [Proc -> {"0", "WT_CHILD", "WT_TIMER"}]
          /\ wait_pid' \in [Proc -> Proc \cup {NULL}]
      BY <1>0, <1>3 DEF TypeOK
    <3> QED
      BY <3>1, <3>2, <2>2, <1>0, <1>3 DEF TypeOK
  <2>4. PcExact'
    <3>1. "wait" \in PcUser /\ "wait" \in PcInit
      BY DEF PcUser, PcInit
    <3>2. \A p \in Users : /\ pc'[p] \in PcUser
                           /\ state'[p] = "NONE" <=> pc'[p] = "none"
                           /\ state'[p] = "ZOMBIE" <=> pc'[p] = "dead"
      BY <3>1, <2>1, <1>0 DEF PcExact, Users
    <3>3. \A p \in Proc : /\ wait_state'[p] = "WT_CHILD" => pc'[p] = "wait"
                          /\ wait_state'[p] = "WT_TIMER" => pc'[p] = "sleep"
      BY <2>1, <1>0 DEF PcExact
    <3>4. state'[idleproc] = "RUNNABLE" /\ pc'[idleproc] = "idle"
      BY <2>1, <1>0, <1>1 DEF PcExact
    <3>5. /\ state'[initproc] \in {"SLEEPING", "RUNNABLE"} /\ pc'[initproc] \in PcInit
          /\ wait_pid'[initproc] = NULL
      BY <3>1, <2>1, <1>0, <1>1 DEF PcExact, Users
    <3> QED
      BY <3>2, <3>3, <3>4, <3>5 DEF PcExact, Users
  <2>5. RunQueueExact'
    BY <2>2 DEF RunQueueExact, QueueIs
  <2>6. WaitStateExact'
    BY <2>1, <2>2, <1>0 DEF WaitStateExact
  <2>7. NoLostChildWakeup'
    <3> SUFFICES ASSUME NEW p \in Proc, wait_state'[p] = "WT_CHILD"
                 PROVE  Awaited(p)' # {} /\ \A d \in Awaited(p)' : state'[d] # "ZOMBIE"
      BY DEF NoLostChildWakeup
    <3>1. CASE p = current
      <4>1. Awaited(p)' = kids
        BY <3>1, <2>1, <1>3 DEF Awaited, Children
      <4>2. \A d \in kids : d \in Proc /\ state[d] # "ZOMBIE"
        BY <1>3 DEF Children
      <4> QED
        BY <4>1, <4>2, <2>1, <1>3
    <3>2. CASE p # current
      <4>1. Awaited(p)' = Awaited(p) /\ wait_state[p] = "WT_CHILD"
        BY <3>2, <2>1, <1>3 DEF Awaited, Children
      <4>2. \A d \in Awaited(p) : d \in Proc
        BY DEF Awaited, Children
      <4> QED
        BY <4>1, <4>2, <2>1, <1>0 DEF NoLostChildWakeup
    <3> QED
      BY <3>1, <3>2
  <2>8. FamilyTree' /\ Rooted'
    BY <2>1, <1>0, <1>1, <1>3, FamilyKept
  <2>9. TimersOwned'
    BY <2>1, <1>0, <1>1, <1>3, TimersKept
  <2>10. Stopped' /\ InitLeavesLast'
    <3>1. pc'[initproc] \notin {"done", "panic"}
      BY <2>1, <1>1
    <3> QED
      BY <3>1 DEF Stopped, InitLeavesLast
  <2> QED
    BY <2>3, <2>4, <2>5, <2>6, <2>7, <2>8, <2>9, <2>10 DEF IInv
<1>4. ASSUME kids = {},
             pc' = [pc EXCEPT ![current] = IF current = initproc THEN "done" ELSE next],
             wait_pid' = [wait_pid EXCEPT ![current] = NULL],
             UNCHANGED <<state, wait_state, exiting, parent, nr_process, current, run_list,
                         time_slice, need_resched, timer_list>>
      PROVE  IInv'
  <2>1. /\ \A p \in Proc : p # current => pc'[p] = pc[p] /\ wait_pid'[p] = wait_pid[p]
        /\ pc'[current] = IF current = initproc THEN "done" ELSE next
        /\ wait_pid'[current] = NULL
    BY <1>0, <1>1, <1>4 DEF TypeOK
  <2>2. TypeOK'
    <3>1. pc' \in [Proc -> PcUser \cup PcInit \cup {"idle"}]
      BY <1>0, <1>1, <1>4 DEF TypeOK, PcInit
    <3>2. wait_pid' \in [Proc -> Proc \cup {NULL}]
      BY <1>0, <1>4 DEF TypeOK
    <3> QED
      BY <3>1, <3>2, <1>0, <1>4 DEF TypeOK
  <2>3. PcExact'
    <3>1. "trapret" \in PcUser /\ "done" \in PcInit
      BY DEF PcUser, PcInit
    <3> QED
      BY <3>1, <2>1, <1>0, <1>1, <1>4 DEF PcExact, Users
  <2>4. RunQueueExact' /\ WaitStateExact'
    BY <1>0, <1>4 DEF RunQueueExact, WaitStateExact
  <2>5. NoLostChildWakeup'
    <3>1. \A p \in Proc : wait_state[p] = "WT_CHILD" => Awaited(p)' = Awaited(p)
      BY <2>1, <1>1, <1>4 DEF Awaited, Children
    <3> QED
      BY <3>1, <1>0, <1>4 DEF NoLostChildWakeup
  <2>6. FamilyTree' /\ Rooted'
    BY <1>0, <1>4, FamilyKept
  <2>7. TimersOwned'
    BY <2>1, <1>0, <1>1, <1>4, TimersKept
  <2>8. Stopped' /\ InitLeavesLast'
    <3>1. CASE current = initproc
      <4>1. Children(initproc) = {}
        BY <3>1, <1>1, <1>4 DEF Users, Children
      <4>2. nr_process = 2 /\ \A p \in Users : ~ Live(p)
        BY <4>1, <1>0, OldestIsInits
      <4> QED
        BY <3>1, <4>2, <1>4 DEF Stopped, InitLeavesLast, Live, Users
    <3>2. CASE current # initproc
      BY <3>2, <2>1, <1>1 DEF Stopped, InitLeavesLast
    <3> QED
      BY <3>1, <3>2
  <2> QED
    BY <2>2, <2>3, <2>4, <2>5, <2>6, <2>7, <2>8 DEF IInv
<1> QED
  <2> HIDE DEF kids, zombies
  <2> QED
    BY <1>2, <1>3, <1>4 DEF DoWait, kids, zombies, treeVars, schedVars

-----------------------------------------------------------------------------
\* The owner of the CPU goes on at l, alive and on its way.
GoesTo(l) ==
    /\ \/ current = idleproc /\ l = "idle"
       \/ current = initproc /\ l \in PcInit \ {"done", "panic"}
       \/ current \in Users /\ l \in PcUser \ {"none", "dead"}
    /\ pc' = [pc EXCEPT ![current] = l]
    /\ current = initproc => pc[initproc] \notin {"done", "panic"}

\* A step of the owner on which processes at most wake up keeps what the
\* continuations say.
LEMMA PcKept ==
    ASSUME IInv, NEW l, GoesTo(l), wait_pid' = wait_pid,
           \A p \in Proc : \/ state'[p] = state[p]
                           \/ state[p] = "SLEEPING" /\ state'[p] = "RUNNABLE",
           \A p \in Proc : wait_state'[p] # "0" => wait_state'[p] = wait_state[p]
    PROVE  /\ pc' \in [Proc -> PcUser \cup PcInit \cup {"idle"}]
           /\ PcExact' /\ Stopped' /\ InitLeavesLast'
<1> USE ProcAssumption
<1>0. TypeOK /\ PcExact /\ Stopped
  BY DEF IInv
<1>1. /\ current \in Proc /\ state[current] = "RUNNABLE" /\ wait_state[current] = "0"
      /\ current # initproc => pc[initproc] \notin {"done", "panic"}
  BY CurrentFacts, InitGoesOn
<1>2. /\ pc'[current] = l /\ \A p \in Proc : p # current => pc'[p] = pc[p]
      /\ pc' = [pc EXCEPT ![current] = l]
  BY <1>0, <1>1 DEF GoesTo, TypeOK
<1>3. /\ current = idleproc => l = "idle"
      /\ current = initproc => l \in PcInit \ {"done", "panic"}
      /\ current \in Users => l \in PcUser \ {"none", "dead"}
      /\ l \in PcUser \cup PcInit \cup {"idle"}
  BY DEF GoesTo, Users
<1>4. pc' \in [Proc -> PcUser \cup PcInit \cup {"idle"}]
  BY <1>0, <1>2, <1>3 DEF TypeOK
<1>5. PcExact'
  <2>1. ASSUME NEW p \in Users
        PROVE  /\ pc'[p] \in PcUser
               /\ state'[p] = "NONE" <=> pc'[p] = "none"
               /\ state'[p] = "ZOMBIE" <=> pc'[p] = "dead"
    <3>1. /\ p \in Proc /\ pc[p] \in PcUser
          /\ state[p] = "NONE" <=> pc[p] = "none"
          /\ state[p] = "ZOMBIE" <=> pc[p] = "dead"
      BY <1>0 DEF PcExact, Users
    <3>2. CASE p = current
      BY <3>1, <3>2, <1>1, <1>2, <1>3
    <3>3. CASE p # current
      BY <3>1, <3>3, <1>2
    <3> QED
      BY <3>2, <3>3
  <2>2. \A p \in Proc : /\ wait_state'[p] = "WT_CHILD" => pc'[p] = "wait"
                        /\ wait_state'[p] = "WT_TIMER" => pc'[p] = "sleep"
    BY <1>0, <1>1, <1>2 DEF PcExact
  <2>3. state'[idleproc] = "RUNNABLE" /\ pc'[idleproc] = "idle"
    BY <1>0, <1>2, <1>3 DEF PcExact
  <2>4. /\ state'[initproc] \in {"SLEEPING", "RUNNABLE"} /\ pc'[initproc] \in PcInit
        /\ wait_pid'[initproc] = NULL
    BY <1>0, <1>2, <1>3 DEF PcExact
  <2> QED
    BY <2>1, <2>2, <2>3, <2>4 DEF PcExact, Users
<1>6. pc'[initproc] \notin {"done", "panic"}
  BY <1>1, <1>2, <1>3
<1> QED
  BY <1>4, <1>5, <1>6 DEF Stopped, InitLeavesLast

\* The CPU keeps its owner or schedule() finds another one.
Dispatches ==
    \/ Schedule(state, run_list, time_slice)
    \/ /\ UNCHANGED <<current, run_list, time_slice>>
       /\ need_resched' \in [Proc -> BOOLEAN]

\* A step that changes nobody's state keeps the invariant.
LEMMA QuietInv ==
    ASSUME IInv, NEW l, GoesTo(l), Dispatches,
           UNCHANGED <<state, wait_state, exiting, parent, nr_process, wait_pid>>,
           timer_list' \in Seq([proc : Proc, expires : Nat]), TimersOwned'
    PROVE  IInv'
<1>0. /\ TypeOK /\ RunQueueExact /\ WaitStateExact /\ NoLostChildWakeup
      /\ FamilyTree /\ Rooted
  BY DEF IInv
<1>1. /\ current' \in Proc /\ state[current'] = "RUNNABLE"
      /\ run_list' \in Seq(Proc)
      /\ QueueIs(run_list', state, current')
      /\ time_slice' \in [Proc -> 0..MAX_TIME_SLICE]
      /\ need_resched' \in [Proc -> BOOLEAN]
  <2>1. CASE Schedule(state, run_list, time_slice)
    <3>1. /\ current \in Proc /\ need_resched \in [Proc -> BOOLEAN] /\ run_list \in Seq(Proc)
          /\ time_slice \in [Proc -> 0..MAX_TIME_SLICE]
      BY <1>0 DEF TypeOK
    <3>2. state[idleproc] = "RUNNABLE" /\ QueueIs(run_list, state, current)
      BY CurrentFacts
    <3> QED
      BY <2>1, <3>1, <3>2, ScheduleFacts
  <2>2. CASE /\ UNCHANGED <<current, run_list, time_slice>>
             /\ need_resched' \in [Proc -> BOOLEAN]
    BY <2>2, <1>0, CurrentFacts DEF TypeOK
  <2> QED
    BY <2>1, <2>2 DEF Dispatches
<1>2. /\ pc' \in [Proc -> PcUser \cup PcInit \cup {"idle"}]
      /\ PcExact' /\ Stopped' /\ InitLeavesLast'
  BY PcKept
<1>3. TypeOK'
  BY <1>0, <1>1, <1>2 DEF TypeOK
<1>4. RunQueueExact' /\ WaitStateExact'
  BY <1>0, <1>1 DEF RunQueueExact, WaitStateExact, QueueIs
<1>5. NoLostChildWakeup'
  BY <1>0, WaitersKept
<1>6. FamilyTree' /\ Rooted'
  BY <1>0, FamilyKept
<1> QED
  BY <1>2, <1>3, <1>4, <1>5, <1>6 DEF IInv

\* A step that wakes the processes ws keeps the invariant.
LEMMA WokenInv ==
    ASSUME IInv, NEW l, GoesTo(l),
           NEW ws \in Seq(Proc), Distinct(ws),
           \A q \in Elems(ws) : /\ q # idleproc /\ q # current
                                /\ state[q] \in {"SLEEPING", "RUNNABLE"},
           state' = WakeupProcs(ws).state, wait_state' = WakeupProcs(ws).wait,
           run_list' = WakeupProcs(ws).queue,
           UNCHANGED <<current, parent, nr_process, wait_pid>>,
           exiting' \in [Proc -> BOOLEAN],
           time_slice' \in [Proc -> 0..MAX_TIME_SLICE],
           need_resched' \in [Proc -> BOOLEAN],
           timer_list' \in Seq([proc : Proc, expires : Nat]), TimersOwned'
    PROVE  IInv'
<1>0. /\ TypeOK /\ PcExact /\ RunQueueExact /\ WaitStateExact /\ NoLostChildWakeup
      /\ FamilyTree /\ Rooted
  BY DEF IInv
<1> DEFINE woken == {q \in Elems(ws) : state[q] # "RUNNABLE"}
<1>1. /\ state' = [q \in Proc |-> IF q \in woken THEN "RUNNABLE" ELSE state[q]]
      /\ wait_state' = [q \in Proc |-> IF q \in woken THEN "0" ELSE wait_state[q]]
      /\ run_list' \in Seq(Proc)
      /\ QueueIs(run_list', state', current)
  <2>1. \A q \in Elems(ws) : q # idleproc /\ q # current
    OBVIOUS
  <2> QED
    BY <1>0, <2>1, WakeupFacts
<1>2. \A q \in woken : state[q] = "SLEEPING" /\ q # current
  OBVIOUS
<1> HIDE DEF woken
<1>3. \A p \in Proc : /\ p \in woken => state'[p] = "RUNNABLE" /\ wait_state'[p] = "0"
                      /\ p \notin woken => state'[p] = state[p] /\ wait_state'[p] = wait_state[p]
  BY <1>1
<1>4. /\ pc' \in [Proc -> PcUser \cup PcInit \cup {"idle"}]
      /\ PcExact' /\ Stopped' /\ InitLeavesLast'
  BY <1>2, <1>3, PcKept
<1>5. TypeOK'
  <2>1. /\ state' \in [Proc -> {"NONE", "SLEEPING", "RUNNABLE", "ZOMBIE"}]
        /\ wait_state' \in [Proc -> {"0", "WT_CHILD", "WT_TIMER"}]
    BY <1>0, <1>1 DEF TypeOK
  <2> QED
    BY <2>1, <1>0, <1>1, <1>4 DEF TypeOK
<1>6. RunQueueExact'
  BY <1>1 DEF RunQueueExact, QueueIs
<1>7. WaitStateExact'
  <2>1. \A p \in Proc : (state'[p] = "SLEEPING") <=> (wait_state'[p] # "0")
    BY <1>0, <1>2, <1>3 DEF WaitStateExact
  <2>2. current \in Proc /\ current \notin woken /\ state[current] = "RUNNABLE"
    BY <1>0, <1>2 DEF WaitStateExact, TypeOK
  <2>3. state'[current'] = "RUNNABLE"
    BY <1>3, <2>2
  <2> QED
    BY <2>1, <2>3 DEF WaitStateExact
<1>8. NoLostChildWakeup'
  BY <1>0, <1>3, WaitersKept
<1>9. FamilyTree' /\ Rooted'
  BY <1>0, <1>2, <1>3, FamilyKept
<1> QED
  BY <1>4, <1>5, <1>6, <1>7, <1>8, <1>9 DEF IInv

\* do_sleep goes to sleep with its timer armed.
LEMMA SysSleepInv ==
    ASSUME IInv, NEW n \in 1..MAX_SLEEP, SysSleep(n)
    PROVE  IInv'
<1> USE ProcAssumption, BoundsAssumption
<1>0. /\ TypeOK /\ PcExact /\ RunQueueExact /\ WaitStateExact /\ NoLostChildWakeup
      /\ FamilyTree /\ TimersOwned /\ Rooted
  BY DEF IInv
<1>1. /\ current \in Proc /\ current \in Users /\ state[current] = "RUNNABLE"
      /\ wait_state[current] = "0" /\ pc[current] = "user"
      /\ current # idleproc /\ current # initproc
      /\ pc[initproc] \notin {"done", "panic"}
  BY CurrentFacts, InitGoesOn DEF SysSleep, InUser, Users
<1>2. /\ state' = [state EXCEPT ![current] = "SLEEPING"]
      /\ wait_state' = [wait_state EXCEPT ![current] = "WT_TIMER"]
      /\ timer_list' = AddTimer(timer_list, current, n)
      /\ pc' = [pc EXCEPT ![current] = "sleep"]
      /\ Schedule(state', run_list, time_slice)
      /\ UNCHANGED <<exiting, parent, nr_process, wait_pid>>
  BY DEF SysSleep, treeVars
<1>3. /\ \A p \in Proc : p # current => /\ state'[p] = state[p] /\ pc'[p] = pc[p]
                                        /\ wait_state'[p] = wait_state[p]
      /\ state'[current] = "SLEEPING" /\ wait_state'[current] = "WT_TIMER"
      /\ pc'[current] = "sleep"
  BY <1>0, <1>1, <1>2 DEF TypeOK
<1>4. /\ current' \in Proc /\ state'[current'] = "RUNNABLE"
      /\ run_list' \in Seq(Proc)
      /\ QueueIs(run_list', state', current')
      /\ time_slice' \in [Proc -> 0..MAX_TIME_SLICE]
      /\ need_resched' \in [Proc -> BOOLEAN]
  <2>1. state'[idleproc] = "RUNNABLE"
    BY <1>0, <1>1, <1>3 DEF PcExact
  <2>2. QueueIs(run_list, state', current)
    BY <1>0, <1>3 DEF QueueIs, RunQueueExact
  <2>3. /\ current \in Proc /\ need_resched \in [Proc -> BOOLEAN] /\ run_list \in Seq(Proc)
        /\ time_slice \in [Proc -> 0..MAX_TIME_SLICE]
    BY <1>0 DEF TypeOK
  <2> QED
    BY <1>2, <2>1, <2>2, <2>3, ScheduleFacts
<1>5. /\ timer_list' \in Seq(Entries(Proc))
      /\ Armed(timer_list') = Armed(timer_list) \cup {current}
      /\ Distinct(Owners(timer_list'))
      /\ HeadNotDue(timer_list')
  <2>1. timer_list \in Seq(Entries(Proc)) /\ n \in Nat \ {0}
    BY <1>0, ArmedProcs
  <2>2. /\ Distinct(Owners(timer_list)) /\ HeadNotDue(timer_list)
        /\ current \notin Armed(timer_list)
    BY <1>0, <1>1 DEF TimersOwned, HeadNotDue
  <2> DEFINE t == AddTimer(timer_list, current, n)
  <2>3. /\ t \in Seq(Entries(Proc)) /\ Armed(t) = Armed(timer_list) \cup {current}
        /\ Distinct(Owners(t)) /\ HeadNotDue(t)
    BY <1>1, <2>1, <2>2, AddTimerList
  <2>4. timer_list' = t
    BY <1>2
  <2> HIDE DEF t
  <2> QED
    BY <2>3, <2>4
<1>6. TypeOK'
  <2>1. pc' \in [Proc -> PcUser \cup PcInit \cup {"idle"}]
    BY <1>0, <1>2 DEF TypeOK, PcUser
  <2>2. /\ state' \in [Proc -> {"NONE", "SLEEPING", "RUNNABLE", "ZOMBIE"}]
        /\ wait_state' \in [Proc -> {"0", "WT_CHILD", "WT_TIMER"}]
    BY <1>0, <1>2 DEF TypeOK
  <2>3. timer_list' \in Seq([proc : Proc, expires : Nat])
    BY <1>5 DEF Entries
  <2> QED
    BY <2>1, <2>2, <2>3, <1>0, <1>2, <1>4 DEF TypeOK
<1>7. PcExact'
  <2>1. "sleep" \in PcUser
    BY DEF PcUser
  <2>2. \A p \in Users : /\ pc'[p] \in PcUser
                         /\ state'[p] = "NONE" <=> pc'[p] = "none"
                         /\ state'[p] = "ZOMBIE" <=> pc'[p] = "dead"
    BY <2>1, <1>0, <1>3 DEF PcExact, Users
  <2>3. \A p \in Proc : /\ wait_state'[p] = "WT_CHILD" => pc'[p] = "wait"
                        /\ wait_state'[p] = "WT_TIMER" => pc'[p] = "sleep"
    BY <1>0, <1>3 DEF PcExact
  <2>4. state'[idleproc] = "RUNNABLE" /\ pc'[idleproc] = "idle"
    BY <1>0, <1>1, <1>3 DEF PcExact
  <2>5. /\ state'[initproc] \in {"SLEEPING", "RUNNABLE"} /\ pc'[initproc] \in PcInit
        /\ wait_pid'[initproc] = NULL
    BY <1>0, <1>1, <1>2, <1>3 DEF PcExact
  <2> QED
    BY <2>2, <2>3, <2>4, <2>5 DEF PcExact, Users
<1>8. RunQueueExact' /\ WaitStateExact'
  BY <1>0, <1>3, <1>4 DEF RunQueueExact, WaitStateExact, QueueIs
<1>9. NoLostChildWakeup'
  BY <1>0, <1>1, <1>2, <1>3, WaitersKept
<1>10. FamilyTree' /\ Rooted'
  BY <1>0, <1>1, <1>2, <1>3, FamilyKept
<1>11. TimersOwned'
  <2>1. \A p \in Armed(timer_list) : p \in Proc /\ pc[p] = "sleep"
                                     /\ state[p] \in {"SLEEPING", "RUNNABLE"}
    BY <1>0, ArmedProcs DEF TimersOwned
  <2>2. \A p \in Armed(timer_list') : pc'[p] = "sleep" /\ state'[p] \in {"SLEEPING", "RUNNABLE"}
    BY <2>1, <1>1, <1>3, <1>5
  <2>3. \A p \in Proc : wait_state'[p] = "WT_TIMER" => p \in Armed(timer_list')
    BY <1>0, <1>3, <1>5 DEF TimersOwned
  <2> QED
    BY <2>2, <2>3, <1>5 DEF TimersOwned, HeadNotDue
<1>12. Stopped' /\ InitLeavesLast'
  BY <1>1, <1>3 DEF Stopped, InitLeavesLast
<1> QED
  BY <1>6, <1>7, <1>8, <1>9, <1>10, <1>11, <1>12 DEF IInv

\* A call of do_kill.
LEMMA SysKillInv ==
    ASSUME IInv, NEW p \in Killable, SysKill(p)
    PROVE  IInv'
<1> USE ProcAssumption
<1>0. TypeOK /\ PcExact /\ WaitStateExact /\ TimersOwned
  BY DEF IInv
<1>1. /\ current \in Users /\ current \in Proc /\ pc[current] = "user"
      /\ p \in Proc /\ p # idleproc
      /\ UNCHANGED <<current, parent, nr_process, wait_pid, need_resched, timer_list>>
      /\ pc' = [pc EXCEPT ![current] = "trapret"]
  BY CurrentFacts DEF SysKill, InUser, treeVars
<1>2. GoesTo("trapret")
  BY <1>1 DEF GoesTo, PcUser, Users
<1>3. timer_list' \in Seq([proc : Proc, expires : Nat]) /\ need_resched' \in [Proc -> BOOLEAN]
  BY <1>0, <1>1 DEF TypeOK
<1>4. CASE UNCHANGED <<state, wait_state, exiting, run_list, time_slice>>
  <2>1. TimersOwned'
    BY <1>0, <1>1, <1>4, TimersKept DEF TypeOK
  <2> QED
    BY <1>1, <1>2, <1>3, <1>4, <2>1, QuietInv DEF Dispatches
<1>5. CASE ~ exiting[p]
  <2> DEFINE ws == IF wait_state[p] # "0" THEN <<p>> ELSE <<>>
      wake == WakeupProcs(ws)
  <2>1. /\ exiting' = [exiting EXCEPT ![p] = TRUE]
        /\ state' = wake.state /\ wait_state' = wake.wait
        /\ run_list' = wake.queue /\ time_slice' = wake.slice
    BY <1>5 DEF SysKill
  <2>2. ws \in Seq(Proc) /\ Distinct(ws)
        /\ Elems(ws) = IF wait_state[p] # "0" THEN {p} ELSE {}
    <3>1. CASE wait_state[p] # "0"
      BY <3>1, <1>1, SingletonList
    <3>2. CASE wait_state[p] = "0"
      BY <3>2 DEF Elems, Distinct
    <3> QED
      BY <3>1, <3>2
  <2>3. \A q \in Elems(ws) : q # idleproc /\ q # current /\ state[q] \in {"SLEEPING", "RUNNABLE"}
    BY <2>2, <1>0, <1>1, CurrentFacts DEF WaitStateExact
  <2> HIDE DEF ws
  <2>4. /\ wake.state = [q \in Proc |-> IF q \in {x \in Elems(ws) : state[x] # "RUNNABLE"}
                                        THEN "RUNNABLE" ELSE state[q]]
        /\ wake.wait = [q \in Proc |-> IF q \in {x \in Elems(ws) : state[x] # "RUNNABLE"}
                                       THEN "0" ELSE wait_state[q]]
        /\ wake.slice \in [Proc -> 0..MAX_TIME_SLICE]
    BY <1>0, <2>2, <2>3, WakeupFacts DEF IInv
  <2> HIDE DEF wake
  <2>5. TimersOwned'
    <3>1. \A q \in Proc : /\ state[q] \in {"SLEEPING", "RUNNABLE"} =>
                               state'[q] \in {"SLEEPING", "RUNNABLE"}
                          /\ wait_state'[q] = "WT_TIMER" => wait_state[q] = "WT_TIMER"
                          /\ pc[q] = "sleep" => pc'[q] = "sleep"
      BY <1>0, <1>1, <2>1, <2>4 DEF TypeOK
    <3> QED
      BY <3>1, <1>0, <1>1, TimersKept
  <2>6. exiting' \in [Proc -> BOOLEAN] /\ time_slice' \in [Proc -> 0..MAX_TIME_SLICE]
    BY <1>0, <2>1, <2>4 DEF TypeOK
  <2> QED
    BY <1>1, <1>2, <1>3, <2>1, <2>2, <2>3, <2>5, <2>6, WokenInv DEF wake
<1> QED
  BY <1>4, <1>5 DEF SysKill

\* do_sleep comes back and takes its timer off the list, if it is still there.
LEMMA SleepResumeInv ==
    ASSUME IInv, SleepResume
    PROVE  IInv'
<1> USE ProcAssumption
<1>0. TypeOK /\ PcExact /\ TimersOwned
  BY DEF IInv
<1>1. /\ current \in Users /\ current \in Proc /\ wait_state[current] = "0"
      /\ UNCHANGED <<state, wait_state, exiting, parent, nr_process, wait_pid, current,
                     run_list, time_slice, need_resched>>
      /\ pc' = [pc EXCEPT ![current] = "trapret"]
  BY CurrentFacts DEF SleepResume, treeVars, schedVars
<1>2. GoesTo("trapret")
  BY <1>1 DEF GoesTo, PcUser, Users
<1> DEFINE t == DelTimer(timer_list, current)
<1>3. /\ t \in Seq(Entries(Proc)) /\ Armed(t) = Armed(timer_list) \ {current}
      /\ Distinct(Owners(t)) /\ HeadNotDue(t)
  <2>1. timer_list \in Seq(Entries(Proc))
    BY <1>0, ArmedProcs
  <2>2. Distinct(Owners(timer_list)) /\ HeadNotDue(timer_list)
    BY <1>0 DEF TimersOwned, HeadNotDue
  <2> QED
    BY <2>1, <2>2, DelTimerList
<1>4. timer_list' = t
  BY DEF SleepResume
<1> HIDE DEF t
<1>5. TimersOwned'
  <2>1. \A p \in Armed(timer_list) : p \in Proc /\ pc[p] = "sleep"
                                     /\ state[p] \in {"SLEEPING", "RUNNABLE"}
    BY <1>0, ArmedProcs DEF TimersOwned
  <2>2. \A p \in Proc : p # current => pc'[p] = pc[p]
    BY <1>0, <1>1 DEF TypeOK
  <2>3. \A p \in Armed(timer_list') : pc'[p] = "sleep" /\ state'[p] \in {"SLEEPING", "RUNNABLE"}
    BY <2>1, <2>2, <1>1, <1>3, <1>4
  <2>4. \A p \in Proc : wait_state'[p] = "WT_TIMER" => p \in Armed(timer_list')
    BY <1>0, <1>1, <1>3, <1>4 DEF TimersOwned
  <2> QED
    BY <2>3, <2>4, <1>3, <1>4 DEF TimersOwned, HeadNotDue
<1>6. timer_list' \in Seq([proc : Proc, expires : Nat])
  BY <1>3, <1>4 DEF Entries
<1>7. Dispatches
  BY <1>0, <1>1 DEF Dispatches, TypeOK
<1> QED
  BY <1>1, <1>2, <1>5, <1>6, <1>7, QuietInv

\* The timer interrupt.
LEMMA TickInv ==
    ASSUME IInv, Tick
    PROVE  IInv'
<1> USE ProcAssumption, BoundsAssumption
<1>0. TypeOK /\ PcExact /\ WaitStateExact /\ TimersOwned
  BY DEF IInv
<1> DEFINE ws   == Fired(timer_list)
           t    == TickTimers(timer_list)
           wake == WakeupProcs(ws)
           left == SliceLeft(wake.slice[current])
           l    == IF pc[current] = "user" THEN "trapret" ELSE pc[current]
<1>1. /\ current \in Proc /\ wait_state[current] = "0" /\ wait_state[idleproc] = "0"
      /\ pc[initproc] \notin {"done", "panic"}
      /\ current \in Users => pc[current] \in {"user", "user_main"}
      /\ pc' = IF pc[current] = "user" THEN [pc EXCEPT ![current] = "trapret"] ELSE pc
      /\ UNCHANGED <<current, exiting, parent, nr_process, wait_pid>>
  BY CurrentFacts DEF Tick, treeVars
<1>2. /\ timer_list' = t /\ state' = wake.state /\ wait_state' = wake.wait
      /\ run_list' = wake.queue
      /\ current = idleproc => /\ need_resched' = [need_resched EXCEPT ![idleproc] = TRUE]
                               /\ time_slice' = wake.slice
      /\ current # idleproc =>
            /\ time_slice' = [wake.slice EXCEPT ![current] = left]
            /\ need_resched' = [need_resched EXCEPT ![current] = @ \/ left = 0]
  BY DEF Tick
<1>3. GoesTo(l)
  <2>1. \A p \in {"user", "user_main", "trapret"} : p \in PcUser \ {"none", "dead"}
    BY DEF PcUser
  <2>2. pc[idleproc] = "idle" /\ pc[initproc] \in PcInit
    BY <1>0 DEF PcExact
  <2>3. "user" \notin PcInit \cup {"idle"}
    BY DEF PcInit
  <2>4. pc' = [pc EXCEPT ![current] = l]
    BY <1>0, <1>1 DEF TypeOK
  <2> QED
    BY <2>1, <2>2, <2>3, <2>4, <1>1 DEF GoesTo, Users
<1> HIDE DEF l
<1>4. /\ timer_list \in Seq(Entries(Proc)) /\ HeadNotDue(timer_list)
      /\ Distinct(Owners(timer_list))
  BY <1>0, ArmedProcs DEF TimersOwned, HeadNotDue
<1>5. /\ ws \in Seq(Proc) /\ Distinct(ws)
      /\ t \in Seq(Entries(Proc)) /\ Distinct(Owners(t)) /\ HeadNotDue(t)
      /\ Elems(ws) \cup Armed(t) = Armed(timer_list)
  BY <1>4, TickList
<1>6. \A q \in Armed(timer_list) : /\ q \in Proc /\ pc[q] = "sleep"
                                   /\ state[q] \in {"SLEEPING", "RUNNABLE"}
                                   /\ q # current /\ q # idleproc
  <2>1. \A q \in Armed(timer_list) : /\ q \in Proc /\ pc[q] = "sleep"
                                     /\ state[q] \in {"SLEEPING", "RUNNABLE"}
    BY <1>0, ArmedProcs DEF TimersOwned
  <2>2. pc[current] # "sleep" /\ pc[idleproc] # "sleep"
    <3>1. pc[idleproc] = "idle" /\ (current = initproc => pc[current] \in PcInit)
      BY <1>0 DEF PcExact
    <3>2. "sleep" \notin PcInit
      BY DEF PcInit
    <3> QED
      BY <3>1, <3>2, <1>1 DEF Users
  <2> QED
    BY <2>1, <2>2
<1>7. \A q \in Elems(ws) : /\ q # idleproc /\ q # current
                           /\ state[q] \in {"SLEEPING", "RUNNABLE"}
  <2> HIDE DEF ws, t
  <2> QED
    BY <1>5, <1>6
<1> HIDE DEF ws, t
<1>8. /\ wake.state = [q \in Proc |-> IF q \in {x \in Elems(ws) : state[x] # "RUNNABLE"}
                                      THEN "RUNNABLE" ELSE state[q]]
      /\ wake.wait = [q \in Proc |-> IF q \in {x \in Elems(ws) : state[x] # "RUNNABLE"}
                                     THEN "0" ELSE wait_state[q]]
      /\ wake.slice \in [Proc -> 0..MAX_TIME_SLICE]
  BY <1>5, <1>7, WakeupFacts DEF IInv
<1> HIDE DEF wake
<1>9. TimersOwned'
  <2>1. \A q \in Proc : /\ state[q] \in {"SLEEPING", "RUNNABLE"} =>
                             state'[q] \in {"SLEEPING", "RUNNABLE"}
                        /\ wait_state'[q] # "0" => wait_state'[q] = wait_state[q]
                        /\ q # current => pc'[q] = pc[q]
    BY <1>0, <1>1, <1>2, <1>8 DEF TypeOK
  <2>2. \A q \in Armed(timer_list') : pc'[q] = "sleep" /\ state'[q] \in {"SLEEPING", "RUNNABLE"}
    BY <2>1, <1>2, <1>5, <1>6
  <2>3. ASSUME NEW q \in Proc, wait_state'[q] = "WT_TIMER" PROVE q \in Armed(timer_list')
    <3>1. wait_state[q] = "WT_TIMER" /\ q \in Armed(timer_list) /\ state[q] = "SLEEPING"
      BY <2>1, <2>3, <1>0 DEF TimersOwned, WaitStateExact
    <3>2. q \notin Elems(ws)
      BY <3>1, <2>3, <1>2, <1>8
    <3> QED
      BY <3>1, <3>2, <1>2, <1>5
  <2> QED
    BY <2>2, <2>3, <1>2, <1>5 DEF TimersOwned, HeadNotDue
<1>10. /\ time_slice' \in [Proc -> 0..MAX_TIME_SLICE]
       /\ need_resched' \in [Proc -> BOOLEAN]
  <2>1. left \in 0..MAX_TIME_SLICE
    BY <1>1, <1>8 DEF SliceLeft
  <2> HIDE DEF left
  <2>2. need_resched \in [Proc -> BOOLEAN]
    BY <1>0 DEF TypeOK
  <2>3. CASE current = idleproc
    BY <2>2, <2>3, <1>2, <1>8
  <2>4. CASE current # idleproc
    <3>1. time_slice' \in [Proc -> 0..MAX_TIME_SLICE]
      BY <2>1, <2>4, <1>1, <1>2, <1>8
    <3>2. (need_resched[current] \/ left = 0) \in BOOLEAN
      BY <2>2, <1>1
    <3>3. need_resched' \in [Proc -> BOOLEAN]
      BY <2>2, <2>4, <3>2, <1>2
    <3> QED
      BY <3>1, <3>3
  <2> QED
    BY <2>3, <2>4
<1>11. timer_list' \in Seq([proc : Proc, expires : Nat]) /\ exiting' \in [Proc -> BOOLEAN]
  BY <1>0, <1>1, <1>2, <1>5 DEF Entries, TypeOK
<1> HIDE DEF left
<1> QED
  BY <1>1, <1>2, <1>3, <1>5, <1>7, <1>9, <1>10, <1>11, WokenInv DEF wake

-----------------------------------------------------------------------------
\* The invariant holds when proc_init is done ...
LEMMA InitIInv == Init => IInv
<1> USE ProcAssumption, BoundsAssumption
<1> SUFFICES ASSUME Init PROVE IInv
  OBVIOUS
<1>1. /\ idleproc \notin Users /\ initproc \notin Users
      /\ \A p \in Proc : p \in Users \/ p = idleproc \/ p = initproc
  BY DEF Users
<1>2. /\ timer_list = <<>> /\ run_list = <<initproc>> /\ current = idleproc
      /\ Armed(timer_list) = {} /\ Distinct(Owners(timer_list))
      /\ Distinct(run_list) /\ Elems(run_list) = {initproc}
  <2>1. Owners(<<>>) = <<>>
    BY DEF Owners
  <2>2. Elems(<<>>) = {} /\ Distinct(<<>>)
    BY DEF Elems, Distinct
  <2> QED
    BY <2>1, <2>2, SingletonList DEF Init, Armed
<1>3. TypeOK
  BY DEF Init, TypeOK, PcUser, PcInit, Users
<1>4. PcExact
  BY <1>1 DEF Init, PcExact, PcUser, PcInit, Users
<1>5. RunQueueExact /\ WaitStateExact
  BY <1>1, <1>2 DEF Init, RunQueueExact, WaitStateExact
<1>6. NoLostChildWakeup
  BY DEF Init, NoLostChildWakeup
<1>7. FamilyTree
  <2>1. {p \in Proc : Live(p)} = {idleproc} \cup {initproc}
    BY <1>1 DEF Init, Live
  <2>2. IsFiniteSet({idleproc}) /\ Cardinality({idleproc}) = 1
    BY FS_Singleton
  <2>3. Cardinality({idleproc} \cup {initproc}) = Cardinality({idleproc}) + 1
    BY <2>2, FS_AddElement
  <2>4. nr_process = Cardinality({p \in Proc : Live(p)})
    <3> DEFINE L == {p \in Proc : Live(p)}
    <3>1. L = {idleproc} \cup {initproc} /\ nr_process = 2
      BY <2>1 DEF Init
    <3> HIDE DEF L
    <3>2. nr_process = Cardinality(L)
      BY <2>2, <2>3, <3>1
    <3> QED
      BY <3>2 DEF L
  <2>5. /\ \A p \in Proc : Live(p) <=> p \notin Users
        /\ \A p \in Proc : parent[p] = NULL <=> p # initproc
        /\ parent[initproc] = idleproc /\ state[idleproc] = "RUNNABLE"
    BY <1>1 DEF Init, Live
  <2>6. \A p \in Proc : parent[p] = NULL <=> (p = idleproc \/ ~ Live(p))
    BY <1>1, <2>5
  <2>7. \A p \in Proc \ {idleproc} : Live(p) => state[parent[p]] \in {"SLEEPING", "RUNNABLE"}
    BY <1>1, <2>5
  <2> QED
    BY <2>4, <2>6, <2>7 DEF FamilyTree
<1>8. TimersOwned
  BY <1>2 DEF Init, TimersOwned
<1>9. Rooted
  <2>1. \A p \in Users : ~ Live(p)
    BY DEF Init, Live, Users
  <2>2. Ranked([p \in Proc |-> 0])
    BY <2>1 DEF Ranked
  <2> QED
    BY <2>2 DEF Rooted
<1>10. Stopped /\ InitLeavesLast
  BY DEF Init, Stopped, InitLeavesLast
<1> QED
  BY <1>3, <1>4, <1>5, <1>6, <1>7, <1>8, <1>9, <1>10 DEF IInv

\* ... and every step keeps it.
LEMMA NextIInv == IInv /\ [Next]_vars => IInv'
<1> USE ProcAssumption
<1> SUFFICES ASSUME IInv, [Next]_vars PROVE IInv'
  OBVIOUS
<1>0. /\ TypeOK /\ PcExact /\ TimersOwned
      /\ current \in Proc
      /\ "user" # "sleep"
  BY DEF IInv, TypeOK
<1>1. CASE UNCHANGED vars
  <2>1. TypeOK' /\ PcExact' /\ RunQueueExact' /\ WaitStateExact' /\ TimersOwned'
    BY <1>1 DEF IInv, vars, TypeOK, PcExact, RunQueueExact, WaitStateExact, TimersOwned
  <2>2. NoLostChildWakeup' /\ FamilyTree' /\ Rooted'
    BY <1>1, WaitersKept, FamilyKept DEF IInv, vars
  <2>3. Stopped' /\ InitLeavesLast'
    BY <1>1 DEF IInv, vars, Stopped, InitLeavesLast, Live
  <2> QED
    BY <2>1, <2>2, <2>3 DEF IInv
<1>2. ASSUME timer_list' = timer_list, wait_state' = wait_state, state' = state,
             \A p \in Proc : pc[p] = "sleep" => pc'[p] = "sleep"
      PROVE  TimersOwned' /\ timer_list' \in Seq([proc : Proc, expires : Nat])
  BY <1>0, <1>2, TimersKept DEF TypeOK
<1>3. ASSUME current \in Users, NEW l \in PcUser \ {"none", "dead"}, pc[current] # "sleep",
             pc' = [pc EXCEPT ![current] = l], Dispatches,
             UNCHANGED <<state, wait_state, exiting, parent, nr_process, wait_pid, timer_list>>
      PROVE  IInv'
  <2>1. GoesTo(l)
    BY <1>3 DEF GoesTo, Users
  <2>2. TimersOwned' /\ timer_list' \in Seq([proc : Proc, expires : Nat])
    BY <1>0, <1>2, <1>3 DEF TypeOK
  <2> QED
    BY <1>3, <2>1, <2>2, QuietInv
<1>4. "user" \in PcUser /\ "trapret" \in PcUser /\ "reap" \in PcInit
  BY DEF PcUser, PcInit
<1>5. current \in Users => /\ current \in Proc /\ current # initproc /\ current # idleproc
                           /\ pc[initproc] \notin {"done", "panic"}
  BY InitGoesOn DEF Users
<1>6. CASE Idle
  <2>1. GoesTo("idle")
    BY <1>0, <1>6 DEF GoesTo, Idle, At, TypeOK
  <2>2. Dispatches
    BY <1>6 DEF Idle, Dispatches
  <2>3. UNCHANGED <<state, wait_state, exiting, parent, nr_process, wait_pid, timer_list, pc>>
    BY <1>6 DEF Idle, treeVars
  <2> QED
    BY <1>2, <2>1, <2>2, <2>3, QuietInv
<1>7. CASE InitStart
  BY <1>7, DoForkInv DEF InitStart, At
<1>8. CASE InitReap
  BY <1>8, DoWaitInv DEF InitReap, At
<1>9. CASE InitYield
  <2>1. GoesTo("reap")
    BY <1>4, <1>9 DEF GoesTo, InitYield, At
  <2>2. Dispatches
    BY <1>9 DEF InitYield, Dispatches
  <2>3. UNCHANGED <<state, wait_state, exiting, parent, nr_process, wait_pid, timer_list>>
    BY <1>9 DEF InitYield, treeVars
  <2>4. \A p \in Proc : pc[p] = "sleep" => pc'[p] = "sleep"
    BY <1>0, <1>9 DEF InitYield, At, TypeOK
  <2> QED
    BY <1>2, <2>1, <2>2, <2>3, <2>4, QuietInv
<1>10. CASE KernelExecve
  <2>1. current \in Users /\ pc[current] = "user_main"
    BY <1>10 DEF KernelExecve
  <2>2. CASE DoExit
    BY <1>5, <2>1, <2>2, DoExitInv
  <2>3. CASE /\ pc' = [pc EXCEPT ![current] = "user"]
             /\ UNCHANGED <<state, wait_state, exiting, treeVars, wait_pid, schedVars, timer_list>>
    <3>1. Dispatches
      BY <1>0, <2>3 DEF Dispatches, TypeOK, schedVars
    <3> QED
      BY <1>3, <1>4, <2>1, <2>3, <3>1 DEF treeVars, schedVars
  <2> QED
    BY <1>10, <2>2, <2>3 DEF KernelExecve
<1>11. CASE SleepResume
  BY <1>11, SleepResumeInv
<1>12. CASE WaitResume
  <2>1. current # idleproc /\ pc[current] = "wait"
    BY <1>12 DEF WaitResume
  <2>2. CASE DoExit
    <3>1. pc[initproc] # "done"
      BY <1>0, <1>5, <2>1 DEF Users
    <3> QED
      BY <2>1, <2>2, <3>1, DoExitInv
  <2>3. CASE DoWait(wait_pid[current], IF current = initproc THEN "reaped" ELSE "trapret")
    <3>1. wait_pid[current] \in Proc \cup {NULL} /\ wait_pid[initproc] = NULL
      BY <1>0 DEF TypeOK, PcExact
    <3>2. CASE current = initproc
      BY <2>1, <2>3, <3>1, <3>2, DoWaitInv
    <3>3. CASE current \in Users
      BY <1>5, <2>1, <2>3, <3>1, <3>3, DoWaitInv
    <3> QED
      BY <2>1, <3>2, <3>3, <1>0 DEF Users
  <2> QED
    BY <1>12, <2>2, <2>3 DEF WaitResume
<1>13. CASE TrapReturn
  <2>1. current \in Users /\ pc[current] = "trapret"
    BY <1>13 DEF TrapReturn
  <2>2. CASE DoExit
    BY <1>5, <2>1, <2>2, DoExitInv
  <2>3. CASE /\ pc' = [pc EXCEPT ![current] = "user"]
             /\ IF need_resched[current] THEN Schedule(state, run_list, time_slice)
                                         ELSE UNCHANGED schedVars
             /\ UNCHANGED <<state, wait_state, exiting, treeVars, wait_pid, timer_list>>
    <3>1. Dispatches
      BY <1>0, <2>3 DEF Dispatches, TypeOK, schedVars
    <3> QED
      BY <1>3, <1>4, <2>1, <2>3, <3>1 DEF treeVars
  <2> QED
    BY <1>13, <2>2, <2>3 DEF TrapReturn
<1>14. CASE SysFork
  BY <1>5, <1>14, DoForkInv DEF SysFork, InUser
<1>15. CASE SysExit
  BY <1>5, <1>15, DoExitInv DEF SysExit, InUser
<1>16. CASE SysExec
  <2>1. current \in Users /\ pc[current] = "user"
    BY <1>16 DEF SysExec, InUser
  <2>2. CASE DoExit
    BY <1>5, <2>1, <2>2, DoExitInv
  <2>3. CASE /\ pc' = [pc EXCEPT ![current] = "trapret"]
             /\ UNCHANGED <<state, wait_state, exiting, treeVars, wait_pid, schedVars, timer_list>>
    <3>1. Dispatches
      BY <1>0, <2>3 DEF Dispatches, TypeOK, schedVars
    <3> QED
      BY <1>3, <1>4, <2>1, <2>3, <3>1 DEF treeVars, schedVars
  <2> QED
    BY <1>16, <2>2, <2>3 DEF SysExec
<1>17. CASE SysWait
  BY <1>5, <1>17, DoWaitInv DEF SysWait, InUser
<1>18. CASE SysYield
  <2>1. need_resched' \in [Proc -> BOOLEAN]
    BY <1>0, <1>18 DEF SysYield, TypeOK
  <2>2. Dispatches
    BY <1>18, <2>1 DEF SysYield, Dispatches
  <2> QED
    BY <1>3, <1>4, <1>18, <2>2 DEF SysYield, InUser, treeVars
<1>19. ASSUME NEW p \in Killable, SysKill(p) PROVE IInv'
  BY <1>19, SysKillInv
<1>20. ASSUME NEW n \in 1..MAX_SLEEP, SysSleep(n) PROVE IInv'
  BY <1>20, SysSleepInv
<1>21. CASE Tick
  BY <1>21, TickInv
<1>22. CASE Halted
  BY <1>1, <1>22 DEF Halted
<1> QED
  BY <1>1, <1>6, <1>7, <1>8, <1>9, <1>10, <1>11, <1>12, <1>13, <1>14, <1>15, <1>16, <1>17,
     <1>18, <1>19, <1>20, <1>21, <1>22 DEF Next, Kernel, Syscall

\* IInv holds throughout.
LEMMA SpecIInv == Spec => []IInv
<1>1. Init => IInv
  BY InitIInv
<1>2. IInv /\ [Next]_vars => IInv'
  BY NextIInv
<1> QED
  BY <1>1, <1>2, PTL DEF Spec

\* Every variable holds a value of its type, for any number of processes.
THEOREM TypeCorrect == Spec => []TypeOK
<1>1. IInv => TypeOK
  BY DEF IInv
<1> QED
  BY <1>1, SpecIInv, PTL

\* The run queue holds exactly the RUNNABLE processes that wait for the CPU.
THEOREM QueueCorrect == Spec => []RunQueueExact
<1>1. IInv => RunQueueExact
  BY DEF IInv
<1> QED
  BY <1>1, SpecIInv, PTL

\* Sleeping and having a reason to sleep are the same thing, and the owner of
\* the CPU is RUNNABLE.
THEOREM WaitStatesCorrect == Spec => []WaitStateExact
<1>1. IInv => WaitStateExact
  BY DEF IInv
<1> QED
  BY <1>1, SpecIInv, PTL

\* A process asleep in do_wait has a child to wait for, and no zombie.
THEOREM NoWakeupLost == Spec => []NoLostChildWakeup
<1>1. IInv => NoLostChildWakeup
  BY DEF IInv
<1> QED
  BY <1>1, SpecIInv, PTL

\* Every process has a live parent and nr_process counts them all.
THEOREM FamilyCorrect == Spec => []FamilyTree
<1>1. IInv => FamilyTree
  BY DEF IInv
<1> QED
  BY <1>1, SpecIInv, PTL

\* The timer list holds the timers of the processes in do_sleep, nothing else.
THEOREM TimersCorrect == Spec => []TimersOwned
<1>1. IInv => TimersOwned
  BY DEF IInv
<1> QED
  BY <1>1, SpecIInv, PTL

\* init_main leaves its loop only when it is alone with idle.
THEOREM InitIsLast == Spec => []InitLeavesLast
<1>1. IInv => InitLeavesLast
  BY DEF IInv
<1> QED
  BY <1>1, SpecIInv, PTL

-----------------------------------------------------------------------------
(***************************************************************************)
(* Descriptor tables.                                                      *)
(*                                                                         *)
(* The counts of one inode are sums over all tables and directories.  A    *)
(* call changes one process only, so the proof follows, for each call,     *)
(* what it does to the slots of that process that name the inode.          *)
(***************************************************************************)

\* A slot of a table between two calls.
Slot == [status : {"NONE", "OPENED"}, node : Files!Node \cup {NULL}, open_count : Nat]

\* The table of a process that reads through the slot r, or through none.
GoodTable(t, r) ==
    /\ t \in [Files!Fd -> Slot]
    /\ \A fd \in Files!Fd :
          \/ t[fd] = Files!FreeSlot
          \/ /\ t[fd].status = "OPENED" /\ t[fd].node \in Files!Node
             /\ t[fd].open_count = IF r = fd THEN 2 ELSE 1

FilesTypeOK ==
    /\ fd_array \in [FileProc -> [Files!Fd -> Slot]]
    /\ pwd \in [FileProc -> Files!Node \cup {NULL}]
    /\ mode \in [FileProc -> {"none", "kernel", "user"}]
    /\ reading \in [FileProc -> Files!Fd \cup {NULL}]
    /\ ref_count \in [Files!Node -> Int] /\ open_count \in [Files!Node -> Int]
    /\ lost_refs \in [Files!Node -> Nat] /\ lost_opens \in [Files!Node -> Nat]

\* Tables, and who has one.
TablesExact ==
    \A p \in FileProc :
        /\ GoodTable(fd_array[p], reading[p])
        /\ mode[p] = "none" => fd_array[p] = Files!Empty /\ pwd[p] = NULL
        /\ reading[p] # NULL => mode[p] = "user" /\ fd_array[p][reading[p]].status = "OPENED"

\* init stays in the kernel, and there is nobody else until it has a directory.
InitExact ==
    /\ mode[initproc] = "kernel" /\ pwd[initproc] \in {NULL, root}
    /\ pwd[initproc] = NULL =>
          /\ \A p \in FileProc : pwd[p] = NULL /\ fd_array[p] = Files!Empty
          /\ \A p \in FileProc \ {initproc} : mode[p] = "none"
          /\ lost_refs[root] = 0

\* Who loses an open descriptor loses its reference.
LossExact == \A n \in Files!Node : lost_opens[n] <= lost_refs[n]

FilesInv == FilesTypeOK /\ TablesExact /\ InitExact /\ LossExact /\ InodeCountsExact

\* The constants of FileTable, and the names its operators give to others.
LEMMA FileFacts ==
    /\ IsFiniteSet(FileProc) /\ IsFiniteSet(Files!Fd) /\ IsFiniteSet(FileProc \X Files!Fd)
    /\ initproc \in FileProc /\ stdin \in Device /\ root \in Files!Node /\ root # NULL
    /\ root \notin Device /\ Device \subseteq Files!Node /\ Regular \subseteq Files!Node
    /\ NULL \notin Files!Node /\ NULL \notin Files!Fd /\ 0 \in Files!Fd
    /\ Files!Fd \subseteq Nat
    /\ \A r \in Requests : r.node \in Files!Node \cup {NULL}
<1>1. Files!FileTableAssumption
  BY FilesAssumption
<1>2. IsFiniteSet(FileProc)
  BY <1>1 DEF Files!FileTableAssumption, IsFiniteSet, Files!IsFiniteSet
<1>3. NENTRY \in Nat \ {0, 1, 2}
  BY <1>1 DEF Files!FileTableAssumption
<1>4. IsFiniteSet(Files!Fd)
  BY <1>3, FS_Interval DEF Files!Fd
<1>5. IsFiniteSet(FileProc \X Files!Fd)
  BY <1>2, <1>4, FS_Product
<1>6. Files!Fd \subseteq Nat /\ 0 \in Files!Fd
  BY <1>3 DEF Files!Fd
<1>7. /\ initproc \in FileProc /\ stdin \in Device /\ root \notin Regular \cup Device
      /\ NULL \notin Files!Node \cup Files!Fd
      /\ \A r \in Requests : r.node \in Files!Node \cup {NULL}
  BY <1>1 DEF Files!FileTableAssumption
<1> QED
  BY <1>2, <1>4, <1>5, <1>6, <1>7 DEF Files!Node

\* The cardinality of FileTable is the one of this module.
LEMMA FilesCardinality ==
    ASSUME NEW S
    PROVE  Files!Cardinality(S) = Cardinality(S)
BY Zenon DEF Files!Cardinality, Cardinality

\* The slots of table t, or of all the tables A, that name an inode.
Named(t, n) == {fd \in Files!Fd : t[fd].node = n}
NamedIn(A, n) == {u \in FileProc \X Files!Fd : A[u[1]][u[2]].node = n}

\* They can be counted.
LEMMA NamedFinite ==
    ASSUME NEW t, NEW n
    PROVE  /\ IsFiniteSet(Named(t, n)) /\ Cardinality(Named(t, n)) \in Nat
           /\ IsFiniteSet(NamedIn(t, n)) /\ Cardinality(NamedIn(t, n)) \in Nat
<1>1. Named(t, n) \subseteq Files!Fd /\ NamedIn(t, n) \subseteq FileProc \X Files!Fd
  BY DEF Named, NamedIn
<1> QED
  BY <1>1, FileFacts, FS_Subset, FS_CardinalityType

\* The slots of one process and those of the others.
LEMMA NamedSplit ==
    ASSUME NEW A, NEW n, NEW p \in FileProc
    PROVE  LET O == {u \in FileProc \X Files!Fd : u[1] # p /\ A[u[1]][u[2]].node = n}
           IN  /\ Cardinality(O) \in Nat
               /\ Cardinality(NamedIn(A, n)) = Cardinality(O) + Cardinality(Named(A[p], n))
<1> DEFINE O == {u \in FileProc \X Files!Fd : u[1] # p /\ A[u[1]][u[2]].node = n}
           M == {p} \X Named(A[p], n)
<1>1. NamedIn(A, n) = O \cup M
  <2>1. ASSUME NEW u \in FileProc \X Files!Fd PROVE u \in NamedIn(A, n) <=> u \in O \cup M
    BY <2>1 DEF NamedIn, Named
  <2>2. O \cup M \subseteq FileProc \X Files!Fd
    BY DEF Named
  <2>3. NamedIn(A, n) \subseteq FileProc \X Files!Fd
    BY DEF NamedIn
  <2> HIDE DEF O, M
  <2> QED
    BY <2>1, <2>2, <2>3
<1>2. O \cap M = {}
  OBVIOUS
<1>3. IsFiniteSet(O) /\ Cardinality(O) \in Nat
  <2>1. O \subseteq FileProc \X Files!Fd
    OBVIOUS
  <2> HIDE DEF O
  <2> QED
    BY <2>1, FileFacts, FS_Subset, FS_CardinalityType
<1>4. IsFiniteSet(M) /\ Cardinality(M) = Cardinality(Named(A[p], n))
  <2>1. IsFiniteSet({p}) /\ Cardinality({p}) = 1
    BY FS_Singleton
  <2>2. IsFiniteSet(M) /\ Cardinality(M) = Cardinality({p}) * Cardinality(Named(A[p], n))
    BY <2>1, NamedFinite, FS_Product
  <2> QED
    BY <2>1, <2>2, NamedFinite
<1>5. Cardinality(O \cup M) = Cardinality(O) + Cardinality(M)
  <2> HIDE DEF O, M
  <2>1. Cardinality(O \cup M) = Cardinality(O) + Cardinality(M) - Cardinality(O \cap M)
    BY <1>3, <1>4, FS_Union
  <2>2. Cardinality(O \cap M) = 0
    BY <1>2, FS_EmptySet
  <2>3. Cardinality(M) \in Nat
    BY <1>4, FS_CardinalityType
  <2> QED
    BY <1>3, <2>1, <2>2, <2>3
<1> QED
  BY <1>1, <1>3, <1>4, <1>5

\* What a change of one table does to the count.
LEMMA NamedChange ==
    ASSUME NEW A, NEW B, NEW n, NEW p \in FileProc,
           \A q \in FileProc : q # p => B[q] = A[q]
    PROVE  Cardinality(NamedIn(B, n)) = Cardinality(NamedIn(A, n))
               - Cardinality(Named(A[p], n)) + Cardinality(Named(B[p], n))
<1> DEFINE O(C) == {u \in FileProc \X Files!Fd : u[1] # p /\ C[u[1]][u[2]].node = n}
<1>1. O(A) = O(B)
  <2>1. ASSUME NEW u \in FileProc \X Files!Fd PROVE u \in O(A) <=> u \in O(B)
    BY <2>1
  <2> QED
    BY <2>1
<1>2. /\ Cardinality(O(A)) \in Nat
      /\ Cardinality(NamedIn(A, n)) = Cardinality(O(A)) + Cardinality(Named(A[p], n))
      /\ Cardinality(NamedIn(B, n)) = Cardinality(O(B)) + Cardinality(Named(B[p], n))
  BY NamedSplit
<1>3. Cardinality(Named(A[p], n)) \in Nat /\ Cardinality(Named(B[p], n)) \in Nat
  BY NamedFinite
<1> HIDE DEF O
<1> QED
  BY <1>1, <1>2, <1>3

\* Whose working directory an inode is.
HomeOf(f, n) == {q \in FileProc : f[q] = n}

\* A change of one working directory.
LEMMA PwdChange ==
    ASSUME NEW f, NEW g, NEW n, NEW p \in FileProc,
           \A q \in FileProc : q # p => g[q] = f[q]
    PROVE  /\ Cardinality(HomeOf(f, n)) \in Nat
           /\ Cardinality(HomeOf(g, n)) =
                 Cardinality(HomeOf(f, n))
                     - (IF f[p] = n THEN 1 ELSE 0) + (IF g[p] = n THEN 1 ELSE 0)
<1> DEFINE F == HomeOf(f, n)
           G == HomeOf(g, n)
           O == {q \in FileProc : q # p /\ f[q] = n}
<1>1. /\ IsFiniteSet(O) /\ Cardinality(O) \in Nat
      /\ Cardinality(O \cup {p}) = Cardinality(O) + 1
  <2>1. O \subseteq FileProc /\ p \notin O
    OBVIOUS
  <2> HIDE DEF O
  <2>2. IsFiniteSet(O)
    BY <2>1, FileFacts, FS_Subset
  <2> QED
    BY <2>1, <2>2, FS_CardinalityType, FS_AddElement
<1>2. F = IF f[p] = n THEN O \cup {p} ELSE O
  BY DEF HomeOf
<1>3. G = IF g[p] = n THEN O \cup {p} ELSE O
  BY DEF HomeOf
<1> HIDE DEF F, G, O
<1>4. Cardinality(F) = Cardinality(O) + (IF f[p] = n THEN 1 ELSE 0)
  BY <1>1, <1>2
<1>5. Cardinality(G) = Cardinality(O) + (IF g[p] = n THEN 1 ELSE 0)
  BY <1>1, <1>3
<1> QED
  BY <1>1, <1>4, <1>5 DEF F, G

\* An open slot is one that names an inode.
LEMMA OpenSlots ==
    ASSUME NEW t, NEW r, GoodTable(t, r), NEW fd \in Files!Fd
    PROVE  /\ t[fd] \in Slot
           /\ t[fd].status = "OPENED" <=> t[fd].node \in Files!Node
           /\ t[fd].status = "OPENED" <=> t[fd] # Files!FreeSlot
           /\ t[fd].status # "OPENED" => t[fd].node = NULL /\ t[fd].open_count = 0
           /\ t[fd].status = "OPENED" => t[fd].open_count = IF r = fd THEN 2 ELSE 1
BY FileFacts DEF GoodTable, Slot, Files!FreeSlot

\* Opens counts the slots that name an inode.
LEMMA OpensIs ==
    ASSUME NEW t, NEW r, GoodTable(t, r), NEW F \in SUBSET Files!Fd, NEW n \in Files!Node
    PROVE  Files!Opens(t, F)[n] = Cardinality({fd \in F : t[fd].node = n})
<1>1. {fd \in F : t[fd].status = "OPENED" /\ t[fd].node = n} = {fd \in F : t[fd].node = n}
  <2>1. ASSUME NEW fd \in F, t[fd].node = n PROVE t[fd].status = "OPENED"
    BY <2>1, OpenSlots
  <2> QED
    BY <2>1
<1>2. Files!Opens(t, F)[n] = Files!Cardinality({fd \in F : t[fd].status = "OPENED" /\ t[fd].node = n})
  BY DEF Files!Opens
<1> QED
  BY <1>1, <1>2, FilesCardinality

\* Opens of a whole table, and of a part of it.
LEMMA OpensParts ==
    ASSUME NEW t, NEW r, GoodTable(t, r), NEW F \in SUBSET Files!Fd, NEW n \in Files!Node
    PROVE  /\ Files!Opens(t, F)[n] \in Nat
           /\ Files!Opens(t, Files!Fd)[n] = Cardinality(Named(t, n))
<1>1. IsFiniteSet({fd \in F : t[fd].node = n})
  <2>1. {fd \in F : t[fd].node = n} \subseteq Named(t, n)
    BY DEF Named
  <2> QED
    BY <2>1, NamedFinite, FS_Subset
<1>2. Files!Opens(t, F)[n] \in Nat
  BY <1>1, OpensIs, FS_CardinalityType
<1>3. Files!Opens(t, Files!Fd)[n] = Cardinality({fd \in Files!Fd : t[fd].node = n})
  BY OpensIs
<1> QED
  BY <1>2, <1>3 DEF Named

\* Closing slots of a table that nobody reads through.
LEMMA CloseSlotsIs ==
    ASSUME NEW t, GoodTable(t, NULL), NEW F \in SUBSET Files!Fd
    PROVE  /\ GoodTable(Files!CloseSlots(t, F), NULL)
           /\ Files!CloseSlots(t, Files!Fd) = Files!Empty
           /\ \A n \in Files!Node :
                 Cardinality(Named(t, n)) =
                     Cardinality(Named(Files!CloseSlots(t, F), n)) + Files!Opens(t, F)[n]
<1> DEFINE u == Files!CloseSlots(t, F)
<1>1. ASSUME NEW G, NEW fd \in Files!Fd
      PROVE  Files!CloseSlots(t, G)[fd] = IF fd \in G THEN Files!FreeSlot ELSE t[fd]
  <2>1. CASE t[fd].status = "OPENED"
    <3>1. t[fd].open_count = 1
      BY <2>1, OpenSlots, FileFacts
    <3> QED
      BY <2>1, <3>1 DEF Files!CloseSlots, Files!CloseSlot
  <2>2. CASE t[fd].status # "OPENED"
    <3>1. t[fd] = Files!FreeSlot
      BY <2>2, OpenSlots
    <3> QED
      BY <2>2, <3>1 DEF Files!CloseSlots
  <2> QED
    BY <2>1, <2>2
<1>2. \A G : Files!CloseSlots(t, G) = [fd \in Files!Fd |-> Files!CloseSlots(t, G)[fd]]
  BY DEF Files!CloseSlots
<1>3. Files!FreeSlot \in Slot
  BY DEF Files!FreeSlot, Slot
<1>4. GoodTable(u, NULL)
  <2>1. \A fd \in Files!Fd : u[fd] = IF fd \in F THEN Files!FreeSlot ELSE t[fd]
    BY <1>1
  <2>2. u = [fd \in Files!Fd |-> u[fd]]
    BY <1>2
  <2> HIDE DEF u
  <2> QED
    BY <2>1, <2>2, <1>3 DEF GoodTable
<1>5. Files!CloseSlots(t, Files!Fd) = Files!Empty
  <2>1. \A fd \in Files!Fd : Files!CloseSlots(t, Files!Fd)[fd] = Files!FreeSlot
    BY <1>1
  <2>2. Files!CloseSlots(t, Files!Fd) = [fd \in Files!Fd |-> Files!CloseSlots(t, Files!Fd)[fd]]
    BY <1>2
  <2> QED
    BY <2>1, <2>2 DEF Files!Empty
<1>6. ASSUME NEW n \in Files!Node
      PROVE  Cardinality(Named(t, n)) = Cardinality(Named(u, n)) + Files!Opens(t, F)[n]
  <2> DEFINE C == {fd \in F : t[fd].node = n}
  <2>1. Named(t, n) = Named(u, n) \cup C /\ Named(u, n) \cap C = {}
    <3>1. \A fd \in Files!Fd : u[fd] = IF fd \in F THEN Files!FreeSlot ELSE t[fd]
      BY <1>1
    <3>2. Files!FreeSlot.node # n
      BY FileFacts DEF Files!FreeSlot
    <3> HIDE DEF u
    <3> QED
      BY <3>1, <3>2 DEF Named
  <2>2. C \subseteq Named(t, n)
    BY DEF Named
  <2>3. IsFiniteSet(C) /\ Cardinality(C) \in Nat
    <3> HIDE DEF C
    <3> QED
      BY <2>2, NamedFinite, FS_Subset, FS_CardinalityType
  <2>4. Files!Opens(t, F)[n] = Cardinality(C)
    BY OpensIs
  <2>5. Cardinality(Named(u, n) \cup C) = Cardinality(Named(u, n)) + Cardinality(C)
                                          - Cardinality(Named(u, n) \cap C)
    <3> HIDE DEF C, u
    <3> QED
      BY <2>3, NamedFinite, FS_Union
  <2>6. Cardinality(Named(u, n) \cap C) = 0
    <3> HIDE DEF C, u
    <3> QED
      BY <2>1, FS_EmptySet
  <2>7. Cardinality(Named(u, n)) \in Nat
    BY NamedFinite
  <2> HIDE DEF C, u
  <2> QED
    BY <2>1, <2>3, <2>4, <2>5, <2>6, <2>7
<1> QED
  BY <1>4, <1>5, <1>6

\* Opening a slot.
LEMMA OpenSlotIs ==
    ASSUME NEW t, GoodTable(t, NULL), NEW fd \in Files!Fd, t[fd].status = "NONE",
           NEW m \in Files!Node
    PROVE  /\ GoodTable([t EXCEPT ![fd] = Files!NewSlot(m)], NULL)
           /\ \A n \in Files!Node :
                 Cardinality(Named([t EXCEPT ![fd] = Files!NewSlot(m)], n))
                     = Cardinality(Named(t, n)) + Files!Is(m)[n]
<1> DEFINE u == [t EXCEPT ![fd] = Files!NewSlot(m)]
<1>0. t \in [Files!Fd -> Slot] /\ t[fd] = Files!FreeSlot
  BY OpenSlots DEF GoodTable
<1>1. Files!NewSlot(m) \in Slot /\ Files!NewSlot(m).status = "OPENED"
      /\ Files!NewSlot(m).node = m /\ Files!NewSlot(m).open_count = 1
  BY DEF Files!NewSlot, Slot
<1>2. u \in [Files!Fd -> Slot] /\ u[fd] = Files!NewSlot(m)
      /\ \A e \in Files!Fd : e # fd => u[e] = t[e]
  BY <1>0, <1>1
<1> HIDE DEF u
<1>3. GoodTable(u, NULL)
  BY <1>1, <1>2, FileFacts DEF GoodTable
<1>4. ASSUME NEW n \in Files!Node
      PROVE  Cardinality(Named(u, n)) = Cardinality(Named(t, n)) + Files!Is(m)[n]
  <2>1. fd \notin Named(t, n)
    BY <1>0, FileFacts DEF Named, Files!FreeSlot
  <2>2. Named(u, n) = IF n = m THEN Named(t, n) \cup {fd} ELSE Named(t, n)
    BY <1>1, <1>2, <2>1 DEF Named
  <2>3. IsFiniteSet(Named(t, n)) /\ Cardinality(Named(t, n)) \in Nat
    BY NamedFinite
  <2>4. Cardinality(Named(t, n) \cup {fd}) = Cardinality(Named(t, n)) + 1
    BY <2>1, <2>3, FS_AddElement
  <2>5. Files!Is(m)[n] = IF n = m THEN 1 ELSE 0
    BY DEF Files!Is
  <2> QED
    BY <2>2, <2>3, <2>4, <2>5
<1> QED
  BY <1>3, <1>4 DEF u

\* The table of a child.
LEMMA DupFilesIs ==
    ASSUME NEW t, NEW r, GoodTable(t, r)
    PROVE  /\ GoodTable(Files!DupFiles(t), NULL)
           /\ \A n \in Files!Node : Named(Files!DupFiles(t), n) = Named(t, n)
<1> DEFINE u == Files!DupFiles(t)
<1>1. ASSUME NEW fd \in Files!Fd
      PROVE  /\ u[fd] \in Slot
             /\ t[fd].status = "OPENED" => /\ u[fd].status = "OPENED" /\ u[fd].open_count = 1
                                           /\ u[fd].node = t[fd].node
             /\ t[fd].status # "OPENED" => u[fd] = Files!FreeSlot
  BY OpenSlots DEF Files!DupFiles, Files!NewSlot, Files!FreeSlot, Slot
<1>2. u = [fd \in Files!Fd |-> u[fd]]
  BY DEF Files!DupFiles
<1>3. ASSUME NEW fd \in Files!Fd
      PROVE  t[fd].status = "OPENED" <=> t[fd].node \in Files!Node
  BY OpenSlots
<1> HIDE DEF u
<1>4. GoodTable(u, NULL)
  <2>1. u \in [Files!Fd -> Slot]
    BY <1>1, <1>2
  <2> QED
    BY <1>1, <1>3, <2>1, FileFacts DEF GoodTable
<1>5. ASSUME NEW n \in Files!Node, NEW fd \in Files!Fd
      PROVE  u[fd].node = n <=> t[fd].node = n
  BY <1>1, <1>3, FileFacts DEF Files!FreeSlot
<1>6. \A n \in Files!Node : Named(u, n) = Named(t, n)
  BY <1>5 DEF Named
<1> QED
  BY <1>4, <1>6 DEF u

\* A table without open slots.
LEMMA EmptyTable ==
    /\ GoodTable(Files!Empty, NULL)
    /\ \A n \in Files!Node : Cardinality(Named(Files!Empty, n)) = 0
<1>1. \A fd \in Files!Fd : Files!Empty[fd] = Files!FreeSlot
  BY DEF Files!Empty
<1>2. Files!FreeSlot \in Slot /\ Files!FreeSlot.node = NULL
  BY DEF Files!FreeSlot, Slot
<1>3. GoodTable(Files!Empty, NULL)
  BY <1>2 DEF GoodTable, Files!Empty
<1>4. ASSUME NEW n \in Files!Node PROVE Named(Files!Empty, n) = {}
  BY <1>1, <1>2, FileFacts DEF Named
<1> QED
  BY <1>3, <1>4, FS_EmptySet

\* The slots put_files frees are all the open ones.
LEMMA FreesIs ==
    ASSUME NEW t, GoodTable(t, NULL)
    PROVE  Files!Opens(t, Files!Frees(t, Files!Fd)) = Files!Opens(t, Files!Fd)
<1>1. ASSUME NEW fd \in Files!Fd, t[fd].status = "OPENED" PROVE t[fd].open_count = 1
  BY <1>1, OpenSlots, FileFacts
<1>2. ASSUME NEW n
      PROVE  {fd \in Files!Frees(t, Files!Fd) : t[fd].status = "OPENED" /\ t[fd].node = n}
             = {fd \in Files!Fd : t[fd].status = "OPENED" /\ t[fd].node = n}
  BY <1>1 DEF Files!Frees
<1> QED
  BY <1>2 DEF Files!Opens

\* Adding to and taking from what is counted.
LEMMA Sums ==
    ASSUME NEW f \in [Files!Node -> Int], NEW g, \A n \in Files!Node : g[n] \in Nat
    PROVE  /\ Files!Plus(f, g) \in [Files!Node -> Int] /\ Files!Minus(f, g) \in [Files!Node -> Int]
           /\ \A n \in Files!Node : /\ Files!Plus(f, g)[n] = f[n] + g[n]
                                    /\ Files!Minus(f, g)[n] = f[n] - g[n]
           /\ f \in [Files!Node -> Nat] => Files!Plus(f, g) \in [Files!Node -> Nat]
           /\ \A n \in Files!Node : Files!Plus(f, g)[n] \in Int /\ Files!Minus(f, g)[n] \in Int
BY DEF Files!Plus, Files!Minus

\* One reference to d.
LEMMA IsFacts ==
    ASSUME NEW n \in Files!Node, NEW d
    PROVE  /\ Files!Is(d)[n] = (IF d = n THEN 1 ELSE 0) /\ Files!Is(d)[n] \in Nat
           /\ Files!Nothing[n] = 0
BY FileFacts DEF Files!Is, Files!Nothing

\* The counts when one process changes its table and its directory.
LEMMA CountsMove ==
    ASSUME NEW n \in Files!Node, NEW p \in FileProc,
           \A q \in FileProc : q # p => fd_array'[q] = fd_array[q],
           \A q \in FileProc : q # p => pwd'[q] = pwd[q]
    PROVE  /\ Cardinality(NamedIn(fd_array', n)) = Cardinality(NamedIn(fd_array, n))
                  - Cardinality(Named(fd_array[p], n)) + Cardinality(Named(fd_array'[p], n))
           /\ Cardinality(NamedIn(fd_array, n)) \in Nat /\ Cardinality(NamedIn(fd_array', n)) \in Nat
           /\ Cardinality(Named(fd_array[p], n)) \in Nat
           /\ Cardinality(Named(fd_array'[p], n)) \in Nat
           /\ Cardinality(HomeOf(pwd, n)) \in Nat
           /\ Cardinality(HomeOf(pwd', n)) \in Nat
           /\ Cardinality(HomeOf(pwd', n)) =
                  Cardinality(HomeOf(pwd, n))
                      - Files!Is(pwd[p])[n] + Files!Is(pwd'[p])[n]
           /\ Files!Is(pwd[p])[n] \in Nat /\ Files!Is(pwd'[p])[n] \in Nat
<1>1. Cardinality(NamedIn(fd_array', n)) = Cardinality(NamedIn(fd_array, n))
          - Cardinality(Named(fd_array[p], n)) + Cardinality(Named(fd_array'[p], n))
  BY NamedChange
<1>2. /\ Cardinality(NamedIn(fd_array, n)) \in Nat /\ Cardinality(NamedIn(fd_array', n)) \in Nat
      /\ Cardinality(Named(fd_array[p], n)) \in Nat /\ Cardinality(Named(fd_array'[p], n)) \in Nat
  BY NamedFinite
<1>3. /\ Cardinality(HomeOf(pwd, n)) \in Nat
      /\ Cardinality(HomeOf(pwd', n)) =
             Cardinality(HomeOf(pwd, n))
                 - (IF pwd[p] = n THEN 1 ELSE 0) + (IF pwd'[p] = n THEN 1 ELSE 0)
  BY PwdChange
<1>4. Cardinality(HomeOf(pwd', n)) \in Nat
  BY PwdChange
<1>5. /\ Files!Is(pwd[p])[n] = IF pwd[p] = n THEN 1 ELSE 0
      /\ Files!Is(pwd'[p])[n] = IF pwd'[p] = n THEN 1 ELSE 0
  BY IsFacts
<1> QED
  BY <1>1, <1>2, <1>3, <1>4, <1>5

\* The count of one inode after a call of p.
LEMMA InodeKept ==
    ASSUME NEW n \in Files!Node, NEW p \in FileProc,
           \A q \in FileProc : q # p => fd_array'[q] = fd_array[q],
           \A q \in FileProc : q # p => pwd'[q] = pwd[q],
           pwd'[initproc] = pwd[initproc],
           lost_refs'[n] \in Nat, lost_opens'[n] \in Nat, lost_refs[n] \in Nat, lost_opens[n] \in Nat,
           ref_count[n] \in Int, open_count[n] \in Int, ref_count'[n] \in Int, open_count'[n] \in Int,
           lost_opens'[n] <= lost_refs'[n],
           open_count'[n] - lost_opens'[n] =
              open_count[n] - lost_opens[n]
              - Cardinality(Named(fd_array[p], n)) + Cardinality(Named(fd_array'[p], n)),
           ref_count'[n] - lost_refs'[n] =
              ref_count[n] - lost_refs[n]
              - Cardinality(Named(fd_array[p], n)) + Cardinality(Named(fd_array'[p], n))
              - Files!Is(pwd[p])[n] + Files!Is(pwd'[p])[n],
           open_count[n] = Cardinality(NamedIn(fd_array, n)) + lost_opens[n],
           ref_count[n] = Cardinality(HomeOf(pwd, n)) + Cardinality(NamedIn(fd_array, n))
                          + Files!Base(n) + lost_refs[n]
    PROVE  /\ open_count'[n] = Cardinality(NamedIn(fd_array', n)) + lost_opens'[n]
           /\ ref_count'[n] = Cardinality(HomeOf(pwd', n)) + Cardinality(NamedIn(fd_array', n))
                              + Files!Base(n)' + lost_refs'[n]
           /\ open_count'[n] <= ref_count'[n]
<1>1. /\ Cardinality(NamedIn(fd_array', n)) = Cardinality(NamedIn(fd_array, n))
             - Cardinality(Named(fd_array[p], n)) + Cardinality(Named(fd_array'[p], n))
      /\ Cardinality(HomeOf(pwd', n)) = Cardinality(HomeOf(pwd, n))
             - Files!Is(pwd[p])[n] + Files!Is(pwd'[p])[n]
  BY CountsMove
<1>2. /\ Cardinality(NamedIn(fd_array, n)) \in Nat /\ Cardinality(NamedIn(fd_array', n)) \in Nat
      /\ Cardinality(Named(fd_array[p], n)) \in Nat /\ Cardinality(Named(fd_array'[p], n)) \in Nat
      /\ Cardinality(HomeOf(pwd, n)) \in Nat /\ Cardinality(HomeOf(pwd', n)) \in Nat
      /\ Files!Is(pwd[p])[n] \in Nat /\ Files!Is(pwd'[p])[n] \in Nat
  BY CountsMove
<1>3. Files!Base(n)' = Files!Base(n) /\ Files!Base(n) \in Nat
  BY DEF Files!Base
<1> QED
  BY <1>1, <1>2, <1>3

\* Nothing of the other processes changes in a call of p.
OnlyOf(p) ==
    /\ fd_array' \in [FileProc -> [Files!Fd -> Slot]]
    /\ pwd' \in [FileProc -> Files!Node \cup {NULL}]
    /\ mode' \in [FileProc -> {"none", "kernel", "user"}]
    /\ reading' \in [FileProc -> Files!Fd \cup {NULL}]
    /\ \A q \in FileProc : q # p => /\ fd_array'[q] = fd_array[q] /\ pwd'[q] = pwd[q]
                                    /\ mode'[q] = mode[q] /\ reading'[q] = reading[q]

\* Its own table, directory and mode afterwards.
GoodOwn(p) ==
    /\ GoodTable(fd_array'[p], reading'[p])
    /\ mode'[p] = "none" => fd_array'[p] = Files!Empty /\ pwd'[p] = NULL
    /\ reading'[p] # NULL => mode'[p] = "user" /\ fd_array'[p][reading'[p]].status = "OPENED"

\* The counts change with the slots and the working directory that name an
\* inode, or these are lost.
CountsFollow(p) ==
    /\ ref_count' \in [Files!Node -> Int] /\ open_count' \in [Files!Node -> Int]
    /\ lost_refs' \in [Files!Node -> Nat] /\ lost_opens' \in [Files!Node -> Nat]
    /\ \A n \in Files!Node :
          /\ lost_opens'[n] <= lost_refs'[n]
          /\ open_count'[n] - lost_opens'[n] =
                open_count[n] - lost_opens[n]
                - Cardinality(Named(fd_array[p], n)) + Cardinality(Named(fd_array'[p], n))
          /\ ref_count'[n] - lost_refs'[n] =
                ref_count[n] - lost_refs[n]
                - Cardinality(Named(fd_array[p], n)) + Cardinality(Named(fd_array'[p], n))
                - Files!Is(pwd[p])[n] + Files!Is(pwd'[p])[n]

\* Such a call keeps the invariant.
LEMMA CallKeeps ==
    ASSUME FilesInv, NEW p \in FileProc, p # initproc, pwd[initproc] # NULL,
           OnlyOf(p), GoodOwn(p), CountsFollow(p)
    PROVE  FilesInv'
<1>0. FilesTypeOK /\ TablesExact /\ InitExact /\ LossExact /\ InodeCountsExact
  BY DEF FilesInv
<1>1. FilesTypeOK'
  BY DEF FilesTypeOK, OnlyOf, CountsFollow
<1>2. TablesExact'
  <2> SUFFICES ASSUME NEW q \in FileProc
               PROVE  /\ GoodTable(fd_array'[q], reading'[q])
                      /\ mode'[q] = "none" => fd_array'[q] = Files!Empty /\ pwd'[q] = NULL
                      /\ reading'[q] # NULL =>
                            mode'[q] = "user" /\ fd_array'[q][reading'[q]].status = "OPENED"
    BY DEF TablesExact, GoodTable
  <2>1. CASE q = p
    BY <2>1 DEF GoodOwn
  <2>2. CASE q # p
    BY <2>2, <1>0 DEF TablesExact, OnlyOf
  <2> QED
    BY <2>1, <2>2
<1>3. InitExact' /\ pwd'[initproc] = pwd[initproc]
  BY <1>0, FileFacts DEF InitExact, OnlyOf
<1>4. LossExact'
  BY DEF LossExact, CountsFollow
<1>5. InodeCountsExact'
  <2> SUFFICES ASSUME NEW n \in Files!Node
               PROVE  /\ open_count'[n] = Cardinality(NamedIn(fd_array', n)) + lost_opens'[n]
                      /\ ref_count'[n] = Cardinality(HomeOf(pwd', n))
                            + Cardinality(NamedIn(fd_array', n)) + Files!Base(n)' + lost_refs'[n]
                      /\ open_count'[n] <= ref_count'[n]
    BY FilesCardinality DEF InodeCountsExact, Files!InodeCountsExact, Files!Descriptors, NamedIn, HomeOf
  <2>1. /\ open_count[n] = Cardinality(NamedIn(fd_array, n)) + lost_opens[n]
        /\ ref_count[n] = Cardinality(HomeOf(pwd, n)) + Cardinality(NamedIn(fd_array, n))
                          + Files!Base(n) + lost_refs[n]
    BY <1>0, FilesCardinality
       DEF InodeCountsExact, Files!InodeCountsExact, Files!Descriptors, NamedIn, HomeOf
  <2>2. /\ lost_refs'[n] \in Nat /\ lost_opens'[n] \in Nat /\ lost_refs[n] \in Nat
        /\ lost_opens[n] \in Nat /\ ref_count[n] \in Int /\ open_count[n] \in Int
        /\ ref_count'[n] \in Int /\ open_count'[n] \in Int
    BY <1>0, <1>1 DEF FilesTypeOK
  <2>3. /\ lost_opens'[n] <= lost_refs'[n]
        /\ open_count'[n] - lost_opens'[n] =
              open_count[n] - lost_opens[n]
              - Cardinality(Named(fd_array[p], n)) + Cardinality(Named(fd_array'[p], n))
        /\ ref_count'[n] - lost_refs'[n] =
              ref_count[n] - lost_refs[n]
              - Cardinality(Named(fd_array[p], n)) + Cardinality(Named(fd_array'[p], n))
              - Files!Is(pwd[p])[n] + Files!Is(pwd'[p])[n]
    BY DEF CountsFollow
  <2>4. /\ \A q \in FileProc : q # p => fd_array'[q] = fd_array[q]
        /\ \A q \in FileProc : q # p => pwd'[q] = pwd[q]
        /\ pwd'[initproc] = pwd[initproc]
    BY <1>3 DEF OnlyOf
  <2> QED
    BY <2>1, <2>2, <2>3, <2>4, InodeKept
<1> QED
  BY <1>1, <1>2, <1>3, <1>4, <1>5 DEF FilesInv

\* What the invariant says about one process.
LEMMA OwnFacts ==
    ASSUME FilesInv, NEW p \in FileProc
    PROVE  /\ fd_array \in [FileProc -> [Files!Fd -> Slot]] /\ fd_array[p] \in [Files!Fd -> Slot]
           /\ pwd \in [FileProc -> Files!Node \cup {NULL}]
           /\ mode \in [FileProc -> {"none", "kernel", "user"}]
           /\ reading \in [FileProc -> Files!Fd \cup {NULL}]
           /\ ref_count \in [Files!Node -> Int] /\ open_count \in [Files!Node -> Int]
           /\ lost_refs \in [Files!Node -> Nat] /\ lost_opens \in [Files!Node -> Nat]
           /\ \A n \in Files!Node : lost_opens[n] <= lost_refs[n]
           /\ GoodTable(fd_array[p], reading[p])
           /\ reading[p] # NULL => mode[p] = "user" /\ fd_array[p][reading[p]].status = "OPENED"
           /\ mode[p] = "user" \/ Files!Execs(p)
                => p # initproc /\ pwd[initproc] # NULL /\ mode[p] # "none"
           /\ Files!Execs(p) => reading[p] = NULL
BY DEF FilesInv, FilesTypeOK, TablesExact, InitExact, LossExact, Files!Execs, Files!Runs

\* A call that counts what it opens, or closes.
LEMMA CountingCall ==
    ASSUME FilesInv, NEW p \in FileProc, NEW r, NEW o, Files!Count(r, o),
           \A n \in Files!Node :
              /\ r[n] \in Nat /\ o[n] \in Nat
              /\ Cardinality(Named(fd_array'[p], n)) = Cardinality(Named(fd_array[p], n)) + o[n]
              /\ r[n] + Files!Is(pwd[p])[n] = o[n] + Files!Is(pwd'[p])[n]
    PROVE  CountsFollow(p)
<1>1. /\ ref_count \in [Files!Node -> Int] /\ open_count \in [Files!Node -> Int]
      /\ lost_refs \in [Files!Node -> Nat] /\ lost_opens \in [Files!Node -> Nat]
      /\ \A n \in Files!Node : lost_opens[n] <= lost_refs[n]
  BY OwnFacts
<1>2. /\ ref_count' = Files!Plus(ref_count, r) /\ open_count' = Files!Plus(open_count, o)
      /\ lost_refs' = lost_refs /\ lost_opens' = lost_opens
  BY DEF Files!Count
<1>3. /\ ref_count' \in [Files!Node -> Int] /\ open_count' \in [Files!Node -> Int]
      /\ \A n \in Files!Node : ref_count'[n] = ref_count[n] + r[n] /\ open_count'[n] = open_count[n] + o[n]
  BY <1>1, <1>2, Sums
<1>4. ASSUME NEW n \in Files!Node
      PROVE  /\ lost_opens'[n] <= lost_refs'[n]
             /\ open_count'[n] - lost_opens'[n] =
                   open_count[n] - lost_opens[n]
                   - Cardinality(Named(fd_array[p], n)) + Cardinality(Named(fd_array'[p], n))
             /\ ref_count'[n] - lost_refs'[n] =
                   ref_count[n] - lost_refs[n]
                   - Cardinality(Named(fd_array[p], n)) + Cardinality(Named(fd_array'[p], n))
                   - Files!Is(pwd[p])[n] + Files!Is(pwd'[p])[n]
  <2>1. /\ lost_refs[n] \in Nat /\ lost_opens[n] \in Nat /\ ref_count[n] \in Int
        /\ open_count[n] \in Int /\ lost_opens[n] <= lost_refs[n]
        /\ lost_refs'[n] = lost_refs[n] /\ lost_opens'[n] = lost_opens[n]
        /\ r[n] \in Nat /\ o[n] \in Nat
    BY <1>1, <1>2
  <2>2. /\ Cardinality(Named(fd_array'[p], n)) \in Nat /\ Cardinality(Named(fd_array[p], n)) \in Nat
        /\ Files!Is(pwd'[p])[n] \in Nat /\ Files!Is(pwd[p])[n] \in Nat
    BY NamedFinite, IsFacts
  <2> QED
    BY <1>3, <2>1, <2>2
<1> QED
  BY <1>1, <1>2, <1>3, <1>4 DEF CountsFollow

\* ... or closes.
LEMMA UncountingCall ==
    ASSUME FilesInv, NEW p \in FileProc, NEW r, NEW o, Files!Uncount(r, o),
           \A n \in Files!Node :
              /\ r[n] \in Nat /\ o[n] \in Nat
              /\ Cardinality(Named(fd_array[p], n)) = Cardinality(Named(fd_array'[p], n)) + o[n]
              /\ r[n] + Files!Is(pwd'[p])[n] = o[n] + Files!Is(pwd[p])[n]
    PROVE  CountsFollow(p)
<1>1. /\ ref_count \in [Files!Node -> Int] /\ open_count \in [Files!Node -> Int]
      /\ lost_refs \in [Files!Node -> Nat] /\ lost_opens \in [Files!Node -> Nat]
      /\ \A n \in Files!Node : lost_opens[n] <= lost_refs[n]
  BY OwnFacts
<1>2. /\ ref_count' = Files!Minus(ref_count, r) /\ open_count' = Files!Minus(open_count, o)
      /\ lost_refs' = lost_refs /\ lost_opens' = lost_opens
  BY DEF Files!Uncount
<1>3. /\ ref_count' \in [Files!Node -> Int] /\ open_count' \in [Files!Node -> Int]
      /\ \A n \in Files!Node : ref_count'[n] = ref_count[n] - r[n] /\ open_count'[n] = open_count[n] - o[n]
  BY <1>1, <1>2, Sums
<1>4. ASSUME NEW n \in Files!Node
      PROVE  /\ lost_opens'[n] <= lost_refs'[n]
             /\ open_count'[n] - lost_opens'[n] =
                   open_count[n] - lost_opens[n]
                   - Cardinality(Named(fd_array[p], n)) + Cardinality(Named(fd_array'[p], n))
             /\ ref_count'[n] - lost_refs'[n] =
                   ref_count[n] - lost_refs[n]
                   - Cardinality(Named(fd_array[p], n)) + Cardinality(Named(fd_array'[p], n))
                   - Files!Is(pwd[p])[n] + Files!Is(pwd'[p])[n]
  <2>1. /\ lost_refs[n] \in Nat /\ lost_opens[n] \in Nat /\ ref_count[n] \in Int
        /\ open_count[n] \in Int /\ lost_opens[n] <= lost_refs[n]
        /\ lost_refs'[n] = lost_refs[n] /\ lost_opens'[n] = lost_opens[n]
        /\ r[n] \in Nat /\ o[n] \in Nat
    BY <1>1, <1>2
  <2>2. /\ Cardinality(Named(fd_array'[p], n)) \in Nat /\ Cardinality(Named(fd_array[p], n)) \in Nat
        /\ Files!Is(pwd'[p])[n] \in Nat /\ Files!Is(pwd[p])[n] \in Nat
    BY NamedFinite, IsFacts
  <2> QED
    BY <1>3, <2>1, <2>2
<1> QED
  BY <1>1, <1>2, <1>3, <1>4 DEF CountsFollow

\* The lowest free slot is free.
LEMMA LowestIsFree ==
    ASSUME NEW t, Files!Unused(t) # {}
    PROVE  Files!Lowest(Files!Unused(t)) \in Files!Unused(t)
<1>1. Files!Unused(t) \in SUBSET Nat
  BY FileFacts DEF Files!Unused
<1>2. \E m \in Files!Unused(t) : \A n \in Files!Unused(t) : m <= n
  BY <1>1, LeastNatural
<1> QED
  BY <1>2 DEF Files!Lowest

\* The table of p has one open slot more.
OpensOne(p, m) ==
    /\ OnlyOf(p) /\ GoodTable(fd_array'[p], NULL)
    /\ \A n \in Files!Node :
          Cardinality(Named(fd_array'[p], n)) = Cardinality(Named(fd_array[p], n)) + Files!Is(m)[n]
    /\ pwd' = pwd /\ mode' = mode /\ reading' = reading

\* Opening a slot does that.
LEMMA NewSlotOpens ==
    ASSUME FilesInv, NEW p \in FileProc, Files!Runs(p),
           NEW fd \in Files!Fd, fd_array[p][fd].status = "NONE", NEW m \in Files!Node,
           fd_array' = [fd_array EXCEPT ![p][fd] = Files!NewSlot(m)],
           UNCHANGED <<pwd, mode, reading>>
    PROVE  OpensOne(p, m)
<1>1. /\ reading[p] = NULL /\ GoodTable(fd_array[p], NULL) /\ fd_array[p] \in [Files!Fd -> Slot]
      /\ fd_array \in [FileProc -> [Files!Fd -> Slot]]
  BY OwnFacts DEF Files!Runs
<1>2. fd_array'[p] = [fd_array[p] EXCEPT ![fd] = Files!NewSlot(m)]
  BY <1>1
<1>3. /\ GoodTable([fd_array[p] EXCEPT ![fd] = Files!NewSlot(m)], NULL)
      /\ \A n \in Files!Node :
            Cardinality(Named([fd_array[p] EXCEPT ![fd] = Files!NewSlot(m)], n))
                = Cardinality(Named(fd_array[p], n)) + Files!Is(m)[n]
  BY <1>1, OpenSlotIs
<1>4. /\ GoodTable(fd_array'[p], NULL)
      /\ \A n \in Files!Node :
            Cardinality(Named(fd_array'[p], n)) = Cardinality(Named(fd_array[p], n)) + Files!Is(m)[n]
  BY <1>2, <1>3, Zenon
<1>5. OnlyOf(p)
  <2>1. Files!NewSlot(m) \in Slot
    BY DEF Files!NewSlot, Slot
  <2> QED
    BY <1>1, <2>1, OwnFacts DEF OnlyOf
<1> QED
  BY <1>4, <1>5 DEF OpensOne

\* An open slot that is counted keeps the invariant.
LEMMA OpensOneKeeps ==
    ASSUME FilesInv, NEW p \in FileProc, Files!Runs(p), NEW m \in Files!Node,
           OpensOne(p, m), Files!Count(Files!Is(m), Files!Is(m))
    PROVE  FilesInv'
<1>1. /\ p # initproc /\ pwd[initproc] # NULL /\ reading[p] = NULL /\ mode[p] = "user"
  BY OwnFacts DEF Files!Runs
<1>2. CountsFollow(p)
  <2>1. ASSUME NEW n \in Files!Node
        PROVE  /\ Files!Is(m)[n] \in Nat
               /\ Cardinality(Named(fd_array'[p], n)) = Cardinality(Named(fd_array[p], n)) + Files!Is(m)[n]
               /\ Files!Is(m)[n] + Files!Is(pwd[p])[n] = Files!Is(m)[n] + Files!Is(pwd'[p])[n]
    BY IsFacts DEF OpensOne
  <2> QED
    BY <2>1, CountingCall
<1>3. GoodOwn(p)
  BY <1>1 DEF GoodOwn, OpensOne
<1> QED
  BY <1>1, <1>2, <1>3, CallKeeps DEF OpensOne

\* open() of a file, a directory or a device
LEMMA OpenSucceedsKeeps ==
    ASSUME FilesInv, NEW p \in FileProc, NEW r \in Requests, Files!OpenSucceeds(p, r)
    PROVE  FilesInv'
<1> DEFINE fd == Files!Lowest(Files!Unused(fd_array[p]))
<1>1. Files!Runs(p) /\ r.node \in Files!Node /\ Files!Unused(fd_array[p]) # {}
  BY FileFacts DEF Files!OpenSucceeds, Files!Succeeds
<1>2. fd \in Files!Fd /\ fd_array[p][fd].status = "NONE"
  BY <1>1, LowestIsFree DEF Files!Unused
<1>3. OpensOne(p, r.node)
  <2>1. fd_array' = [fd_array EXCEPT ![p][fd] = Files!NewSlot(r.node)]
        /\ UNCHANGED <<pwd, mode, reading>>
    BY DEF Files!OpenSucceeds
  <2> HIDE DEF fd
  <2> QED
    BY <1>1, <1>2, <2>1, NewSlotOpens
<1>4. Files!Count(Files!Is(r.node), Files!Is(r.node))
  BY DEF Files!OpenSucceeds
<1> QED
  BY <1>1, <1>3, <1>4, OpensOneKeeps

\* dup()
LEMMA DupKeeps ==
    ASSUME FilesInv, NEW p \in FileProc, NEW from \in Files!Fd, NEW to \in Files!Fd,
           Files!Dup(p, from, to)
    PROVE  FilesInv'
<1> DEFINE m == fd_array[p][from].node
<1>1. Files!Runs(p) /\ fd_array[p][to].status = "NONE"
  BY DEF Files!Dup, Files!Unused
<1>2. m \in Files!Node
  <2>1. GoodTable(fd_array[p], reading[p]) /\ fd_array[p][from].status = "OPENED"
    BY OwnFacts DEF Files!Dup
  <2> QED
    BY <2>1, OpenSlots
<1>3. OpensOne(p, m)
  <2>1. fd_array' = [fd_array EXCEPT ![p][to] = Files!NewSlot(m)]
        /\ UNCHANGED <<pwd, mode, reading>>
    BY DEF Files!Dup
  <2> HIDE DEF m
  <2> QED
    BY <1>1, <1>2, <2>1, NewSlotOpens
<1>4. Files!Count(Files!Is(m), Files!Is(m))
  BY DEF Files!Dup
<1> HIDE DEF m
<1> QED
  BY <1>1, <1>2, <1>3, <1>4, OpensOneKeeps

\* An exclusive open() of what exists: a reference is lost.
LEMMA OpenExistsKeeps ==
    ASSUME FilesInv, NEW p \in FileProc, NEW r \in Requests, Files!OpenExists(p, r)
    PROVE  FilesInv'
<1>1. /\ p # initproc /\ pwd[initproc] # NULL /\ reading[p] = NULL /\ mode[p] = "user"
      /\ GoodTable(fd_array[p], NULL) /\ r.node \in Files!Node
  BY OwnFacts, FileFacts DEF Files!OpenExists, Files!Runs
<1>2. /\ ref_count' = Files!Plus(ref_count, Files!Is(r.node))
      /\ lost_refs' = Files!Plus(lost_refs, Files!Is(r.node))
      /\ lost_opens' = Files!Plus(lost_opens, Files!Nothing)
      /\ UNCHANGED <<open_count, fd_array, pwd, mode, reading>>
  BY DEF Files!OpenExists, Files!Lose
<1>3. OnlyOf(p)
  BY <1>2, OwnFacts DEF OnlyOf
<1>4. GoodOwn(p)
  BY <1>1, <1>2 DEF GoodOwn
<1>5. CountsFollow(p)
  <2>1. \A n \in Files!Node : Files!Is(r.node)[n] \in Nat /\ Files!Nothing[n] \in Nat
                              /\ Files!Nothing[n] = 0
    BY IsFacts
  <2>2. /\ ref_count \in [Files!Node -> Int] /\ open_count \in [Files!Node -> Int]
        /\ lost_refs \in [Files!Node -> Nat] /\ lost_opens \in [Files!Node -> Nat]
        /\ lost_refs \in [Files!Node -> Int] /\ lost_opens \in [Files!Node -> Int]
        /\ \A n \in Files!Node : lost_opens[n] <= lost_refs[n]
    BY OwnFacts
  <2>3. /\ ref_count' \in [Files!Node -> Int] /\ lost_refs' \in [Files!Node -> Nat]
        /\ lost_opens' \in [Files!Node -> Nat]
        /\ \A n \in Files!Node : /\ ref_count'[n] = ref_count[n] + Files!Is(r.node)[n]
                                 /\ lost_refs'[n] = lost_refs[n] + Files!Is(r.node)[n]
                                 /\ lost_opens'[n] = lost_opens[n]
    <3>1. /\ ref_count' \in [Files!Node -> Int]
          /\ \A n \in Files!Node : ref_count'[n] = ref_count[n] + Files!Is(r.node)[n]
      BY <1>2, <2>1, <2>2, Sums
    <3>2. /\ lost_refs' \in [Files!Node -> Nat]
          /\ \A n \in Files!Node : lost_refs'[n] = lost_refs[n] + Files!Is(r.node)[n]
      BY <1>2, <2>1, <2>2, Sums
    <3>3. /\ lost_opens' \in [Files!Node -> Nat]
          /\ \A n \in Files!Node : lost_opens'[n] = lost_opens[n] + Files!Nothing[n]
      BY <1>2, <2>1, <2>2, Sums
    <3> QED
      BY <2>1, <2>2, <3>1, <3>2, <3>3
  <2>4. ASSUME NEW n \in Files!Node
        PROVE  /\ lost_opens'[n] <= lost_refs'[n]
               /\ open_count'[n] - lost_opens'[n] =
                     open_count[n] - lost_opens[n]
                     - Cardinality(Named(fd_array[p], n)) + Cardinality(Named(fd_array'[p], n))
               /\ ref_count'[n] - lost_refs'[n] =
                     ref_count[n] - lost_refs[n]
                     - Cardinality(Named(fd_array[p], n)) + Cardinality(Named(fd_array'[p], n))
                     - Files!Is(pwd[p])[n] + Files!Is(pwd'[p])[n]
    <3>1. /\ Cardinality(Named(fd_array[p], n)) \in Nat /\ Files!Is(pwd[p])[n] \in Nat
          /\ Cardinality(Named(fd_array'[p], n)) = Cardinality(Named(fd_array[p], n))
          /\ Files!Is(pwd'[p])[n] = Files!Is(pwd[p])[n] /\ open_count'[n] = open_count[n]
      BY <1>2, NamedFinite, IsFacts
    <3>2. /\ lost_refs[n] \in Nat /\ lost_opens[n] \in Nat /\ ref_count[n] \in Int
          /\ open_count[n] \in Int /\ Files!Is(r.node)[n] \in Nat
      BY <2>1, <2>2
    <3> QED
      BY <2>2, <2>3, <3>1, <3>2
  <2> QED
    BY <1>2, <2>2, <2>3, <2>4 DEF CountsFollow
<1> QED
  BY <1>1, <1>3, <1>4, <1>5, CallKeeps

\* close()
LEMMA CloseKeeps ==
    ASSUME FilesInv, NEW p \in FileProc, NEW fd \in Files!Fd, Files!Close(p, fd)
    PROVE  FilesInv'
<1>1. /\ p # initproc /\ pwd[initproc] # NULL /\ reading[p] = NULL /\ mode[p] = "user"
      /\ GoodTable(fd_array[p], NULL)
  BY OwnFacts DEF Files!Close, Files!Runs
<1>2. /\ fd_array' = [fd_array EXCEPT ![p] = Files!CloseSlots(fd_array[p], {fd})]
      /\ pwd' = pwd /\ mode' = mode /\ reading' = reading
  BY DEF Files!Close
<1>3. Files!Uncount(Files!Opens(fd_array[p], {fd}), Files!Opens(fd_array[p], {fd}))
  BY DEF Files!Close
<1>4. fd_array'[p] = Files!CloseSlots(fd_array[p], {fd})
  BY <1>2, OwnFacts
<1>5. /\ GoodTable(Files!CloseSlots(fd_array[p], {fd}), NULL)
      /\ \A n \in Files!Node :
            Cardinality(Named(fd_array[p], n)) =
                Cardinality(Named(Files!CloseSlots(fd_array[p], {fd}), n))
                + Files!Opens(fd_array[p], {fd})[n]
  BY <1>1, CloseSlotsIs
<1>6. OnlyOf(p)
  BY <1>2, <1>5, OwnFacts DEF OnlyOf, GoodTable
<1>7. GoodOwn(p)
  <2>1. GoodTable(fd_array'[p], NULL)
    BY <1>4, <1>5, Zenon
  <2>2. reading'[p] = NULL /\ mode'[p] # "none"
    BY <1>1, <1>2
  <2> QED
    BY <2>1, <2>2 DEF GoodOwn
<1>8. CountsFollow(p)
  <2>1. ASSUME NEW n \in Files!Node
        PROVE  /\ Files!Opens(fd_array[p], {fd})[n] \in Nat
               /\ Cardinality(Named(fd_array[p], n)) =
                     Cardinality(Named(fd_array'[p], n)) + Files!Opens(fd_array[p], {fd})[n]
               /\ Files!Opens(fd_array[p], {fd})[n] + Files!Is(pwd'[p])[n]
                     = Files!Opens(fd_array[p], {fd})[n] + Files!Is(pwd[p])[n]
    <3>1. Files!Opens(fd_array[p], {fd})[n] \in Nat
      BY <1>1, OpensParts
    <3>2. Cardinality(Named(fd_array[p], n)) =
             Cardinality(Named(fd_array'[p], n)) + Files!Opens(fd_array[p], {fd})[n]
      BY <1>4, <1>5, Zenon
    <3>3. pwd'[p] = pwd[p]
      BY <1>2
    <3> QED
      BY <3>1, <3>2, <3>3
  <2> QED
    BY <1>3, <2>1, UncountingCall
<1> QED
  BY <1>1, <1>6, <1>7, <1>8, CallKeeps

\* fork()
LEMMA ForkKeeps ==
    ASSUME FilesInv, NEW p \in FileProc, NEW c \in FileProc, Files!Fork(p, c)
    PROVE  FilesInv'
<1>1. /\ pwd[initproc] # NULL /\ GoodTable(fd_array[p], NULL) /\ mode[c] = "none"
      /\ pwd[p] \in Files!Node \cup {NULL}
  BY OwnFacts DEF Files!Fork, Files!Runs
<1>2. c # initproc /\ fd_array[c] = Files!Empty /\ pwd[c] = NULL /\ reading[c] = NULL
  BY <1>1 DEF FilesInv, TablesExact, InitExact
<1>3. /\ fd_array' = [fd_array EXCEPT ![c] = Files!DupFiles(fd_array[p])]
      /\ pwd' = [pwd EXCEPT ![c] = pwd[p]] /\ mode' = [mode EXCEPT ![c] = "user"]
      /\ reading' = reading
  BY DEF Files!Fork
<1>4. Files!Count(Files!Holds(p, fd_array[p]), Files!Opens(fd_array[p], Files!Fd))
  BY DEF Files!Fork
<1>5. fd_array'[c] = Files!DupFiles(fd_array[p]) /\ pwd'[c] = pwd[p] /\ mode'[c] = "user"
  BY <1>3, OwnFacts
<1>6. /\ GoodTable(Files!DupFiles(fd_array[p]), NULL)
      /\ \A n \in Files!Node : Named(Files!DupFiles(fd_array[p]), n) = Named(fd_array[p], n)
  BY <1>1, DupFilesIs
<1>7. OnlyOf(c)
  BY <1>1, <1>3, <1>6, OwnFacts DEF OnlyOf, GoodTable
<1>8. GoodOwn(c)
  <2>1. GoodTable(fd_array'[c], NULL)
    BY <1>5, <1>6, Zenon
  <2>2. reading'[c] = NULL
    BY <1>2, <1>3
  <2> QED
    BY <1>5, <2>1, <2>2 DEF GoodOwn
<1>9. CountsFollow(c)
  <2>1. ASSUME NEW n \in Files!Node
        PROVE  /\ Files!Holds(p, fd_array[p])[n] \in Nat /\ Files!Opens(fd_array[p], Files!Fd)[n] \in Nat
               /\ Cardinality(Named(fd_array'[c], n)) = Cardinality(Named(fd_array[c], n))
                                                        + Files!Opens(fd_array[p], Files!Fd)[n]
               /\ Files!Holds(p, fd_array[p])[n] + Files!Is(pwd[c])[n]
                     = Files!Opens(fd_array[p], Files!Fd)[n] + Files!Is(pwd'[c])[n]
    <3>1. /\ Files!Opens(fd_array[p], Files!Fd)[n] \in Nat
          /\ Files!Opens(fd_array[p], Files!Fd)[n] = Cardinality(Named(fd_array[p], n))
      BY <1>1, OpensParts
    <3>2. /\ Files!Is(pwd[p])[n] \in Nat
          /\ Files!Holds(p, fd_array[p])[n] = Files!Opens(fd_array[p], Files!Fd)[n] + Files!Is(pwd[p])[n]
      BY <3>1, IsFacts DEF Files!Holds, Files!Plus
    <3>3. Named(fd_array'[c], n) = Named(fd_array[p], n)
      BY <1>5, <1>6, Zenon
    <3>4. Cardinality(Named(fd_array[c], n)) = 0
      BY <1>2, EmptyTable, Zenon
    <3>5. Files!Is(pwd[c])[n] = 0
      BY <1>2, IsFacts, FileFacts
    <3>6. Files!Is(pwd'[c])[n] = Files!Is(pwd[p])[n]
      BY <1>5, Zenon
    <3> QED
      BY <3>1, <3>2, <3>3, <3>4, <3>5, <3>6
  <2> QED
    BY <1>4, <2>1, CountingCall
<1> QED
  BY <1>1, <1>2, <1>7, <1>8, <1>9, CallKeeps

\* put_files of a table that holds what that of p does.
LEMMA PutFilesKeeps ==
    ASSUME FilesInv, NEW p \in FileProc, p # initproc, pwd[initproc] # NULL,
           NEW t, GoodTable(t, NULL), \A n \in Files!Node : Named(t, n) = Named(fd_array[p], n),
           Files!PutFiles(p, t), Files!Gone(p)
    PROVE  FilesInv'
<1>1. /\ fd_array' = [fd_array EXCEPT ![p] = Files!CloseSlots(t, Files!Fd)]
      /\ pwd' = [pwd EXCEPT ![p] = NULL] /\ mode' = [mode EXCEPT ![p] = "none"]
      /\ reading' = [reading EXCEPT ![p] = NULL]
  BY DEF Files!PutFiles, Files!Gone
<1>2. Files!CloseSlots(t, Files!Fd) = Files!Empty
  BY CloseSlotsIs
<1>3. fd_array'[p] = Files!Empty /\ pwd'[p] = NULL /\ mode'[p] = "none" /\ reading'[p] = NULL
  BY <1>1, <1>2, OwnFacts
<1>4. OnlyOf(p)
  <2>1. Files!Empty \in [Files!Fd -> Slot]
    BY EmptyTable DEF GoodTable
  <2> QED
    BY <1>1, <1>2, <2>1, OwnFacts DEF OnlyOf
<1>5. GoodOwn(p)
  BY <1>3, EmptyTable DEF GoodOwn
<1>6. CountsFollow(p)
  <2> DEFINE o == Files!Opens(t, Files!Fd)
             r == Files!Plus(o, Files!Is(pwd[p]))
  <2>1. Files!Uncount(r, o)
    BY FreesIs DEF Files!PutFiles
  <2>2. ASSUME NEW n \in Files!Node
        PROVE  /\ r[n] \in Nat /\ o[n] \in Nat
               /\ Cardinality(Named(fd_array[p], n)) = Cardinality(Named(fd_array'[p], n)) + o[n]
               /\ r[n] + Files!Is(pwd'[p])[n] = o[n] + Files!Is(pwd[p])[n]
    <3>1. o[n] \in Nat /\ o[n] = Cardinality(Named(t, n))
      BY OpensParts
    <3>2. Files!Is(pwd[p])[n] \in Nat /\ r[n] = o[n] + Files!Is(pwd[p])[n]
      BY <3>1, IsFacts DEF Files!Plus
    <3>3. Named(t, n) = Named(fd_array[p], n)
      OBVIOUS
    <3>4. Cardinality(Named(fd_array'[p], n)) = 0
      BY <1>3, EmptyTable, Zenon
    <3>5. Files!Is(pwd'[p])[n] = 0
      BY <1>3, IsFacts, FileFacts
    <3> HIDE DEF o, r
    <3> QED
      BY <3>1, <3>2, <3>3, <3>4, <3>5
  <2> HIDE DEF o, r
  <2> QED
    BY <2>1, <2>2, UncountingCall
<1> QED
  BY <1>4, <1>5, <1>6, CallKeeps

\* A process whose table is forgotten: of what it had, c was given back and o
\* is lost, with the w it had just opened.
Forgets(p, c, o, w) ==
    /\ fd_array' = [fd_array EXCEPT ![p] = Files!Empty]
    /\ pwd' = [pwd EXCEPT ![p] = NULL]
    /\ ref_count' \in [Files!Node -> Int] /\ open_count' \in [Files!Node -> Int]
    /\ lost_refs' \in [Files!Node -> Nat] /\ lost_opens' \in [Files!Node -> Nat]
    /\ \A n \in Files!Node :
          /\ c[n] \in Nat /\ o[n] \in Nat /\ w[n] \in Nat
          /\ Cardinality(Named(fd_array[p], n)) = o[n] + c[n]
          /\ ref_count'[n] = (ref_count[n] - c[n]) + w[n]
          /\ open_count'[n] = (open_count[n] - c[n]) + w[n]
          /\ lost_refs'[n] = lost_refs[n] + ((o[n] + Files!Is(pwd[p])[n]) + w[n])
          /\ lost_opens'[n] = lost_opens[n] + (o[n] + w[n])

\* It keeps the invariant.
LEMMA ForgottenKeeps ==
    ASSUME FilesInv, NEW p \in FileProc, p # initproc, pwd[initproc] # NULL,
           Files!Gone(p), NEW c, NEW o, NEW w, Forgets(p, c, o, w)
    PROVE  FilesInv'
<1>1. fd_array'[p] = Files!Empty /\ pwd'[p] = NULL /\ mode'[p] = "none" /\ reading'[p] = NULL
  BY OwnFacts DEF Files!Gone, Forgets
<1>2. OnlyOf(p)
  <2>1. Files!Empty \in [Files!Fd -> Slot]
    BY EmptyTable DEF GoodTable
  <2> QED
    BY <2>1, OwnFacts DEF OnlyOf, Files!Gone, Forgets
<1>3. GoodOwn(p)
  BY <1>1, EmptyTable DEF GoodOwn
<1>4. ASSUME NEW n \in Files!Node
      PROVE  /\ lost_opens'[n] <= lost_refs'[n]
             /\ open_count'[n] - lost_opens'[n] =
                   open_count[n] - lost_opens[n]
                   - Cardinality(Named(fd_array[p], n)) + Cardinality(Named(fd_array'[p], n))
             /\ ref_count'[n] - lost_refs'[n] =
                   ref_count[n] - lost_refs[n]
                   - Cardinality(Named(fd_array[p], n)) + Cardinality(Named(fd_array'[p], n))
                   - Files!Is(pwd[p])[n] + Files!Is(pwd'[p])[n]
  <2>1. /\ lost_refs[n] \in Nat /\ lost_opens[n] \in Nat /\ ref_count[n] \in Int
        /\ open_count[n] \in Int /\ lost_opens[n] <= lost_refs[n]
    BY OwnFacts
  <2>2. Cardinality(Named(fd_array'[p], n)) = 0
    BY <1>1, EmptyTable, Zenon
  <2>3. Files!Is(pwd'[p])[n] = 0
    BY <1>1, IsFacts, FileFacts
  <2>4. Files!Is(pwd[p])[n] \in Nat
    BY IsFacts
  <2>5. /\ c[n] \in Nat /\ o[n] \in Nat /\ w[n] \in Nat
        /\ Cardinality(Named(fd_array[p], n)) = o[n] + c[n]
        /\ ref_count'[n] = (ref_count[n] - c[n]) + w[n]
        /\ open_count'[n] = (open_count[n] - c[n]) + w[n]
        /\ lost_refs'[n] = lost_refs[n] + ((o[n] + Files!Is(pwd[p])[n]) + w[n])
        /\ lost_opens'[n] = lost_opens[n] + (o[n] + w[n])
    BY DEF Forgets
  <2> QED
    BY <2>1, <2>2, <2>3, <2>4, <2>5
<1>5. CountsFollow(p)
  BY <1>4 DEF CountsFollow, Forgets
<1> QED
  BY <1>2, <1>3, <1>5, CallKeeps

\* What exec has closed, and kept, of the table of p.
LEMMA KeptIs ==
    ASSUME FilesInv, NEW p \in FileProc, Files!Execs(p)
    PROVE  /\ GoodTable(Files!Kept(p), NULL)
           /\ \A n \in Files!Node :
                 /\ Files!Opened(p)[n] \in Nat /\ Files!Opens(Files!Kept(p), Files!Fd)[n] \in Nat
                 /\ Cardinality(Named(Files!Kept(p), n)) = Files!Opens(Files!Kept(p), Files!Fd)[n]
                 /\ Cardinality(Named(fd_array[p], n)) =
                       Cardinality(Named(Files!Kept(p), n)) + Files!Opened(p)[n]
<1>1. GoodTable(fd_array[p], NULL)
  BY OwnFacts
<1>2. Files!AboveStdout \in SUBSET Files!Fd
  BY DEF Files!AboveStdout
<1>3. /\ GoodTable(Files!Kept(p), NULL)
      /\ \A n \in Files!Node :
            Cardinality(Named(fd_array[p], n)) =
                Cardinality(Named(Files!Kept(p), n)) + Files!Opened(p)[n]
  BY <1>1, <1>2, CloseSlotsIs DEF Files!Kept, Files!Opened
<1>4. \A n \in Files!Node : Files!Opened(p)[n] \in Nat
  BY <1>1, <1>2, OpensParts DEF Files!Opened
<1>5. \A n \in Files!Node :
         /\ Files!Opens(Files!Kept(p), Files!Fd)[n] \in Nat
         /\ Files!Opens(Files!Kept(p), Files!Fd)[n] = Cardinality(Named(Files!Kept(p), n))
  BY <1>3, OpensParts
<1> QED
  BY <1>3, <1>4, <1>5

\* exec() of a program
LEMMA ExecKeeps ==
    ASSUME FilesInv, NEW p \in FileProc, NEW m \in Files!Node, Files!Exec(p, m)
    PROVE  FilesInv'
<1>1. /\ Files!Execs(p) /\ p # initproc /\ pwd[initproc] # NULL /\ reading[p] = NULL
  BY OwnFacts DEF Files!Exec
<1>2. /\ fd_array' = [fd_array EXCEPT ![p] = Files!Kept(p)]
      /\ mode' = [mode EXCEPT ![p] = "user"] /\ pwd' = pwd /\ reading' = reading
  BY DEF Files!Exec
<1>3. fd_array'[p] = Files!Kept(p) /\ mode'[p] = "user"
  BY <1>2, OwnFacts
<1>4. GoodTable(Files!Kept(p), NULL)
  BY <1>1, KeptIs
<1>5. OnlyOf(p)
  BY <1>2, <1>4, OwnFacts DEF OnlyOf, GoodTable
<1>6. GoodOwn(p)
  <2>1. GoodTable(fd_array'[p], NULL)
    BY <1>3, <1>4, Zenon
  <2> QED
    BY <1>1, <1>2, <1>3, <2>1 DEF GoodOwn
<1>7. CountsFollow(p)
  <2>1. ASSUME NEW n \in Files!Node
        PROVE  /\ Files!Opened(p)[n] \in Nat
               /\ Cardinality(Named(fd_array[p], n)) =
                     Cardinality(Named(fd_array'[p], n)) + Files!Opened(p)[n]
               /\ Files!Opened(p)[n] + Files!Is(pwd'[p])[n]
                     = Files!Opened(p)[n] + Files!Is(pwd[p])[n]
    <3>1. Files!Opened(p)[n] \in Nat
      BY <1>1, KeptIs
    <3>2. Named(fd_array'[p], n) = Named(Files!Kept(p), n)
      BY <1>3, Zenon
    <3>3. Cardinality(Named(fd_array[p], n)) =
             Cardinality(Named(Files!Kept(p), n)) + Files!Opened(p)[n]
      BY <1>1, KeptIs
    <3>4. pwd'[p] = pwd[p]
      BY <1>2
    <3>5. Cardinality(Named(fd_array[p], n)) =
             Cardinality(Named(fd_array'[p], n)) + Files!Opened(p)[n]
      BY <3>2, <3>3, Zenon
    <3> QED
      BY <3>1, <3>4, <3>5
  <2>2. Files!Uncount(Files!Opened(p), Files!Opened(p))
    BY DEF Files!Exec
  <2> QED
    BY <2>1, <2>2, UncountingCall
<1> QED
  BY <1>1, <1>5, <1>6, <1>7, CallKeeps

\* exec() of what cannot be opened
LEMMA ExecNotFoundKeeps ==
    ASSUME FilesInv, NEW p \in FileProc, Files!ExecNotFound(p)
    PROVE  FilesInv'
<1>1. /\ Files!Execs(p) /\ p # initproc /\ pwd[initproc] # NULL /\ reading[p] = NULL
      /\ GoodTable(fd_array[p], NULL) /\ Files!Gone(p)
  BY OwnFacts DEF Files!ExecNotFound
<1>2. ASSUME mode[p] = "user" PROVE FilesInv'
  <2>1. Files!PutFiles(p, fd_array[p])
    BY <1>2 DEF Files!ExecNotFound
  <2> QED
    BY <1>1, <2>1, PutFilesKeeps
<1>3. ASSUME mode[p] # "user" PROVE FilesInv'
  <2>1. /\ lost_refs' = Files!Plus(lost_refs, Files!Holds(p, fd_array[p]))
        /\ lost_opens' = Files!Plus(lost_opens, Files!Opens(fd_array[p], Files!Fd))
        /\ fd_array' = [fd_array EXCEPT ![p] = Files!Empty]
        /\ pwd' = [pwd EXCEPT ![p] = NULL]
        /\ ref_count' = ref_count /\ open_count' = open_count
    BY <1>3 DEF Files!ExecNotFound, Files!Lose
  <2> DEFINE o == Files!Opens(fd_array[p], Files!Fd)
             h == Files!Holds(p, fd_array[p])
  <2>2. ASSUME NEW n \in Files!Node
        PROVE  /\ o[n] \in Nat /\ h[n] \in Nat /\ h[n] = o[n] + Files!Is(pwd[p])[n]
               /\ Cardinality(Named(fd_array[p], n)) = o[n]
               /\ Files!Nothing[n] = 0 /\ Files!Is(pwd[p])[n] \in Nat
    <3>1. o[n] \in Nat /\ o[n] = Cardinality(Named(fd_array[p], n))
      BY <1>1, OpensParts
    <3>2. Files!Is(pwd[p])[n] \in Nat /\ Files!Nothing[n] = 0
      BY IsFacts
    <3>3. h[n] = o[n] + Files!Is(pwd[p])[n]
      BY DEF Files!Holds, Files!Plus
    <3> HIDE DEF o, h
    <3> QED
      BY <3>1, <3>2, <3>3
  <2>3. /\ lost_refs' = Files!Plus(lost_refs, h) /\ lost_opens' = Files!Plus(lost_opens, o)
    BY <2>1
  <2> HIDE DEF o, h
  <2>4. /\ lost_refs' \in [Files!Node -> Nat]
        /\ \A n \in Files!Node : lost_refs'[n] = lost_refs[n] + h[n]
    <3>1. lost_refs \in [Files!Node -> Nat] /\ lost_refs \in [Files!Node -> Int]
      BY OwnFacts
    <3> QED
      BY <2>2, <2>3, <3>1, Sums
  <2>5. /\ lost_opens' \in [Files!Node -> Nat]
        /\ \A n \in Files!Node : lost_opens'[n] = lost_opens[n] + o[n]
    <3>1. lost_opens \in [Files!Node -> Nat] /\ lost_opens \in [Files!Node -> Int]
      BY OwnFacts
    <3> QED
      BY <2>2, <2>3, <3>1, Sums
  <2>6. /\ ref_count' \in [Files!Node -> Int] /\ open_count' \in [Files!Node -> Int]
    BY <2>1, OwnFacts
  <2>7. ASSUME NEW n \in Files!Node
        PROVE  /\ Files!Nothing[n] \in Nat /\ o[n] \in Nat
               /\ Cardinality(Named(fd_array[p], n)) = o[n] + Files!Nothing[n]
               /\ ref_count'[n] = (ref_count[n] - Files!Nothing[n]) + Files!Nothing[n]
               /\ open_count'[n] = (open_count[n] - Files!Nothing[n]) + Files!Nothing[n]
               /\ lost_refs'[n] = lost_refs[n] + ((o[n] + Files!Is(pwd[p])[n]) + Files!Nothing[n])
               /\ lost_opens'[n] = lost_opens[n] + (o[n] + Files!Nothing[n])
    <3>1. ref_count[n] \in Int /\ open_count[n] \in Int
          /\ ref_count'[n] = ref_count[n] /\ open_count'[n] = open_count[n]
      BY <2>1, OwnFacts
    <3>2. lost_refs'[n] = lost_refs[n] + h[n] /\ lost_opens'[n] = lost_opens[n] + o[n]
      BY <2>4, <2>5
    <3> QED
      BY <2>2, <3>1, <3>2
  <2>8. fd_array' = [fd_array EXCEPT ![p] = Files!Empty] /\ pwd' = [pwd EXCEPT ![p] = NULL]
    BY <2>1
  <2>9. Forgets(p, Files!Nothing, o, Files!Nothing)
    BY <2>4, <2>5, <2>6, <2>7, <2>8 DEF Forgets
  <2> QED
    BY <1>1, <2>9, ForgottenKeeps
<1> QED
  BY <1>2, <1>3

\* exec() that fails after it has let go of the address space
LEMMA ExecFailsKeeps ==
    ASSUME FilesInv, NEW p \in FileProc, NEW m \in Files!Node, NEW closed \in BOOLEAN,
           Files!ExecFails(p, m, closed)
    PROVE  FilesInv'
<1> DEFINE w == IF closed THEN Files!Nothing ELSE Files!Is(m)
           c == Files!Opened(p)
           o == Files!Opens(Files!Kept(p), Files!Fd)
           h == Files!Holds(p, Files!Kept(p))
<1>1. /\ Files!Execs(p) /\ p # initproc /\ pwd[initproc] # NULL /\ Files!Gone(p)
  BY OwnFacts DEF Files!ExecFails
<1>2. /\ ref_count' = Files!Plus(Files!Minus(ref_count, c), w)
      /\ open_count' = Files!Plus(Files!Minus(open_count, c), w)
      /\ lost_refs' = Files!Plus(lost_refs, Files!Plus(h, w))
      /\ lost_opens' = Files!Plus(lost_opens, Files!Plus(o, w))
  BY DEF Files!ExecFails, Files!Lose
<1>3. /\ fd_array' = [fd_array EXCEPT ![p] = Files!Empty]
      /\ pwd' = [pwd EXCEPT ![p] = NULL]
  BY DEF Files!ExecFails
<1>4. ASSUME NEW n \in Files!Node
      PROVE  /\ c[n] \in Nat /\ o[n] \in Nat /\ w[n] \in Nat /\ h[n] \in Nat
             /\ Cardinality(Named(fd_array[p], n)) = o[n] + c[n]
             /\ h[n] = o[n] + Files!Is(pwd[p])[n]
             /\ Files!Is(pwd[p])[n] \in Nat
             /\ Files!Plus(h, w)[n] = h[n] + w[n] /\ Files!Plus(o, w)[n] = o[n] + w[n]
  <2>1. /\ c[n] \in Nat /\ o[n] \in Nat
        /\ Cardinality(Named(Files!Kept(p), n)) = o[n]
        /\ Cardinality(Named(fd_array[p], n)) = Cardinality(Named(Files!Kept(p), n)) + c[n]
    BY <1>1, KeptIs
  <2>2. w[n] \in Nat
    <3>1. Files!Nothing[n] = 0 /\ Files!Is(m)[n] \in Nat
      BY IsFacts
    <3> QED
      BY <3>1
  <2>3. Files!Is(pwd[p])[n] \in Nat
    BY IsFacts
  <2>4. h[n] = o[n] + Files!Is(pwd[p])[n]
    BY DEF Files!Holds, Files!Plus
  <2>5. Files!Plus(h, w)[n] = h[n] + w[n] /\ Files!Plus(o, w)[n] = o[n] + w[n]
    <3> HIDE DEF h, o, w
    <3> QED
      BY DEF Files!Plus
  <2> HIDE DEF w, c, o, h
  <2> QED
    BY <2>1, <2>2, <2>3, <2>4, <2>5
<1> HIDE DEF w, c, o, h
<1>5. /\ lost_refs' \in [Files!Node -> Nat]
      /\ \A n \in Files!Node : lost_refs'[n] = lost_refs[n] + (h[n] + w[n])
  <2>1. lost_refs \in [Files!Node -> Nat] /\ lost_refs \in [Files!Node -> Int]
    BY OwnFacts
  <2>2. \A n \in Files!Node : Files!Plus(h, w)[n] \in Nat
    BY <1>4
  <2>3. /\ lost_refs' \in [Files!Node -> Nat]
        /\ \A n \in Files!Node : lost_refs'[n] = lost_refs[n] + Files!Plus(h, w)[n]
    BY <1>2, <2>1, <2>2, Sums
  <2> QED
    BY <1>4, <2>3
<1>6. /\ lost_opens' \in [Files!Node -> Nat]
      /\ \A n \in Files!Node : lost_opens'[n] = lost_opens[n] + (o[n] + w[n])
  <2>1. lost_opens \in [Files!Node -> Nat] /\ lost_opens \in [Files!Node -> Int]
    BY OwnFacts
  <2>2. \A n \in Files!Node : Files!Plus(o, w)[n] \in Nat
    BY <1>4
  <2>3. /\ lost_opens' \in [Files!Node -> Nat]
        /\ \A n \in Files!Node : lost_opens'[n] = lost_opens[n] + Files!Plus(o, w)[n]
    BY <1>2, <2>1, <2>2, Sums
  <2> QED
    BY <1>4, <2>3
<1>7. ASSUME NEW f \in [Files!Node -> Int]
      PROVE  /\ Files!Plus(Files!Minus(f, c), w) \in [Files!Node -> Int]
             /\ \A n \in Files!Node : Files!Plus(Files!Minus(f, c), w)[n] = (f[n] - c[n]) + w[n]
  <2>1. /\ Files!Minus(f, c) \in [Files!Node -> Int]
        /\ \A n \in Files!Node : Files!Minus(f, c)[n] = f[n] - c[n]
    BY <1>4, Sums
  <2>2. /\ Files!Plus(Files!Minus(f, c), w) \in [Files!Node -> Int]
        /\ \A n \in Files!Node : Files!Plus(Files!Minus(f, c), w)[n] = Files!Minus(f, c)[n] + w[n]
    BY <1>4, <2>1, Sums
  <2> QED
    BY <2>1, <2>2
<1>8. /\ ref_count' \in [Files!Node -> Int] /\ open_count' \in [Files!Node -> Int]
      /\ \A n \in Files!Node : /\ ref_count'[n] = (ref_count[n] - c[n]) + w[n]
                               /\ open_count'[n] = (open_count[n] - c[n]) + w[n]
  <2>1. ref_count \in [Files!Node -> Int] /\ open_count \in [Files!Node -> Int]
    BY OwnFacts
  <2> QED
    BY <1>2, <1>7, <2>1
<1>9. \A n \in Files!Node :
         /\ lost_refs'[n] = lost_refs[n] + ((o[n] + Files!Is(pwd[p])[n]) + w[n])
         /\ lost_opens'[n] = lost_opens[n] + (o[n] + w[n])
  BY <1>4, <1>5, <1>6
<1>10. Forgets(p, c, o, w)
  BY <1>3, <1>4, <1>5, <1>6, <1>8, <1>9 DEF Forgets
<1> QED
  BY <1>1, <1>10, ForgottenKeeps

\* A call in progress on slot fd: acquired, and released.
LEMMA AcquireIs ==
    ASSUME NEW t, GoodTable(t, NULL), NEW fd \in Files!Fd, t[fd].status = "OPENED"
    PROVE  /\ GoodTable([t EXCEPT ![fd].open_count = @ + 1], fd)
           /\ [t EXCEPT ![fd].open_count = @ + 1][fd].status = "OPENED"
           /\ \A n \in Files!Node : Named([t EXCEPT ![fd].open_count = @ + 1], n) = Named(t, n)
<1> DEFINE u == [t EXCEPT ![fd].open_count = @ + 1]
<1>0. /\ t \in [Files!Fd -> Slot] /\ t[fd] \in Slot /\ t[fd].open_count = 1
      /\ t[fd].node \in Files!Node
  <2>1. t \in [Files!Fd -> Slot] /\ t[fd] \in Slot
    BY DEF GoodTable
  <2>2. t[fd] # Files!FreeSlot
    BY OpenSlots
  <2>3. NULL # fd
    BY FileFacts
  <2> QED
    BY <2>1, <2>2, <2>3 DEF GoodTable
<1>1. /\ u[fd] \in Slot /\ u[fd].status = "OPENED" /\ u[fd].node = t[fd].node
      /\ u[fd].open_count = 2
  BY <1>0 DEF Slot
<1>2. /\ u \in [Files!Fd -> Slot]
      /\ \A e \in Files!Fd : e # fd => u[e] = t[e]
  BY <1>0, <1>1 DEF Slot
<1> HIDE DEF u
<1>3. ASSUME NEW e \in Files!Fd
      PROVE  \/ u[e] = Files!FreeSlot
             \/ /\ u[e].status = "OPENED" /\ u[e].node \in Files!Node
                /\ u[e].open_count = IF fd = e THEN 2 ELSE 1
  <2>1. CASE e = fd
    BY <2>1, <1>0, <1>1
  <2>2. CASE e # fd
    BY <2>2, <1>2, FileFacts DEF GoodTable
  <2> QED
    BY <2>1, <2>2
<1>4. GoodTable(u, fd)
  BY <1>2, <1>3 DEF GoodTable
<1>5. \A e \in Files!Fd : u[e].node = t[e].node
  BY <1>1, <1>2
<1>6. \A n \in Files!Node : Named(u, n) = Named(t, n)
  BY <1>5 DEF Named
<1> QED
  BY <1>1, <1>4, <1>6 DEF u

\* ... and released.
LEMMA ReleaseIs ==
    ASSUME NEW fd \in Files!Fd, NEW t, GoodTable(t, fd), t[fd].status = "OPENED"
    PROVE  /\ GoodTable([t EXCEPT ![fd].open_count = @ - 1], NULL)
           /\ \A n \in Files!Node : Named([t EXCEPT ![fd].open_count = @ - 1], n) = Named(t, n)
<1> DEFINE u == [t EXCEPT ![fd].open_count = @ - 1]
<1>0. /\ t \in [Files!Fd -> Slot] /\ t[fd] \in Slot /\ t[fd].open_count = 2
      /\ t[fd].node \in Files!Node
  BY OpenSlots DEF GoodTable
<1>1. /\ u[fd] \in Slot /\ u[fd].status = "OPENED" /\ u[fd].node = t[fd].node
      /\ u[fd].open_count = 1
  BY <1>0 DEF Slot
<1>2. /\ u \in [Files!Fd -> Slot]
      /\ \A e \in Files!Fd : e # fd => u[e] = t[e]
  BY <1>0, <1>1 DEF Slot
<1> HIDE DEF u
<1>3. ASSUME NEW e \in Files!Fd
      PROVE  \/ u[e] = Files!FreeSlot
             \/ /\ u[e].status = "OPENED" /\ u[e].node \in Files!Node
                /\ u[e].open_count = 1
  <2>1. CASE e = fd
    BY <2>1, <1>0, <1>1
  <2>2. CASE e # fd
    BY <2>2, <1>2 DEF GoodTable
  <2> QED
    BY <2>1, <2>2
<1>4. GoodTable(u, NULL)
  BY <1>2, <1>3, FileFacts DEF GoodTable
<1>5. \A e \in Files!Fd : u[e].node = t[e].node
  BY <1>1, <1>2
<1>6. \A n \in Files!Node : Named(u, n) = Named(t, n)
  BY <1>5 DEF Named
<1> QED
  BY <1>4, <1>6 DEF u

\* A call that leaves all counts, and what the slots of p name, as they are.
LEMMA UncountedCall ==
    ASSUME FilesInv, NEW p \in FileProc,
           UNCHANGED <<pwd, ref_count, open_count, lost_refs, lost_opens>>,
           \A n \in Files!Node : Named(fd_array'[p], n) = Named(fd_array[p], n)
    PROVE  CountsFollow(p)
<1>1. /\ ref_count \in [Files!Node -> Int] /\ open_count \in [Files!Node -> Int]
      /\ lost_refs \in [Files!Node -> Nat] /\ lost_opens \in [Files!Node -> Nat]
      /\ \A n \in Files!Node : lost_opens[n] <= lost_refs[n]
  BY OwnFacts
<1>2. ASSUME NEW n \in Files!Node
      PROVE  /\ open_count'[n] - lost_opens'[n] =
                   open_count[n] - lost_opens[n]
                   - Cardinality(Named(fd_array[p], n)) + Cardinality(Named(fd_array'[p], n))
             /\ ref_count'[n] - lost_refs'[n] =
                   ref_count[n] - lost_refs[n]
                   - Cardinality(Named(fd_array[p], n)) + Cardinality(Named(fd_array'[p], n))
                   - Files!Is(pwd[p])[n] + Files!Is(pwd'[p])[n]
  <2>1. /\ Cardinality(Named(fd_array'[p], n)) = Cardinality(Named(fd_array[p], n))
        /\ Cardinality(Named(fd_array[p], n)) \in Nat
    BY NamedFinite
  <2>2. Files!Is(pwd'[p])[n] = Files!Is(pwd[p])[n] /\ Files!Is(pwd[p])[n] \in Nat
    BY IsFacts
  <2>3. /\ ref_count[n] \in Int /\ open_count[n] \in Int /\ lost_refs[n] \in Nat
        /\ lost_opens[n] \in Nat
    BY <1>1
  <2> QED
    BY <2>1, <2>2, <2>3
<1> QED
  BY <1>1, <1>2 DEF CountsFollow

\* read() of the keyboard, until it has to wait
LEMMA ReadBlocksKeeps ==
    ASSUME FilesInv, NEW p \in FileProc, NEW fd \in Files!Fd, Files!ReadBlocks(p, fd)
    PROVE  FilesInv'
<1> DEFINE u == [fd_array[p] EXCEPT ![fd].open_count = @ + 1]
<1>1. /\ p # initproc /\ pwd[initproc] # NULL /\ mode[p] = "user"
      /\ GoodTable(fd_array[p], NULL) /\ fd_array[p][fd].status = "OPENED"
  BY OwnFacts DEF Files!ReadBlocks, Files!Runs
<1>2. /\ fd_array' = [fd_array EXCEPT ![p] = u]
      /\ reading' = [reading EXCEPT ![p] = fd]
      /\ pwd' = pwd /\ mode' = mode
      /\ UNCHANGED <<pwd, ref_count, open_count, lost_refs, lost_opens>>
  BY DEF Files!ReadBlocks, Files!counts
<1>3. /\ GoodTable(u, fd) /\ u[fd].status = "OPENED"
      /\ \A n \in Files!Node : Named(u, n) = Named(fd_array[p], n)
  BY <1>1, AcquireIs
<1> HIDE DEF u
<1>4. fd_array'[p] = u /\ reading'[p] = fd
  BY <1>2, OwnFacts
<1>5. OnlyOf(p)
  BY <1>2, <1>3, OwnFacts DEF OnlyOf, GoodTable
<1>6. GoodOwn(p)
  BY <1>1, <1>2, <1>3, <1>4 DEF GoodOwn
<1>7. CountsFollow(p)
  <2>1. \A n \in Files!Node : Named(fd_array'[p], n) = Named(fd_array[p], n)
    BY <1>3, <1>4, Zenon
  <2> QED
    BY <1>2, <2>1, UncountedCall
<1> QED
  BY <1>1, <1>5, <1>6, <1>7, CallKeeps

\* The table of a reader when the read ends.
LEMMA ReleasedIs ==
    ASSUME FilesInv, NEW p \in FileProc, reading[p] # NULL
    PROVE  /\ p # initproc /\ pwd[initproc] # NULL /\ mode[p] = "user"
           /\ GoodTable(Files!Released(p), NULL)
           /\ \A n \in Files!Node : Named(Files!Released(p), n) = Named(fd_array[p], n)
<1>1. /\ reading[p] \in Files!Fd /\ GoodTable(fd_array[p], reading[p]) /\ mode[p] = "user"
      /\ fd_array[p][reading[p]].status = "OPENED" /\ p # initproc /\ pwd[initproc] # NULL
  BY OwnFacts
<1> QED
  BY <1>1, ReleaseIs DEF Files!Released

\* The read returns.
LEMMA ReadReturnsKeeps ==
    ASSUME FilesInv, NEW p \in FileProc, Files!ReadReturns(p)
    PROVE  FilesInv'
<1>1. /\ p # initproc /\ pwd[initproc] # NULL /\ mode[p] = "user"
      /\ GoodTable(Files!Released(p), NULL)
      /\ \A n \in Files!Node : Named(Files!Released(p), n) = Named(fd_array[p], n)
  BY ReleasedIs DEF Files!ReadReturns
<1>2. /\ fd_array' = [fd_array EXCEPT ![p] = Files!Released(p)]
      /\ reading' = [reading EXCEPT ![p] = NULL]
      /\ pwd' = pwd /\ mode' = mode
      /\ UNCHANGED <<pwd, ref_count, open_count, lost_refs, lost_opens>>
  BY DEF Files!ReadReturns, Files!counts
<1>3. fd_array'[p] = Files!Released(p) /\ reading'[p] = NULL
  BY <1>2, OwnFacts
<1>4. OnlyOf(p)
  BY <1>1, <1>2, OwnFacts DEF OnlyOf, GoodTable
<1>5. GoodOwn(p)
  <2>1. GoodTable(fd_array'[p], NULL)
    BY <1>1, <1>3, Zenon
  <2> QED
    BY <1>1, <1>2, <1>3, <2>1 DEF GoodOwn
<1>6. CountsFollow(p)
  <2>1. \A n \in Files!Node : Named(fd_array'[p], n) = Named(fd_array[p], n)
    BY <1>1, <1>3, Zenon
  <2> QED
    BY <1>2, <2>1, UncountedCall
<1> QED
  BY <1>1, <1>4, <1>5, <1>6, CallKeeps

\* ... or the reader is killed; and exit().
LEMMA ExitsKeep ==
    ASSUME FilesInv, NEW p \in FileProc, Files!ReadKilled(p) \/ Files!Exit(p)
    PROVE  FilesInv'
<1>1. ASSUME Files!ReadKilled(p) PROVE FilesInv'
  <2>1. /\ p # initproc /\ pwd[initproc] # NULL
        /\ GoodTable(Files!Released(p), NULL)
        /\ \A n \in Files!Node : Named(Files!Released(p), n) = Named(fd_array[p], n)
    BY <1>1, ReleasedIs DEF Files!ReadKilled
  <2>2. Files!PutFiles(p, Files!Released(p)) /\ Files!Gone(p)
    BY <1>1 DEF Files!ReadKilled
  <2> QED
    BY <2>1, <2>2, PutFilesKeeps
<1>2. ASSUME Files!Exit(p) PROVE FilesInv'
  <2>1. /\ p # initproc /\ pwd[initproc] # NULL /\ GoodTable(fd_array[p], NULL)
    BY <1>2, OwnFacts DEF Files!Exit, Files!Runs
  <2>2. Files!PutFiles(p, fd_array[p]) /\ Files!Gone(p)
    BY <1>2 DEF Files!Exit
  <2> QED
    BY <2>1, <2>2, PutFilesKeeps
<1> QED
  BY <1>1, <1>2

\* With empty tables, no slot names anything.
LEMMA NoneNamed ==
    ASSUME NEW A, \A p \in FileProc : A[p] = Files!Empty, NEW n \in Files!Node
    PROVE  NamedIn(A, n) = {} /\ Cardinality(NamedIn(A, n)) = 0
<1>1. \A fd \in Files!Fd : Files!Empty[fd].node = NULL
  BY DEF Files!Empty, Files!FreeSlot
<1>2. ASSUME NEW u \in FileProc \X Files!Fd PROVE A[u[1]][u[2]].node # n
  <2>1. u[1] \in FileProc /\ u[2] \in Files!Fd
    OBVIOUS
  <2>2. A[u[1]][u[2]].node = NULL
    BY <1>1, <2>1
  <2> QED
    BY <2>2, FileFacts
<1>3. NamedIn(A, n) = {}
  BY <1>2 DEF NamedIn
<1> QED
  BY <1>3, FS_EmptySet

\* InodeCountsExact in the terms of these lemmas.
LEMMA InodeCountsIs ==
    InodeCountsExact <=>
        \A n \in Files!Node :
            /\ open_count[n] = Cardinality(NamedIn(fd_array, n)) + lost_opens[n]
            /\ ref_count[n] = Cardinality(HomeOf(pwd, n)) + Cardinality(NamedIn(fd_array, n))
                              + Files!Base(n) + lost_refs[n]
            /\ open_count[n] <= ref_count[n]
BY FilesCardinality DEF InodeCountsExact, Files!InodeCountsExact, Files!Descriptors, NamedIn, HomeOf

\* The first user process starts.
LEMMA InitMainKeeps ==
    ASSUME FilesInv, NEW c \in FileProc, Files!InitMain(c)
    PROVE  FilesInv'
<1>0. FilesTypeOK /\ TablesExact /\ InitExact /\ LossExact /\ InodeCountsExact
  BY DEF FilesInv
<1>1. /\ mode[c] = "none" /\ c # initproc /\ mode[initproc] = "kernel" /\ lost_refs[root] = 0
      /\ \A p \in FileProc : pwd[p] = NULL /\ fd_array[p] = Files!Empty
  BY <1>0 DEF Files!InitMain, InitExact
<1>2. /\ pwd' = [pwd EXCEPT ![initproc] = root, ![c] = root]
      /\ mode' = [mode EXCEPT ![c] = "kernel"]
      /\ ref_count' = [ref_count EXCEPT ![root] = 3]
      /\ UNCHANGED <<fd_array, reading, open_count, lost_refs, lost_opens>>
  BY DEF Files!InitMain
<1>3. /\ \A p \in FileProc : pwd'[p] = IF p \in {initproc, c} THEN root ELSE NULL
      /\ \A p \in FileProc : mode'[p] = IF p = c THEN "kernel" ELSE mode[p]
      /\ \A n \in Files!Node : ref_count'[n] = IF n = root THEN 3 ELSE ref_count[n]
  BY <1>0, <1>1, <1>2, FileFacts DEF FilesTypeOK
<1>4. FilesTypeOK'
  BY <1>0, <1>2, FileFacts DEF FilesTypeOK
<1>5. TablesExact'
  <2> SUFFICES ASSUME NEW q \in FileProc
               PROVE  /\ GoodTable(fd_array'[q], reading'[q])
                      /\ mode'[q] = "none" => fd_array'[q] = Files!Empty /\ pwd'[q] = NULL
                      /\ reading'[q] # NULL =>
                            mode'[q] = "user" /\ fd_array'[q][reading'[q]].status = "OPENED"
    BY DEF TablesExact, GoodTable
  <2>1. /\ GoodTable(fd_array[q], reading[q]) /\ fd_array[q] = Files!Empty /\ pwd[q] = NULL
        /\ reading[q] # NULL => mode[q] = "user" /\ fd_array[q][reading[q]].status = "OPENED"
    BY <1>0, <1>1 DEF TablesExact
  <2>2. fd_array'[q] = fd_array[q] /\ reading'[q] = reading[q]
    BY <1>2
  <2>3. GoodTable(fd_array'[q], reading'[q])
    BY <2>1, <2>2, Zenon
  <2>4. mode'[q] = "none" => fd_array'[q] = Files!Empty /\ pwd'[q] = NULL
    <3>1. mode'[q] = "none" => q # initproc /\ q # c
      BY <1>1, <1>3
    <3> QED
      BY <1>3, <2>1, <2>2, <3>1
  <2>5. reading'[q] = NULL
    <3>1. fd_array[q][reading[q]].status = "OPENED" => reading[q] \notin Files!Fd
      BY <2>1 DEF Files!Empty, Files!FreeSlot
    <3> QED
      BY <1>0, <2>1, <2>2, <3>1 DEF FilesTypeOK
  <2> QED
    BY <2>3, <2>4, <2>5
<1>6. InitExact'
  BY <1>1, <1>3, FileFacts DEF InitExact
<1>7. LossExact'
  BY <1>0, <1>2 DEF LossExact
<1>8. InodeCountsExact'
  <2> SUFFICES ASSUME NEW n \in Files!Node
               PROVE  /\ open_count'[n] = Cardinality(NamedIn(fd_array', n)) + lost_opens'[n]
                      /\ ref_count'[n] = Cardinality(HomeOf(pwd', n))
                            + Cardinality(NamedIn(fd_array', n)) + Files!Base(n)' + lost_refs'[n]
                      /\ open_count'[n] <= ref_count'[n]
    BY FilesCardinality DEF InodeCountsExact, Files!InodeCountsExact, Files!Descriptors, NamedIn, HomeOf
  <2>1. /\ open_count[n] = Cardinality(NamedIn(fd_array, n)) + lost_opens[n]
        /\ ref_count[n] = Cardinality(HomeOf(pwd, n)) + Cardinality(NamedIn(fd_array, n))
                          + Files!Base(n) + lost_refs[n]
        /\ open_count[n] <= ref_count[n]
    BY <1>0, InodeCountsIs
  <2>2. /\ Cardinality(NamedIn(fd_array, n)) = 0 /\ Cardinality(NamedIn(fd_array', n)) = 0
    BY <1>1, <1>2, NoneNamed
  <2>3. Cardinality(HomeOf(pwd, n)) = 0
    <3>1. HomeOf(pwd, n) = {}
      BY <1>1, FileFacts DEF HomeOf
    <3> QED
      BY <3>1, FS_EmptySet
  <2>4. Cardinality(HomeOf(pwd', n)) = IF n = root THEN 2 ELSE 0
    <3>1. HomeOf(pwd', n) = IF n = root THEN {initproc, c} ELSE {}
      BY <1>3, FileFacts DEF HomeOf
    <3>2. Cardinality({initproc, c}) = 2
      <4>1. Cardinality({c}) = 1 /\ IsFiniteSet({c})
        BY FS_Singleton
      <4>2. Cardinality({c} \cup {initproc}) = Cardinality({c}) + 1
        BY <1>1, <4>1, FS_AddElement
      <4>3. {c} \cup {initproc} = {initproc, c}
        OBVIOUS
      <4> QED
        BY <4>1, <4>2, <4>3
    <3> QED
      BY <3>1, <3>2, FS_EmptySet
  <2>5. Files!Base(n)' = IF n = root THEN 1 ELSE Files!Base(n)
    BY <1>1, <1>3, FileFacts DEF Files!Base
  <2>6. Files!Base(n) \in Nat /\ lost_refs[n] \in Nat /\ lost_opens[n] \in Nat
        /\ lost_opens[n] <= lost_refs[n]
    BY <1>0 DEF Files!Base, FilesTypeOK, LossExact
  <2>7. /\ lost_refs'[n] = lost_refs[n] /\ lost_opens'[n] = lost_opens[n]
        /\ open_count'[n] = open_count[n]
        /\ ref_count'[n] = IF n = root THEN 3 ELSE ref_count[n]
    BY <1>2, <1>3
  <2>8. n = root => lost_refs[n] = 0
    BY <1>1
  <2> QED
    BY <2>1, <2>2, <2>3, <2>4, <2>5, <2>6, <2>7, <2>8
<1> QED
  BY <1>4, <1>5, <1>6, <1>7, <1>8 DEF FilesInv

\* The invariant holds when the kernel has booted.
LEMMA FilesInitInv ==
    ASSUME Files!Init
    PROVE  FilesInv
<1>1. /\ fd_array = [p \in FileProc |-> Files!Empty]
      /\ pwd = [p \in FileProc |-> NULL]
      /\ mode = [p \in FileProc |-> IF p = initproc THEN "kernel" ELSE "none"]
      /\ reading = [p \in FileProc |-> NULL]
      /\ ref_count = [n \in Files!Node |-> IF n \in Device THEN 1 ELSE 0]
      /\ open_count = [n \in Files!Node |-> 0]
      /\ lost_refs = [n \in Files!Node |-> 0]
      /\ lost_opens = [n \in Files!Node |-> 0]
  BY DEF Files!Init
<1>2. GoodTable(Files!Empty, NULL) /\ Files!Empty \in [Files!Fd -> Slot]
  BY EmptyTable DEF GoodTable
<1>3. FilesTypeOK
  BY <1>1, <1>2 DEF FilesTypeOK
<1>4. TablesExact
  <2>1. ASSUME NEW p \in FileProc
        PROVE  fd_array[p] = Files!Empty /\ pwd[p] = NULL /\ reading[p] = NULL
    BY <1>1
  <2> QED
    BY <1>2, <2>1 DEF TablesExact
<1>5. InitExact
  BY <1>1, FileFacts DEF InitExact
<1>6. LossExact
  BY <1>1 DEF LossExact
<1>7. InodeCountsExact
  <2>1. ASSUME NEW n \in Files!Node
        PROVE  /\ open_count[n] = Cardinality(NamedIn(fd_array, n)) + lost_opens[n]
               /\ ref_count[n] = Cardinality(HomeOf(pwd, n)) + Cardinality(NamedIn(fd_array, n))
                                 + Files!Base(n) + lost_refs[n]
               /\ open_count[n] <= ref_count[n]
    <3>1. Cardinality(NamedIn(fd_array, n)) = 0
      BY <1>1, NoneNamed
    <3>2. Cardinality(HomeOf(pwd, n)) = 0
      <4>1. HomeOf(pwd, n) = {}
        BY <1>1, FileFacts DEF HomeOf
      <4> QED
        BY <4>1, FS_EmptySet
    <3>3. Files!Base(n) = IF n \in Device THEN 1 ELSE 0
      BY <1>1, FileFacts DEF Files!Base
    <3> QED
      BY <1>1, <3>1, <3>2, <3>3
  <2> QED
    BY <2>1, InodeCountsIs
<1> QED
  BY <1>3, <1>4, <1>5, <1>6, <1>7 DEF FilesInv

\* The calls keep it.
LEMMA FilesNextInv ==
    ASSUME FilesInv, Files!Next
    PROVE  FilesInv'
<1> PICK p \in FileProc :
        \/ Files!InitMain(p)
        \/ \E r \in Requests : Files!OpenSucceeds(p, r) \/ Files!OpenExists(p, r)
        \/ \E fd \in Files!Fd : Files!Close(p, fd) \/ Files!ReadBlocks(p, fd)
        \/ \E from, to \in Files!Fd : Files!Dup(p, from, to)
        \/ \E c \in FileProc : Files!Fork(p, c)
        \/ \E n \in Files!Node : \/ Files!Exec(p, n)
                                 \/ \E closed \in BOOLEAN : Files!ExecFails(p, n, closed)
        \/ Files!ExecNotFound(p) \/ Files!Exit(p) \/ Files!ReadReturns(p) \/ Files!ReadKilled(p)
  BY DEF Files!Next
<1>1. CASE Files!InitMain(p)
  BY <1>1, InitMainKeeps
<1>2. CASE \E r \in Requests : Files!OpenSucceeds(p, r) \/ Files!OpenExists(p, r)
  BY <1>2, OpenSucceedsKeeps, OpenExistsKeeps
<1>3. CASE \E fd \in Files!Fd : Files!Close(p, fd) \/ Files!ReadBlocks(p, fd)
  BY <1>3, CloseKeeps, ReadBlocksKeeps
<1>4. CASE \E from, to \in Files!Fd : Files!Dup(p, from, to)
  BY <1>4, DupKeeps
<1>5. CASE \E c \in FileProc : Files!Fork(p, c)
  BY <1>5, ForkKeeps
<1>6. CASE \E n \in Files!Node : \/ Files!Exec(p, n)
                                 \/ \E closed \in BOOLEAN : Files!ExecFails(p, n, closed)
  BY <1>6, ExecKeeps, ExecFailsKeeps
<1>7. CASE Files!ExecNotFound(p)
  BY <1>7, ExecNotFoundKeeps
<1>8. CASE Files!ReadReturns(p)
  BY <1>8, ReadReturnsKeeps
<1>9. CASE Files!ReadKilled(p) \/ Files!Exit(p)
  BY <1>9, ExitsKeep
<1> QED
  BY <1>1, <1>2, <1>3, <1>4, <1>5, <1>6, <1>7, <1>8, <1>9

\* A step that leaves the state as it is keeps it.
LEMMA FilesStutter ==
    ASSUME FilesInv, UNCHANGED filesVars
    PROVE  FilesInv'
<1>1. /\ fd_array' = fd_array /\ pwd' = pwd /\ mode' = mode /\ reading' = reading
      /\ ref_count' = ref_count /\ open_count' = open_count /\ lost_refs' = lost_refs
      /\ lost_opens' = lost_opens
  BY DEF filesVars
<1>2. FilesTypeOK'
  BY <1>1 DEF FilesInv, FilesTypeOK
<1>3. TablesExact'
  BY <1>1 DEF FilesInv, TablesExact, GoodTable
<1>4. InitExact' /\ LossExact'
  BY <1>1 DEF FilesInv, InitExact, LossExact
<1>5. InodeCountsExact'
  BY <1>1, Zenon DEF FilesInv, InodeCountsExact, Files!InodeCountsExact, Files!Descriptors, Files!Base
<1> QED
  BY <1>2, <1>3, <1>4, <1>5 DEF FilesInv

\* It is an invariant, whichever part is at work.
LEMMA FilesInvariant == BothSpec => []FilesInv
<1>1. BothInit => FilesInv
  BY FilesInitInv DEF BothInit
<1>2. ASSUME FilesInv, [BothNext]_<<part, vars, filesVars>> PROVE FilesInv'
  <2>1. Files!Next \/ UNCHANGED filesVars
    BY <1>2 DEF BothNext, FilesEnd
  <2> QED
    BY <1>2, <2>1, FilesNextInv, FilesStutter
<1> QED
  BY <1>1, <1>2, PTL DEF BothSpec

\* What a slot can be, read off the invariant.
LEMMA SlotsFollow ==
    ASSUME FilesInv
    PROVE  SlotsExact
<1> SUFFICES ASSUME NEW p \in FileProc, NEW fd \in Files!Fd
             PROVE  IF p \notin Files!Alive THEN fd_array[p][fd] = Files!FreeSlot
                    ELSE \/ fd_array[p][fd] = Files!FreeSlot
                         \/ /\ fd_array[p][fd].status = "OPENED" /\ fd_array[p][fd].node \in Files!Node
                            /\ fd_array[p][fd].open_count = IF reading[p] = fd THEN 2 ELSE 1
  BY DEF SlotsExact, Files!SlotsExact
<1>1. GoodTable(fd_array[p], reading[p]) /\ (mode[p] = "none" => fd_array[p] = Files!Empty)
  BY DEF FilesInv, TablesExact
<1>2. p \notin Files!Alive => fd_array[p][fd] = Files!FreeSlot
  BY <1>1 DEF Files!Alive, Files!Empty
<1> QED
  BY <1>1, <1>2 DEF GoodTable

\* InodeCountsExact: ref_count and open_count of every inode are what the open
\* descriptors, the working directories and the kernel itself account for, up to
\* what the error paths have lost, through any sequence of open, close, dup,
\* fork, exec, exit and kill, for any number of processes and slots.
THEOREM InodesAreCounted == BothSpec => []InodeCountsExact
<1>1. FilesInv => InodeCountsExact
  BY DEF FilesInv
<1> QED
  BY <1>1, FilesInvariant, PTL

\* SlotsExact: no slot of a descriptor table is ever left half open or half
\* closed between two calls, and a process that has gone left none behind.
THEOREM SlotsAreExact == BothSpec => []SlotsExact
<1>1. FilesInv => SlotsExact
  BY SlotsFollow
<1> QED
  BY <1>1, FilesInvariant, PTL

-----------------------------------------------------------------------------
(***************************************************************************)
(* get_pid never hands out a pid that is in use, for every MAX_PID and     *)
(* MAX_PROCESS.  The invariant is about the window: no process has a pid   *)
(* inside it, except those the walk has yet to visit.                      *)
(***************************************************************************)
\* During the walk the candidate stays inside the window, and is a pid.
Candidate ==
    /\ phase = "walk" => last_pid < next_safe
    /\ phase = "link" => last_pid \in Pid /\ last_pid \notin pids /\ todo = {}
    /\ phase = "out" => todo = {}

PidInv == PidTypeOK /\ WindowFree /\ Candidate

\* The statics start with an empty window, before any process exists.
LEMMA PidInitInv == PidInit => PidInv
<1> SUFFICES ASSUME PidInit PROVE PidInv
  OBVIOUS
<1> USE PidAssumption DEF PidInit
<1>1. PidTypeOK
  BY FS_EmptySet DEF PidTypeOK, Pid
<1>2. WindowFree /\ Candidate
  BY DEF WindowFree, Candidate
<1> QED
  BY <1>1, <1>2 DEF PidInv

\* Every step of get_pid and do_fork, and every exit, keeps the window free.
LEMMA PidNextInv == PidInv /\ [PidNext]_pidVars => PidInv'
<1> SUFFICES ASSUME PidInv, [PidNext]_pidVars PROVE PidInv'
  OBVIOUS
<1> USE PidAssumption DEF PidInv, PidTypeOK, Candidate, WindowFree, Pid, Wrapped, Bound
<1>1. CASE Call
  <2>1. CASE last_pid + 1 >= MAX_PID
    BY <1>1, <2>1 DEF Call, Restart
  <2>2. CASE last_pid + 1 < MAX_PID /\ last_pid + 1 >= next_safe
    BY <1>1, <2>2 DEF Call, Restart
  <2>3. CASE last_pid + 1 < MAX_PID /\ last_pid + 1 < next_safe
    <3>1. /\ last_pid' = last_pid + 1 /\ phase' = "link" /\ phase = "out"
          /\ UNCHANGED <<pids, next_safe, todo>>
      BY <1>1, <2>3 DEF Call
    <3>2. PidTypeOK' /\ WindowFree'
      BY <2>3, <3>1
    <3>3. Candidate'
      BY <2>3, <3>1
    <3> QED
      BY <3>2, <3>3
  <2> QED
    BY <2>1, <2>2, <2>3
<1>2. ASSUME NEW q \in todo, Visit(q) PROVE PidInv'
  <2>1. CASE q = last_pid /\ last_pid + 1 >= next_safe
    BY <1>2, <2>1 DEF Visit, Restart
  <2>2. CASE q = last_pid /\ last_pid + 1 < next_safe
    <3>1. /\ last_pid' = last_pid + 1 /\ todo' = todo \ {q}
          /\ phase = "walk" /\ UNCHANGED <<pids, next_safe, phase>>
      BY <1>2, <2>2 DEF Visit
    <3>2. PidTypeOK' /\ Candidate'
      BY <2>2, <3>1
    <3>3. WindowFree'
      BY <2>2, <3>1
    <3> QED
      BY <3>2, <3>3
  <2>3. CASE q # last_pid
    <3>1. /\ next_safe' = IF q > last_pid /\ next_safe > q THEN q ELSE next_safe
          /\ todo' = todo \ {q}
          /\ phase = "walk" /\ UNCHANGED <<pids, last_pid, phase>>
      BY <1>2, <2>3 DEF Visit
    <3>2. q \in 1..MAX_PID - 1
      OBVIOUS
    <3>3. PidTypeOK' /\ Candidate'
      BY <2>3, <3>1, <3>2
    <3>4. WindowFree'
      BY <2>3, <3>1, <3>2
    <3> QED
      BY <3>3, <3>4
  <2> QED
    BY <2>1, <2>2, <2>3
<1>3. CASE Return
  BY <1>3 DEF Return
<1>4. CASE Link
  <2>1. IsFiniteSet(pids')
    BY <1>4, FS_AddElement DEF Link
  <2> QED
    BY <1>4, <2>1 DEF Link
<1>5. ASSUME NEW q \in pids, Unlink(q) PROVE PidInv'
  <2>1. IsFiniteSet(pids')
    BY <1>5, FS_RemoveElement DEF Unlink
  <2> QED
    BY <1>5, <2>1 DEF Unlink
<1>6. CASE UNCHANGED pidVars
  BY <1>6 DEF pidVars
<1> QED
  BY <1>1, <1>2, <1>3, <1>4, <1>5, <1>6 DEF PidNext, GetPid

\* The statics of get_pid keep to the range of pids, and pids to theirs.
THEOREM PidTypeCorrect == PidSpec => []PidTypeOK
<1>1. PidInv => PidTypeOK
  BY DEF PidInv
<1> QED
  BY <1>1, PidInitInv, PidNextInv, PTL DEF PidSpec

\* The pid that do_fork hashes is a valid pid that no process on proc_list has.
THEOREM PidsAreUnique == PidSpec => []PidUnique
<1>1. PidInv => PidUnique
  BY DEF PidInv, Candidate, PidUnique
<1> QED
  BY <1>1, PidInitInv, PidNextInv, PTL DEF PidSpec

\* No process ever has a pid inside the window that get_pid trusts.
THEOREM WindowIsFree == PidSpec => []WindowFree
<1>1. PidInv => WindowFree
  BY DEF PidInv
<1> QED
  BY <1>1, PidInitInv, PidNextInv, PTL DEF PidSpec

=============================================================================
