------------------------------- MODULE Timers -------------------------------
(***************************************************************************)
(* The kernel's timer list (kern/schedule/sched.c).  It is a delta list:   *)
(* every entry stores the ticks left after the entry in front of it has    *)
(* expired, so one tick only decrements the head.  The operators take a    *)
(* list of [proc, expires] records and return the list after add_timer,    *)
(* del_timer, or the tick of run_timer_list.                               *)
(***************************************************************************)
EXTENDS Naturals, Sequences, Lists

\* timer_init: the timer a sleeping process keeps on its kernel stack
Timer(p, n) == [proc |-> p, expires |-> n]

\* Owners of the timers in the list, in its order (a timer_link is not empty
\* exactly for the timers in it)
Owners(tl) == [i \in 1..Len(tl) |-> tl[i].proc]
Armed(tl) == Elems(Owners(tl))

\* Ticks until each entry expires: the deltas up to and including it
Due(tl) ==
    LET sum[k \in 0..Len(tl)] == IF k = 0 THEN 0 ELSE sum[k - 1] + tl[k].expires
    IN  sum

\* add_timer walks past every entry due no later than n, so a timer goes
\* behind those that expire at the same tick ...
Position(tl, n) ==
    CHOOSE k \in 0..Len(tl) :
        Due(tl)[k] <= n /\ (k < Len(tl) => n < Due(tl)[k + 1])

\* ... and the entry it is put in front of gives up the new timer's delta.
AddTimer(tl, p, n) ==
    LET pos  == Position(tl, n)
        left == n - Due(tl)[pos]
    IN  [i \in 1..Len(tl) + 1 |->
            IF i <= pos THEN tl[i]
            ELSE IF i = pos + 1 THEN Timer(p, left)
            ELSE IF i = pos + 2 THEN [tl[i - 1] EXCEPT !.expires = @ - left]
            ELSE tl[i - 1]]

\* A faulty DelTimer: the removed entry's ticks are lost
DelTimerDropsTicks(tl, p) ==
    LET k == IF p \in Armed(tl) THEN CHOOSE i \in 1..Len(tl) : tl[i].proc = p ELSE 0
    IN  IF k = 0 THEN tl ELSE SubSeq(tl, 1, k - 1) \o SubSeq(tl, k + 1, Len(tl))

\* del_timer gives the ticks of the removed entry back to its successor, and
\* does nothing when the process's timer is no longer in the list.
DelTimer(tl, p) ==
    IF p \notin Armed(tl) THEN tl
    ELSE LET k == CHOOSE i \in 1..Len(tl) : tl[i].proc = p
         IN  [i \in 1..Len(tl) - 1 |->
                IF i < k THEN tl[i]
                ELSE IF i = k THEN [tl[i + 1] EXCEPT !.expires = @ + tl[k].expires]
                ELSE tl[i + 1]]

\* How many entries one tick of run_timer_list expires: the head, when its
\* delta is 1, and the entries behind it whose delta is 0.
Expiring(tl) ==
    IF tl = <<>> \/ tl[1].expires # 1 THEN 0
    ELSE CHOOSE k \in 1..Len(tl) :
            /\ \A i \in 2..k : tl[i].expires = 0
            /\ k < Len(tl) => tl[k + 1].expires # 0

\* A faulty Fired: the entries behind the head with delta 0 are forgotten
FiredHeadOnly(tl) == IF Expiring(tl) = 0 THEN <<>> ELSE <<tl[1].proc>>

\* The processes run_timer_list wakes at this tick, in the order it does so
Fired(tl) == [i \in 1..Expiring(tl) |-> tl[i].proc]

\* The list after the tick
TickTimers(tl) ==
    LET k == Expiring(tl)
    IN  IF tl = <<>> THEN tl
        ELSE IF k = 0 THEN [tl EXCEPT ![1].expires = @ - 1]
        ELSE SubSeq(tl, k + 1, Len(tl))

=============================================================================
