---------------------------- MODULE Foundations ----------------------------
(***************************************************************************)
(* What proofs about several parts of the kernel rest on: induction and    *)
(* primitive recursion over the naturals, stated for sets and functions    *)
(* instead of operators so that they can be cited from any proof; what the *)
(* operations on lists do to their elements; and how memory is cut into    *)
(* pieces, by their lengths or in blocks of doubling sizes, with the rings *)
(* that link free pieces in the order of their addresses.                  *)
(***************************************************************************)
EXTENDS Integers, Sequences, Lists, SequenceTheorems, FiniteSetTheorems, WellFoundedInduction,
        TLAPS

\* A nonempty set of naturals has a least element.
LEMMA LeastNatural ==
    ASSUME NEW T \in SUBSET Nat, T # {}
    PROVE  \E m \in T : \A n \in T : m <= n
<1> DEFINE R == OpToRel(<, Nat)
<1>1. IsWellFoundedOn(R, Nat)
  BY NatLessThanWellFounded
<1>2. PICK m \in T : \A n \in T : ~ (<<n, m>> \in R)
  <2> HIDE DEF R
  <2> QED
    BY <1>1, WFMin, Zenon
<1>3. ASSUME NEW n \in T PROVE m <= n
  <2>1. ~ (<<n, m>> \in R)
    BY <1>2
  <2>2. ~ (n < m)
    BY <2>1 DEF OpToRel
  <2> QED
    BY <2>2
<1> QED
  BY <1>3

\* Induction: a set that holds 0 and is closed under successor is all of Nat.
LEMMA NatInd ==
    ASSUME NEW S, 0 \in S, \A n \in Nat : n \in S => n + 1 \in S
    PROVE  Nat \subseteq S
<1> DEFINE T == Nat \ S
<1>1. ASSUME T # {} PROVE FALSE
  <2>1. PICK m \in T : \A n \in T : m <= n
    BY <1>1, LeastNatural
  <2>2. m # 0 /\ m \in Nat
    BY <2>1
  <2>3. m - 1 \in Nat /\ m - 1 \notin T
    BY <2>1, <2>2
  <2>4. (m - 1) + 1 \in S
    BY <2>3
  <2> QED
    BY <2>1, <2>2, <2>4
<1> QED
  BY <1>1

\* A function may be defined on 0..N by recursion from a first value and a
\* step that gives each value from its predecessor.
Follows(f, X, x0, step, N) ==
    /\ f \in [0..N -> X]
    /\ f[0] = x0
    /\ \A n \in 0..N - 1 : f[n + 1] = step[n][f[n]]

\* There is such a function for every bound, first value and step.
LEMMA FiniteRecursion ==
    ASSUME NEW X, NEW x0 \in X, NEW step \in [Nat -> [X -> X]], NEW N \in Nat
    PROVE  \E f : Follows(f, X, x0, step, N)
<1> DEFINE Rec(f, M) == Follows(f, X, x0, step, M)
    S == {M \in Nat : \E f : Rec(f, M)}
<1>1. 0 \in S
  <2>1. Rec([i \in 0..0 |-> x0], 0)
    BY DEF Follows
  <2> QED
    BY <2>1
<1>2. ASSUME NEW M \in Nat, M \in S PROVE M + 1 \in S
  <2>0. PICK f : Rec(f, M)
    BY <1>2
  <2>1. f \in [0..M -> X] /\ f[0] = x0 /\ \A n \in 0..M - 1 : f[n + 1] = step[n][f[n]]
    BY <2>0 DEF Follows
  <2> DEFINE g == [i \in 0..M + 1 |-> IF i \in 0..M THEN f[i] ELSE step[M][f[M]]]
  <2>2. step[M][f[M]] \in X
    BY <2>1
  <2>3. g \in [0..M + 1 -> X]
    BY <2>1, <2>2
  <2>4. g[0] = x0
    BY <2>1
  <2>5. ASSUME NEW n \in 0..M PROVE g[n + 1] = step[n][g[n]]
    <3>1. CASE n = M
      BY <3>1
    <3>2. CASE n # M
      <4>1. n \in 0..M - 1 /\ n + 1 \in 0..M
        BY <3>2
      <4> QED
        BY <4>1, <2>1
    <3> QED
      BY <3>1, <3>2
  <2>6. Rec(g, M + 1)
    <3> HIDE DEF g
    <3> QED
      BY <2>3, <2>4, <2>5 DEF Follows
  <2>7. \E h : Rec(h, M + 1)
    <3> HIDE DEF Rec
    <3> QED
      BY <2>6
  <2> QED
    BY <2>7
<1>3. N \in S
  <2> HIDE DEF S
  <2> QED
    BY <1>1, <1>2, NatInd
<1> QED
  BY <1>3

-----------------------------------------------------------------------------
\* What is on a list of things from S is in S.
LEMMA ElemsIn ==
    ASSUME NEW S, NEW s \in Seq(S)
    PROVE  Elems(s) \subseteq S
BY DEF Elems

\* A sequence given as a function is a list.
LEMMA FunctionList ==
    ASSUME NEW S, NEW n \in Nat, NEW s \in [1..n -> S]
    PROVE  s \in Seq(S)
OBVIOUS

\* Nothing is on the empty list.
LEMMA EmptyList == Elems(<<>>) = {} /\ Distinct(<<>>)
BY DEF Elems, Distinct

\* A list of one element.
LEMMA SingletonList ==
    ASSUME NEW x
    PROVE  Distinct(<<x>>) /\ Elems(<<x>>) = {x}
BY DEF Distinct, Elems

\* Appending a new element.
LEMMA AppendList ==
    ASSUME NEW S, NEW s \in Seq(S), NEW x \in S
    PROVE  /\ Append(s, x) \in Seq(S)
           /\ Elems(Append(s, x)) = Elems(s) \cup {x}
           /\ Distinct(s) /\ x \notin Elems(s) => Distinct(Append(s, x))
<1> DEFINE t == Append(s, x)
<1>1. /\ t \in Seq(S) /\ Len(t) = Len(s) + 1 /\ t[Len(s) + 1] = x
      /\ \A i \in 1..Len(s) : t[i] = s[i]
      /\ Len(s) \in Nat
  OBVIOUS
<1> HIDE DEF t
<1>2. Elems(t) = Elems(s) \cup {x}
  BY <1>1 DEF Elems
<1>3. ASSUME Distinct(s), x \notin Elems(s) PROVE Distinct(t)
  BY <1>1, <1>3 DEF Distinct, Elems
<1> QED
  BY <1>1, <1>2, <1>3 DEF t

\* Taking the head of a list off it.
LEMMA TailList ==
    ASSUME NEW S, NEW s \in Seq(S), s # <<>>
    PROVE  /\ Head(s) \in Elems(s) /\ Head(s) \in S /\ Tail(s) \in Seq(S)
           /\ Distinct(s) => /\ Distinct(Tail(s))
                             /\ Elems(Tail(s)) = Elems(s) \ {Head(s)}
<1> DEFINE t == Tail(s)
<1>1. /\ t \in Seq(S) /\ Len(s) \in Nat \ {0} /\ Len(t) = Len(s) - 1
      /\ \A i \in 1..Len(t) : t[i] = s[i + 1]
      /\ Head(s) = s[1] /\ s[1] \in S
  OBVIOUS
<1> HIDE DEF t
<1>2. Head(s) \in Elems(s)
  BY <1>1 DEF Elems
<1>3. ASSUME Distinct(s) PROVE Distinct(t) /\ Elems(t) = Elems(s) \ {Head(s)}
  <2>1. Distinct(t)
    BY <1>1, <1>3 DEF Distinct
  <2>2. ASSUME NEW x \in Elems(t) PROVE x \in Elems(s) /\ x # s[1]
    <3>1. PICK i \in 1..Len(t) : x = t[i]
      BY DEF Elems
    <3> QED
      BY <3>1, <1>1, <1>3 DEF Elems, Distinct
  <2>3. ASSUME NEW x \in Elems(s), x # s[1] PROVE x \in Elems(t)
    <3>1. PICK i \in 1..Len(s) : x = s[i]
      BY DEF Elems
    <3>2. i - 1 \in 1..Len(t) /\ t[i - 1] = x
      BY <3>1, <2>3, <1>1
    <3> QED
      BY <3>2 DEF Elems
  <2> QED
    BY <1>1, <2>1, <2>2, <2>3
<1> QED
  BY <1>1, <1>2, <1>3 DEF t

\* Appending a list that shares nothing with the first.
LEMMA ConcatList ==
    ASSUME NEW S, NEW s \in Seq(S), NEW t \in Seq(S)
    PROVE  /\ s \o t \in Seq(S)
           /\ Elems(s \o t) = Elems(s) \cup Elems(t)
           /\ Distinct(s) /\ Distinct(t) /\ Elems(s) \cap Elems(t) = {}
                => Distinct(s \o t)
<1> DEFINE u == s \o t
<1>1. /\ u \in Seq(S) /\ Len(u) = Len(s) + Len(t)
      /\ Len(s) \in Nat /\ Len(t) \in Nat
      /\ \A i \in 1..Len(s) : u[i] = s[i]
      /\ \A i \in 1..Len(t) : u[Len(s) + i] = t[i]
  OBVIOUS
<1>0. \A i \in 1..Len(u) : i \in 1..Len(s) \/ (i - Len(s) \in 1..Len(t) /\ u[i] = t[i - Len(s)])
  <2> SUFFICES ASSUME NEW i \in 1..Len(u), i \notin 1..Len(s)
               PROVE  i - Len(s) \in 1..Len(t) /\ u[i] = t[i - Len(s)]
    OBVIOUS
  <2> HIDE DEF u
  <2>1. i - Len(s) \in 1..Len(t)
    BY <1>1
  <2>2. Len(s) + (i - Len(s)) = i
    BY <1>1
  <2> QED
    BY <2>1, <2>2, <1>1
<1> HIDE DEF u
<1>2. Elems(u) = Elems(s) \cup Elems(t)
  <2>1. ASSUME NEW x \in Elems(u) PROVE x \in Elems(s) \cup Elems(t)
    <3>1. PICK i \in 1..Len(u) : x = u[i]
      BY DEF Elems
    <3> QED
      BY <3>1, <1>0, <1>1 DEF Elems
  <2>2. ASSUME NEW x \in Elems(s) PROVE x \in Elems(u)
    BY <1>1 DEF Elems
  <2>3. ASSUME NEW x \in Elems(t) PROVE x \in Elems(u)
    <3>1. PICK i \in 1..Len(t) : x = t[i]
      BY DEF Elems
    <3>2. Len(s) + i \in 1..Len(u) /\ u[Len(s) + i] = x
      BY <3>1, <1>1
    <3> QED
      BY <3>2 DEF Elems
  <2> QED
    BY <2>1, <2>2, <2>3
<1>3. ASSUME Distinct(s), Distinct(t), Elems(s) \cap Elems(t) = {} PROVE Distinct(u)
  <2> SUFFICES ASSUME NEW i \in 1..Len(u), NEW j \in 1..Len(u), u[i] = u[j] PROVE i = j
    BY DEF Distinct
  <2>1. CASE i \in 1..Len(s) /\ j \in 1..Len(s)
    BY <2>1, <1>1, <1>3 DEF Distinct
  <2>2. CASE i \notin 1..Len(s) /\ j \notin 1..Len(s)
    <3>1. i - Len(s) = j - Len(s)
      BY <2>2, <1>0, <1>3 DEF Distinct
    <3> QED
      BY <3>1, <1>1
  <2>3. CASE i \in 1..Len(s) /\ j \notin 1..Len(s)
    <3>1. u[i] \in Elems(s)
      BY <2>3, <1>1 DEF Elems
    <3>2. u[j] \in Elems(t)
      BY <2>3, <1>0 DEF Elems
    <3> QED
      BY <3>1, <3>2, <1>3
  <2>4. CASE i \notin 1..Len(s) /\ j \in 1..Len(s)
    <3>1. u[j] \in Elems(s)
      BY <2>4, <1>1 DEF Elems
    <3>2. u[i] \in Elems(t)
      BY <2>4, <1>0 DEF Elems
    <3> QED
      BY <3>1, <3>2, <1>3
  <2> QED
    BY <2>1, <2>2, <2>3, <2>4
<1> QED
  BY <1>1, <1>2, <1>3 DEF u

\* The elements kept of a list.
LEMMA KeepList ==
    ASSUME NEW S, NEW s \in Seq(S), NEW T
    PROVE  /\ Keep(s, T) \in Seq(S)
           /\ Elems(Keep(s, T)) = Elems(s) \cap T
           /\ Distinct(s) => Distinct(Keep(s, T))
           /\ Elems(s) \subseteq T => Keep(s, T) = s
<1> DEFINE N == Len(s)
    Body(f) == [i \in 0..N |-> IF i = 0 THEN <<>>
                               ELSE IF s[i] \in T THEN Append(f[i - 1], s[i]) ELSE f[i - 1]]
    f == CHOOSE f : f = Body(f)
    step == [n \in Nat |-> [x \in Seq(S) |->
                IF n + 1 \in 1..N THEN IF s[n + 1] \in T THEN Append(x, s[n + 1]) ELSE x
                ELSE x]]
<1>0. N \in Nat /\ \A i \in 1..N : s[i] \in S
  OBVIOUS
<1>1. f = Body(f)
  <2>1. <<>> \in Seq(S)
    OBVIOUS
  <2>2. step \in [Nat -> [Seq(S) -> Seq(S)]]
    OBVIOUS
  <2>3. PICK g \in [0..N -> Seq(S)] :
           g[0] = <<>> /\ \A n \in 0..N - 1 : g[n + 1] = step[n][g[n]]
    <3> DEFINE X == Seq(S) e == <<>>
    <3>1. e \in X /\ step \in [Nat -> [X -> X]] /\ N \in Nat
      BY <1>0, <2>1, <2>2
    <3> HIDE DEF step, N, X, e, f, Body
    <3>2. \E g : Follows(g, X, e, step, N)
      BY <3>1, FiniteRecursion
    <3> QED
      BY <3>2 DEF X, e, Follows
  <2>4. ASSUME NEW i \in 0..N PROVE g[i] = Body(g)[i]
    <3>1. CASE i = 0
      BY <3>1, <2>3
    <3>2. CASE i # 0
      <4>1. i - 1 \in 0..N - 1 /\ (i - 1) + 1 = i /\ i \in 1..N
        BY <3>2
      <4>2. g[i - 1] \in Seq(S)
        <5> HIDE DEF N
        <5>1. i - 1 \in 0..N
          BY <4>1, <1>0
        <5> QED
          BY <5>1, <2>3
      <4>3. g[i] = step[i - 1][g[i - 1]]
        BY <4>1, <2>3
      <4>4. step[i - 1][g[i - 1]] = IF s[i] \in T THEN Append(g[i - 1], s[i]) ELSE g[i - 1]
        BY <4>1, <4>2
      <4> QED
        BY <3>2, <4>3, <4>4
    <3> QED
      BY <3>1, <3>2
  <2>5. g = Body(g)
    <3> HIDE DEF N
    <3> QED
      BY <2>3, <2>4
  <2> QED
    BY <2>5
<1>2. f[0] = <<>> /\ \A i \in 1..N : f[i] = IF s[i] \in T THEN Append(f[i - 1], s[i]) ELSE f[i - 1]
  <2> HIDE DEF f, N
  <2>1. f = [i \in 0..N |-> IF i = 0 THEN <<>>
                            ELSE IF s[i] \in T THEN Append(f[i - 1], s[i]) ELSE f[i - 1]]
    BY <1>1
  <2>2. f[0] = <<>>
    BY <1>0, <2>1
  <2>3. ASSUME NEW i \in 1..N
        PROVE  f[i] = IF s[i] \in T THEN Append(f[i - 1], s[i]) ELSE f[i - 1]
    <3>1. i \in 0..N /\ i # 0
      BY <1>0
    <3> QED
      BY <3>1, <2>1
  <2> QED
    BY <2>2, <2>3
<1>3. Keep(s, T) = f[N]
  BY DEF Keep
<1> DEFINE CutOff(i) == {s[j] : j \in 1..i}
    P(i) == /\ f[i] \in Seq(S)
            /\ Elems(f[i]) = CutOff(i) \cap T
            /\ Distinct(s) => Distinct(f[i])
            /\ Elems(s) \subseteq T => Len(f[i]) = i /\ \A j \in 1..i : f[i][j] = s[j]
    I == {i \in Nat : i <= N => P(i)}
<1> HIDE DEF f
<1>4. 0 \in I
  <2>1. f[0] = <<>> /\ <<>> \in Seq(S) /\ Len(f[0]) = 0
    BY <1>2
  <2>2. Elems(f[0]) = {} /\ CutOff(0) = {} /\ Distinct(f[0])
    BY <2>1 DEF Elems, Distinct
  <2> QED
    BY <2>1, <2>2
<1>5. ASSUME NEW n \in Nat, n \in I PROVE n + 1 \in I
  <2> SUFFICES ASSUME n + 1 <= N PROVE P(n + 1)
    OBVIOUS
  <2>1. P(n) /\ n + 1 \in 1..N /\ (n + 1) - 1 = n
    BY <1>5
  <2>2. CutOff(n + 1) = CutOff(n) \cup {s[n + 1]}
    BY <2>1
  <2>3. CASE s[n + 1] \in T
    <3>1. f[n + 1] = Append(f[n], s[n + 1])
      BY <1>2, <2>1, <2>3
    <3>2. s[n + 1] \in S
      BY <1>0, <2>1
    <3>3. ASSUME Distinct(s) PROVE s[n + 1] \notin Elems(f[n])
      <4>1. \A j \in 1..n : s[j] # s[n + 1]
        BY <2>1, <3>3 DEF Distinct
      <4> QED
        BY <4>1, <2>1
    <3>5. ASSUME Elems(s) \subseteq T
          PROVE  LET t == Append(f[n], s[n + 1])
                 IN  Len(t) = n + 1 /\ \A j \in 1..n + 1 : t[j] = s[j]
      BY <2>1, <3>2, <3>5
    <3>4. /\ Append(f[n], s[n + 1]) \in Seq(S)
          /\ Elems(Append(f[n], s[n + 1])) = Elems(f[n]) \cup {s[n + 1]}
          /\ Distinct(s) => Distinct(Append(f[n], s[n + 1]))
      BY <2>1, <3>2, <3>3, AppendList
    <3> QED
      BY <2>1, <2>2, <2>3, <3>1, <3>4, <3>5
  <2>4. CASE s[n + 1] \notin T
    <3>1. f[n + 1] = f[n]
      BY <1>2, <2>1, <2>4
    <3>2. ~ (Elems(s) \subseteq T)
      BY <2>1, <2>4 DEF Elems
    <3> QED
      BY <2>1, <2>2, <2>4, <3>1, <3>2
  <2> QED
    BY <2>3, <2>4
<1>6. N \in I
  <2> HIDE DEF I
  <2> QED
    BY <1>0, <1>4, <1>5, NatInd
<1>7. ASSUME Elems(s) \subseteq T PROVE Keep(s, T) = s
  <2>1. f[N] \in Seq(S) /\ Len(f[N]) = N /\ \A j \in 1..N : f[N][j] = s[j]
    BY <1>0, <1>6, <1>7
  <2> QED
    BY <1>3, <2>1
<1>8. P(N)
  BY <1>0, <1>6
<1>9. CutOff(N) = Elems(s)
  BY DEF Elems
<1> HIDE DEF f
<1> QED
  BY <1>3, <1>7, <1>8, <1>9

\* The length of a list on which nothing is twice.
LEMMA DistinctLength ==
    ASSUME NEW S, NEW s \in Seq(S), Distinct(s)
    PROVE  Cardinality(Elems(s)) = Len(s)
<1>1. Len(s) \in Nat /\ s \in [1..Len(s) -> Elems(s)]
  BY DEF Elems
<1>2. s \in Injection(1..Len(s), Elems(s))
  BY <1>1 DEF Injection, IsInjective, Distinct
<1>3. s \in Surjection(1..Len(s), Elems(s))
  BY <1>1 DEF Surjection, Elems
<1> QED
  BY <1>1, <1>2, <1>3, FS_CountingElements DEF ExistsBijection, Bijection

-----------------------------------------------------------------------------
\* The pages F in pieces: K begins them, len says how long they are.
Parts(len, K, F, M) ==
    /\ K \subseteq 0..(M - 1) /\ F \subseteq 0..(M - 1)
    /\ \A h \in K : /\ len[h] \in Nat \ {0} /\ h + len[h] <= M
                    /\ \A x \in Nat : h <= x /\ x < h + len[h] => x \in F
    /\ \A h, k \in K : h < k => h + len[h] <= k
    /\ \A x \in F : \E h \in K : h <= x /\ x < h + len[h]

\* No piece ends where another begins.
Whole(len, K) == \A h, k \in K : h + len[h] # k

\* What remains of the pieces when n pages are taken from the front of one
CutOff(len, H, page, n, g, K) ==
    /\ K = (H \ {page}) \cup (IF n < len[page] THEN {page + n} ELSE {})
    /\ \A h \in K : g[h] = IF n < len[page] /\ h = page + n THEN len[page] - n ELSE len[h]

\* n pages are taken from the front of a piece.
LEMMA SplitPart ==
    ASSUME NEW M \in Nat \ {0}, NEW len, NEW H, NEW F, Parts(len, H, F, M), NEW page \in H, NEW n \in 1..M, n <= len[page],
           NEW K, NEW g, CutOff(len, H, page, n, g, K)
    PROVE  /\ Parts(g, K, F \ page..(page + n - 1), M) /\ page..(page + n - 1) \subseteq F
           /\ Whole(len, H) => Whole(g, K)
           /\ n < len[page] => page + n \in 0..(M - 1) /\ page + n \notin H
<1> DEFINE e == page + n
           s == len[page]
           r == page..(page + n - 1)
           G == F \ r
<1>1. /\ H \subseteq 0..(M - 1) /\ F \subseteq 0..(M - 1)
      /\ \A h \in H : /\ len[h] \in Nat \ {0} /\ h + len[h] <= M /\ h \in Nat /\ h < M
                      /\ \A x \in Nat : h <= x /\ x < h + len[h] => x \in F
      /\ \A h, k \in H : h < k => h + len[h] <= k
      /\ \A x \in F : x \in Nat /\ \E h \in H : h <= x /\ x < h + len[h]
  BY DEF Parts
<1>2. s \in Nat \ {0} /\ page \in Nat /\ n \in Nat \ {0} /\ e \in Nat /\ n <= s /\ page + s <= M
  BY <1>1
<1>3. \A h \in H : h # page => h + len[h] <= page \/ page + s <= h
  <2> SUFFICES ASSUME NEW h \in H, h # page PROVE h + len[h] <= page \/ page + s <= h
    OBVIOUS
  <2>1. h < page \/ page < h
    BY <1>1, <1>2
  <2> QED
    BY <1>1, <2>1
<1>4. r \subseteq F
  <2> SUFFICES ASSUME NEW x \in r PROVE x \in F
    OBVIOUS
  <2>1. x \in Nat /\ page <= x /\ x < page + s
    BY <1>2
  <2> QED
    BY <1>1, <2>1
<1>5. n < s => e \in 0..(M - 1) /\ e \notin H
  <2> SUFFICES ASSUME n < s PROVE e \in 0..(M - 1) /\ e \notin H
    OBVIOUS
  <2>1. page < e /\ e < page + s /\ e <= M - 1
    BY <1>2
  <2>2. ASSUME e \in H PROVE FALSE
    BY <1>1, <2>1, <2>2
  <2> QED
    BY <1>2, <2>1, <2>2
<1>6. /\ \A h \in K : \/ h = e /\ n < s /\ g[h] = s - n /\ h + g[h] = page + s
                      \/ h \in H /\ h # page /\ g[h] = len[h]
      /\ n < s => e \in K
      /\ \A h \in H : h # page => h \in K /\ g[h] = len[h]
  <2>1. e + (s - n) = page + s
    BY <1>2
  <2> QED
    BY <1>5, <2>1 DEF CutOff
<1>7. \A h \in K : h \in 0..(M - 1)
  BY <1>1, <1>5, <1>6
<1>8. ASSUME NEW h \in K
      PROVE  /\ g[h] \in Nat \ {0} /\ h + g[h] <= M
             /\ \A x \in Nat : h <= x /\ x < h + g[h] => x \in G
  <2>1. CASE h = e /\ n < s /\ g[h] = s - n /\ h + g[h] = page + s
    <3>1. g[h] \in Nat \ {0} /\ h + g[h] <= M
      BY <1>2, <2>1
    <3>2. ASSUME NEW x \in Nat, h <= x, x < h + g[h] PROVE x \in G
      <4>1. page <= x /\ x < page + s /\ ~ (x <= page + n - 1)
        BY <1>2, <2>1, <3>2
      <4>2. x \in F
        BY <1>1, <4>1
      <4> QED
        BY <4>1, <4>2
    <3> QED
      BY <3>1, <3>2
  <2>2. CASE h \in H /\ h # page /\ g[h] = len[h]
    <3>1. ASSUME NEW x \in Nat, h <= x, x < h + g[h] PROVE x \in G
      <4>1. x \in F /\ h \in Nat /\ g[h] \in Nat
        BY <1>1, <2>2, <3>1
      <4>2. h + g[h] <= page \/ page + s <= h
        BY <1>3, <2>2
      <4>3. ~ (page <= x /\ x <= page + n - 1)
        BY <1>2, <3>1, <4>1, <4>2
      <4> QED
        BY <4>1, <4>3
    <3> QED
      BY <1>1, <2>2, <3>1
  <2> QED
    BY <1>6, <2>1, <2>2
<1>9. ASSUME NEW h \in K, NEW k \in K, h < k PROVE h + g[h] <= k
  <2>1. CASE h \in H /\ h # page /\ g[h] = len[h] /\ k \in H
    BY <1>1, <1>9, <2>1
  <2>2. CASE h \in H /\ h # page /\ g[h] = len[h] /\ k = e /\ n < s
    <3>1. h + len[h] <= page \/ page + s <= h
      BY <1>3, <2>2
    <3> QED
      BY <1>1, <1>2, <1>9, <2>2, <3>1
  <2>3. CASE h = e /\ h + g[h] = page + s /\ k \in H /\ k # page
    <3>1. k + len[k] <= page \/ page + s <= k
      BY <1>3, <2>3
    <3> QED
      BY <1>1, <1>2, <1>9, <2>3, <3>1
  <2>4. CASE h = e /\ k = e
    BY <1>2, <1>9, <2>4
  <2> QED
    BY <1>6, <2>1, <2>2, <2>3, <2>4
<1>10. ASSUME NEW x \in G PROVE \E h \in K : h <= x /\ x < h + g[h]
  <2>1. PICK h \in H : h <= x /\ x < h + len[h]
    BY <1>1
  <2>2. x \in Nat /\ ~ (page <= x /\ x <= page + n - 1)
    BY <1>1, <1>2
  <2>3. CASE h = page
    <3>1. e <= x /\ x < page + s
      BY <1>2, <2>1, <2>2, <2>3
    <3>2. n < s /\ e \in K
      BY <1>2, <1>6, <2>2, <3>1
    <3>3. e + g[e] = page + s
      BY <1>2, <1>5, <1>6, <3>2
    <3> QED
      BY <3>1, <3>2, <3>3
  <2>4. CASE h # page
    <3>1. h \in K /\ g[h] = len[h]
      BY <1>6, <2>4
    <3> QED
      BY <2>1, <3>1
  <2> QED
    BY <2>3, <2>4
<1>11. ASSUME Whole(len, H), NEW h \in K, NEW k \in K, h + g[h] = k PROVE FALSE
  <2>1. CASE h \in H /\ h # page /\ g[h] = len[h] /\ k \in H
    BY <1>11, <2>1 DEF Whole
  <2>2. CASE h \in H /\ h # page /\ g[h] = len[h] /\ k = e /\ n < s
    <3>1. h + len[h] <= page \/ page + s <= h
      BY <1>3, <2>2
    <3> QED
      BY <1>1, <1>2, <1>11, <2>2, <3>1
  <2>3. CASE h = e /\ h + g[h] = page + s /\ k \in H /\ k # page
    BY <1>11, <2>3 DEF Whole
  <2>4. CASE h = e /\ k = e
    BY <1>2, <1>8, <1>11, <2>4
  <2> QED
    BY <1>6, <2>1, <2>2, <2>3, <2>4
<1>12. Parts(g, K, G, M)
  <2> HIDE DEF G
  <2>1. G \subseteq 0..(M - 1)
    BY <1>1 DEF G
  <2> QED
    BY <1>7, <1>8, <1>9, <1>10, <2>1 DEF Parts
<1>13. Whole(len, H) => Whole(g, K)
  BY <1>11 DEF Whole
<1> QED
  BY <1>4, <1>5, <1>12, <1>13

\* What is left of a piece begins where none did.
LEMMA SplitOne ==
    ASSUME NEW M \in Nat \ {0}, NEW len, NEW H, NEW F, Parts(len, H, F, M), NEW page \in H, NEW n \in 1..M, n < len[page]
    PROVE  page + n \in 0..(M - 1) /\ page + n \notin H
<1>1. page \in Nat /\ len[page] \in Nat /\ page + len[page] <= M /\ \A h \in H : page < h => page + len[page] <= h
  BY DEF Parts
<1> QED
  BY <1>1

\* Handing out pages and taking them back is counted.
LEMMA PageCount ==
    ASSUME NEW M \in Nat \ {0}, NEW S \in SUBSET (0..(M - 1)), NEW b \in Nat, NEW n \in Nat \ {0}
    PROVE  /\ Cardinality(S) \in Nat
           /\ b..(b + n - 1) \cap S = {} => Cardinality(S \cup b..(b + n - 1)) = Cardinality(S) + n
           /\ b..(b + n - 1) \subseteq S => Cardinality(S \ b..(b + n - 1)) = Cardinality(S) - n
<1> DEFINE r == b..(b + n - 1)
<1>1. IsFiniteSet(S)
  <2>1. IsFiniteSet(0..(M - 1))
    BY FS_Interval
  <2> QED
    BY <2>1, FS_Subset
<1>2. IsFiniteSet(r) /\ Cardinality(r) = n
  BY FS_Interval
<1> HIDE DEF r
<1>3. ASSUME r \cap S = {} PROVE Cardinality(S \cup r) = Cardinality(S) + n
  <2>1. Cardinality(S \cup r) = Cardinality(S) + Cardinality(r) - Cardinality(S \cap r)
    BY <1>1, <1>2, FS_Union
  <2>2. S \cap r = {} /\ Cardinality({}) = 0
    BY <1>3, FS_EmptySet
  <2>3. Cardinality(S) \in Nat
    BY <1>1, FS_CardinalityType
  <2> DEFINE c == Cardinality(S)
             d == Cardinality(S \cup r)
  <2>4. d = c + n - 0 /\ c \in Nat
    BY <1>2, <2>1, <2>2, <2>3
  <2> HIDE DEF c, d
  <2>5. d = c + n
    BY <2>4
  <2> QED
    BY <2>5 DEF c, d
<1>4. ASSUME r \subseteq S PROVE Cardinality(S \ r) = Cardinality(S) - n
  <2>1. Cardinality(S \ r) = Cardinality(S) - Cardinality(S \cap r)
    BY <1>1, FS_Difference
  <2>2. S \cap r = r
    BY <1>4
  <2> QED
    BY <1>2, <2>1, <2>2
<1>5. Cardinality(S) \in Nat
  BY <1>1, FS_CardinalityType
<1> QED
  BY <1>3, <1>4, <1>5 DEF r

\* The lengths after piece q has been added to piece p
Added(len, K, p, q, g) ==
    p + len[p] = q /\ \A h \in K \ {q} : g[h] = IF h = p THEN len[p] + len[q] ELSE len[h]

\* Two pieces that touch become one.
LEMMA JoinParts ==
    ASSUME NEW M \in Nat \ {0}, NEW len, NEW K, NEW F, Parts(len, K, F, M), NEW p \in K, NEW q \in K,
           NEW g, Added(len, K, p, q, g)
    PROVE  Parts(g, K \ {q}, F, M) /\ p # q /\ p + g[p] = q + len[q]
<1> DEFINE J == K \ {q}
<1>0. p + len[p] = q /\ \A h \in K \ {q} : g[h] = IF h = p THEN len[p] + len[q] ELSE len[h]
  BY DEF Added
<1>1. /\ K \subseteq 0..(M - 1) /\ F \subseteq 0..(M - 1)
      /\ \A h \in K : /\ h \in Nat /\ len[h] \in Nat \ {0} /\ h + len[h] <= M
                      /\ \A x \in Nat : h <= x /\ x < h + len[h] => x \in F
      /\ \A h, k \in K : h < k => h + len[h] <= k
      /\ \A x \in F : \E h \in K : h <= x /\ x < h + len[h]
  BY DEF Parts
<1>2. p \in Nat /\ q \in Nat /\ p < q /\ len[p] \in Nat \ {0} /\ len[q] \in Nat \ {0} /\ p + len[p] = q
  BY <1>0, <1>1
<1>3. p \in J /\ g[p] = len[p] + len[q] /\ p + g[p] = q + len[q] /\ \A h \in J : h # p => g[h] = len[h]
  BY <1>0, <1>2
<1>4. ASSUME NEW h \in J
      PROVE  /\ g[h] \in Nat \ {0} /\ h + g[h] <= M
             /\ \A x \in Nat : h <= x /\ x < h + g[h] => x \in F
  <2>1. CASE h = p
    <3>1. g[p] \in Nat \ {0} /\ p + g[p] <= M
      BY <1>1, <1>2, <1>3
    <3>2. ASSUME NEW x \in Nat, p <= x, x < p + g[p] PROVE x \in F
      <4>1. x < p + len[p] \/ (q <= x /\ x < q + len[q])
        BY <1>2, <1>3, <3>2
      <4> QED
        BY <1>1, <3>2, <4>1
    <3> QED
      BY <2>1, <3>1, <3>2
  <2>2. CASE h # p
    BY <1>1, <1>3, <2>2
  <2> QED
    BY <2>1, <2>2
<1>5. ASSUME NEW h \in J, NEW k \in J, h < k PROVE h + g[h] <= k
  <2>1. CASE h = p
    <3>1. q <= k /\ k # q /\ k \in Nat
      BY <1>1, <1>2, <1>5, <2>1
    <3> QED
      BY <1>1, <1>2, <1>3, <2>1, <3>1
  <2>2. CASE h # p
    BY <1>1, <1>3, <1>5, <2>2
  <2> QED
    BY <2>1, <2>2
<1>6. ASSUME NEW x \in F PROVE \E h \in J : h <= x /\ x < h + g[h]
  <2>1. PICK h \in K : h <= x /\ x < h + len[h]
    BY <1>1
  <2>2. x \in Nat
    BY <1>1
  <2>3. CASE h = q \/ h = p
    <3>1. p <= x /\ x < p + g[p]
      BY <1>2, <1>3, <2>1, <2>2, <2>3
    <3> QED
      BY <1>3, <3>1
  <2>4. CASE h # q /\ h # p
    BY <1>3, <2>1, <2>4
  <2> QED
    BY <2>3, <2>4
<1>7. J \subseteq 0..(M - 1) /\ F \subseteq 0..(M - 1)
  BY <1>1
<1> HIDE DEF J
<1>8. Parts(g, J, F, M)
  BY <1>4, <1>5, <1>6, <1>7 DEF Parts
<1> QED
  BY <1>2, <1>3, <1>8 DEF J

\* Pieces touch only where b is one of them; only where b is the first of them
Around(len, K, b) == \A h, k \in K : h + len[h] = k => h = b \/ k = b
Ahead(len, K, b)  == \A h, k \in K : h + len[h] = k => h = b

\* The pieces with one more that begins at base
More(len, H, base, n, g) == \A h \in H \cup {base} : g[h] = IF h = base THEN n ELSE len[h]

\* Pages that were in no piece become one.
LEMMA AddPart ==
    ASSUME NEW M \in Nat \ {0}, NEW len, NEW H, NEW F, Parts(len, H, F, M), NEW base \in Nat, NEW n \in Nat \ {0},
           base + n <= M, base..(base + n - 1) \cap F = {}, NEW g, More(len, H, base, n, g)
    PROVE  /\ Parts(g, H \cup {base}, F \cup base..(base + n - 1), M) /\ base \notin H
           /\ Whole(len, H) => Around(g, H \cup {base}, base)
<1> DEFINE r == base..(base + n - 1)
           K == H \cup {base}
           G == F \cup r
<1>1. /\ H \subseteq 0..(M - 1) /\ F \subseteq 0..(M - 1)
      /\ \A h \in H : /\ h \in Nat /\ len[h] \in Nat \ {0} /\ h + len[h] <= M
                      /\ \A x \in Nat : h <= x /\ x < h + len[h] => x \in F
      /\ \A h, k \in H : h < k => h + len[h] <= k
      /\ \A x \in F : \E h \in H : h <= x /\ x < h + len[h]
  BY DEF Parts
<1>2. /\ \A x \in Nat : x \in r <=> base <= x /\ x < base + n
      /\ \A x \in r : x \in Nat
  OBVIOUS
<1>3. \A x \in r : x \notin F
  OBVIOUS
<1>4. G \subseteq 0..(M - 1) /\ K \subseteq 0..(M - 1)
  BY <1>1
<1> HIDE DEF r
<1>5. base \in r /\ base \notin F
  BY <1>2, <1>3
<1>6. base \notin H
  <2> SUFFICES ASSUME base \in H PROVE FALSE
    OBVIOUS
  <2>1. base <= base /\ base < base + len[base]
    BY <1>1
  <2> QED
    BY <1>1, <1>5, <2>1
<1>7. g[base] = n /\ \A h \in H : g[h] = len[h]
  BY <1>6 DEF More
<1>8. ASSUME NEW h \in K
      PROVE  /\ g[h] \in Nat \ {0} /\ h + g[h] <= M
             /\ \A x \in Nat : h <= x /\ x < h + g[h] => x \in G
  <2>1. CASE h = base
    BY <1>2, <1>7, <2>1
  <2>2. CASE h \in H
    BY <1>1, <1>7, <2>2
  <2> QED
    BY <2>1, <2>2
<1>9. ASSUME NEW h \in K, NEW k \in K, h < k PROVE h + g[h] <= k
  <2>1. CASE h = base
    <3>1. k \in H /\ k \in Nat /\ base < k
      BY <1>1, <1>9, <2>1
    <3>2. k \in F
      <4>1. k <= k /\ k < k + len[k]
        BY <1>1, <3>1
      <4> QED
        BY <1>1, <3>1, <4>1
    <3>3. ~ (k < base + n)
      BY <1>2, <1>3, <3>1, <3>2
    <3> QED
      BY <1>7, <2>1, <3>1, <3>3
  <2>2. CASE h # base /\ k = base
    <3>1. h \in H /\ h \in Nat /\ len[h] \in Nat
      BY <1>1, <2>2
    <3>2. ~ (base < h + len[h])
      BY <1>1, <1>5, <1>9, <2>2, <3>1
    <3> QED
      BY <1>7, <2>2, <3>1, <3>2
  <2>3. CASE h # base /\ k # base
    BY <1>1, <1>7, <1>9, <2>3
  <2> QED
    BY <2>1, <2>2, <2>3
<1>10. ASSUME NEW x \in G PROVE \E h \in K : h <= x /\ x < h + g[h]
  <2>1. CASE x \in r
    BY <1>2, <1>7, <2>1
  <2>2. CASE x \in F
    BY <1>1, <1>7, <2>2
  <2> QED
    BY <2>1, <2>2
<1>11. ASSUME Whole(len, H) PROVE Around(g, K, base)
  <2> SUFFICES ASSUME NEW h \in K, NEW k \in K, h + g[h] = k, h # base, k # base PROVE FALSE
    BY DEF Around
  <2> QED
    BY <1>7, <1>11 DEF Whole
<1> HIDE DEF K, G
<1>12. Parts(g, K, G, M)
  BY <1>4, <1>8, <1>9, <1>10 DEF Parts
<1> QED
  BY <1>6, <1>11, <1>12 DEF K, G, r

\* What no piece of its own begins or ends in the middle of is one of the
\* longest runs.
LEMMA LongestRun ==
    ASSUME NEW M \in Nat \ {0}, NEW len, NEW K, NEW F, Parts(len, K, F, M), Whole(len, K), NEW h \in K
    PROVE  h - 1 \notin F /\ h + len[h] \notin F
<1>1. /\ \A x \in F : x \in Nat
      /\ \A k \in K : k \in Nat /\ len[k] \in Nat \ {0}
      /\ \A k, m \in K : k < m => k + len[k] <= m
      /\ \A x \in F : \E k \in K : k <= x /\ x < k + len[k]
      /\ \A k, m \in K : k + len[k] # m
  BY DEF Parts, Whole
<1>2. ASSUME h - 1 \in F PROVE FALSE
  <2>1. PICK k \in K : k <= h - 1 /\ h - 1 < k + len[k]
    BY <1>1, <1>2
  <2>2. k + len[k] = h
    BY <1>1, <2>1
  <2> QED
    BY <1>1, <2>2
<1>3. ASSUME h + len[h] \in F PROVE FALSE
  <2>1. PICK k \in K : k <= h + len[h] /\ h + len[h] < k + len[k]
    BY <1>1, <1>3
  <2>2. ~ (k <= h)
    <3>1. k # h
      BY <1>1, <2>1
    <3> QED
      BY <1>1, <2>1, <3>1
  <2>3. h + len[h] = k
    BY <1>1, <2>1, <2>2
  <2> QED
    BY <1>1, <2>3
<1> QED
  BY <1>2, <1>3

-----------------------------------------------------------------------------
\* Pieces of memory apart: of s cells from b on, of t from c on
Beside(b, s, c, t) == b + s <= c \/ c + t <= b

\* Blocks <<start, order>>, of orders in O and sizes S, cut lo..(hi - 1) into
\* pieces.
Tiles(T, lo, hi, O, S) ==
    /\ lo \in Nat /\ hi \in Nat
    /\ \A t \in T : t = <<t[1], t[2]>> /\ t[1] \in Nat /\ t[2] \in O
    /\ \A b \in Nat, o \in O : <<b, o>> \in T => lo <= b /\ b + S[o] <= hi
    /\ \A b, c \in Nat, o, l \in O :
          <<b, o>> \in T /\ <<c, l>> \in T /\ ~ (b = c /\ o = l) => Beside(b, S[o], c, S[l])
    /\ \A x \in Nat : lo <= x /\ x < hi =>
          \E b \in Nat, o \in O : <<b, o>> \in T /\ b <= x /\ x < b + S[o]

\* Blocks of order m are twice those of order o.
Twice(S, O, o, m) == S \in [O -> Nat \ {0}] /\ o \in O /\ m \in O /\ S[m] = 2 * S[o]

\* What lies beside a piece lies beside its halves, and the other way round.
LEMMA Halves ==
    ASSUME NEW b \in Nat, NEW s \in Nat \ {0}, NEW c \in Nat, NEW t \in Nat \ {0}
    PROVE  /\ Beside(b, 2 * s, c, t) => Beside(b, s, c, t) /\ Beside(b + s, s, c, t)
           /\ Beside(b, s, c, t) /\ Beside(b + s, s, c, t) => Beside(b, 2 * s, c, t)
           /\ Beside(b, t, c, s) <=> Beside(c, s, b, t)
           /\ Beside(b, s, b + s, s) /\ ~ Beside(b, s, b, t) /\ ~ Beside(b, 2 * s, b + s, t)
           /\ b + s \in Nat /\ b + s # b
BY DEF Beside

\* A block is cut into its halves.
LEMMA SplitBlock ==
    ASSUME NEW lo \in Nat, NEW hi \in Nat, NEW O, NEW S \in [O -> Nat \ {0}],
           NEW T, Tiles(T, lo, hi, O, S), NEW b \in Nat, NEW o \in O, NEW m \in O,
           S[m] = 2 * S[o], <<b, m>> \in T
    PROVE  LET c == b + S[o]
           IN  /\ c \in Nat /\ c < hi /\ <<b, o>> \notin T /\ <<c, o>> \notin T
               /\ Tiles((T \ {<<b, m>>}) \cup {<<b, o>>, <<c, o>>}, lo, hi, O, S)
<1> DEFINE c == b + S[o]
           U == (T \ {<<b, m>>}) \cup {<<b, o>>, <<c, o>>}
<1>1. /\ \A t \in T : t = <<t[1], t[2]>> /\ t[1] \in Nat /\ t[2] \in O
      /\ \A d \in Nat, l \in O : <<d, l>> \in T => lo <= d /\ d + S[l] <= hi
      /\ \A d, e \in Nat, k, l \in O :
          <<d, k>> \in T /\ <<e, l>> \in T /\ ~ (d = e /\ k = l) => Beside(d, S[k], e, S[l])
      /\ \A x \in Nat : lo <= x /\ x < hi =>
          \E d \in Nat, l \in O : <<d, l>> \in T /\ d <= x /\ x < d + S[l]
  BY DEF Tiles
<1>2. S[o] \in Nat \ {0} /\ S[m] = 2 * S[o] /\ \A l \in O : S[l] \in Nat \ {0}
  OBVIOUS
<1>3. c \in Nat /\ c # b /\ c = b + S[o]
  BY <1>2
<1>4. lo <= b /\ b + 2 * S[o] <= hi
  BY <1>1, <1>2
<1>5. lo <= c /\ c < hi /\ c + S[o] <= hi /\ b + S[o] <= hi
  BY <1>2, <1>3, <1>4
<1> HIDE DEF c
<1>6. \A d \in Nat, l \in O : <<d, l>> \in T /\ ~ (d = b /\ l = m) =>
          Beside(b, S[o], d, S[l]) /\ Beside(c, S[o], d, S[l])
  <2> SUFFICES ASSUME NEW d \in Nat, NEW l \in O, <<d, l>> \in T, ~ (d = b /\ l = m)
               PROVE  Beside(b, S[o], d, S[l]) /\ Beside(c, S[o], d, S[l])
    OBVIOUS
  <2>1. Beside(b, 2 * S[o], d, S[l])
    BY <1>1, <1>2
  <2> QED
    BY <1>2, <1>3, <2>1, Halves
<1>7. <<b, o>> \notin T /\ <<c, o>> \notin T
  <2>1. m # o
    BY <1>2
  <2>2. ~ Beside(b, S[o], b, S[o]) /\ ~ Beside(c, S[o], c, S[o])
    BY <1>2, <1>3 DEF Beside
  <2> QED
    BY <1>3, <1>6, <2>1, <2>2
<1>8. \A d \in Nat, l \in O :
          <<d, l>> \in U <=> \/ <<d, l>> \in T /\ ~ (d = b /\ l = m)
                             \/ l = o /\ (d = b \/ d = c)
  OBVIOUS
<1>9. \A t \in U : t = <<t[1], t[2]>> /\ t[1] \in Nat /\ t[2] \in O
  BY <1>1, <1>3
<1> HIDE DEF U
<1>10. \A d \in Nat, l \in O : <<d, l>> \in U => lo <= d /\ d + S[l] <= hi
  BY <1>1, <1>4, <1>5, <1>8
<1>11. ASSUME NEW d \in Nat, NEW e \in Nat, NEW k \in O, NEW l \in O,
              <<d, k>> \in U, <<e, l>> \in U, ~ (d = e /\ k = l)
       PROVE  Beside(d, S[k], e, S[l])
  <2>1. \A x, y \in Nat : \A i, j \in O : Beside(x, S[i], y, S[j]) <=> Beside(y, S[j], x, S[i])
    BY <1>2 DEF Beside
  <2>2. Beside(b, S[o], c, S[o])
    BY <1>2, <1>3 DEF Beside
  <2> QED
    BY <1>1, <1>3, <1>6, <1>8, <1>11, <2>1, <2>2
<1>12. ASSUME NEW x \in Nat, lo <= x, x < hi
       PROVE  \E d \in Nat, l \in O : <<d, l>> \in U /\ d <= x /\ x < d + S[l]
  <2>1. PICK d \in Nat, l \in O : <<d, l>> \in T /\ d <= x /\ x < d + S[l]
    BY <1>1, <1>12
  <2>2. CASE ~ (d = b /\ l = m)
    BY <1>8, <2>1, <2>2
  <2>3. CASE d = b /\ l = m
    <3>1. b <= x /\ x < b + 2 * S[o]
      BY <1>2, <2>1, <2>3
    <3>2. (b <= x /\ x < b + S[o]) \/ (c <= x /\ x < c + S[o])
      BY <1>2, <1>3, <3>1
    <3> QED
      BY <1>3, <1>8, <3>2
  <2> QED
    BY <2>2, <2>3
<1>13. Tiles(U, lo, hi, O, S)
  BY <1>9, <1>10, <1>11, <1>12 DEF Tiles
<1> QED
  BY <1>3, <1>5, <1>7, <1>13 DEF c, U

\* The same, to be cited.
LEMMA SplitTiles ==
    ASSUME NEW T, NEW lo, NEW hi, NEW O, NEW S, Tiles(T, lo, hi, O, S),
           NEW o, NEW m, Twice(S, O, o, m), NEW b, <<b, m>> \in T
    PROVE  LET c == b + S[o]
           IN  /\ c \in Nat /\ c < hi /\ <<b, o>> \notin T /\ <<c, o>> \notin T
               /\ Tiles((T \ {<<b, m>>}) \cup {<<b, o>>, <<c, o>>}, lo, hi, O, S)
<1>1. lo \in Nat /\ hi \in Nat /\ S \in [O -> Nat \ {0}] /\ o \in O /\ m \in O /\ S[m] = 2 * S[o]
  BY DEF Tiles, Twice
<1>2. b \in Nat
  BY DEF Tiles
<1> QED
  BY <1>1, <1>2, SplitBlock

\* Two halves are joined.
LEMMA JoinBlocks ==
    ASSUME NEW lo \in Nat, NEW hi \in Nat, NEW O, NEW S \in [O -> Nat \ {0}],
           NEW T, Tiles(T, lo, hi, O, S), NEW b \in Nat, NEW o \in O, NEW m \in O,
           S[m] = 2 * S[o], NEW c \in Nat, c = b + S[o], <<b, o>> \in T, <<c, o>> \in T
    PROVE  /\ <<b, m>> \notin T
           /\ Tiles((T \ {<<b, o>>, <<c, o>>}) \cup {<<b, m>>}, lo, hi, O, S)
<1> DEFINE U == (T \ {<<b, o>>, <<c, o>>}) \cup {<<b, m>>}
<1>1. /\ \A t \in T : t = <<t[1], t[2]>> /\ t[1] \in Nat /\ t[2] \in O
      /\ \A d \in Nat, l \in O : <<d, l>> \in T => lo <= d /\ d + S[l] <= hi
      /\ \A d, e \in Nat, k, l \in O :
          <<d, k>> \in T /\ <<e, l>> \in T /\ ~ (d = e /\ k = l) => Beside(d, S[k], e, S[l])
      /\ \A x \in Nat : lo <= x /\ x < hi =>
          \E d \in Nat, l \in O : <<d, l>> \in T /\ d <= x /\ x < d + S[l]
  BY DEF Tiles
<1>2. S[o] \in Nat \ {0} /\ S[m] = 2 * S[o] /\ m # o /\ \A l \in O : S[l] \in Nat \ {0}
  OBVIOUS
<1>3. lo <= b /\ c + S[o] <= hi /\ b # c
  BY <1>1, <1>2
<1>4. lo <= b /\ b + S[m] <= hi
  BY <1>2, <1>3
<1>5. \A d \in Nat, l \in O : <<d, l>> \in T /\ ~ (l = o /\ (d = b \/ d = c)) =>
          Beside(b, S[m], d, S[l])
  <2> SUFFICES ASSUME NEW d \in Nat, NEW l \in O, <<d, l>> \in T, ~ (l = o /\ (d = b \/ d = c))
               PROVE  Beside(b, S[m], d, S[l])
    OBVIOUS
  <2>1. Beside(b, S[o], d, S[l]) /\ Beside(b + S[o], S[o], d, S[l])
    BY <1>1
  <2>2. S[o] \in Nat \ {0} /\ S[l] \in Nat \ {0}
    BY <1>2
  <2>3. Beside(b, 2 * S[o], d, S[l])
    BY <2>1, <2>2, Halves
  <2> QED
    BY <1>2, <2>3
<1>6. <<b, m>> \notin T
  <2>1. ~ Beside(b, S[m], b, S[m])
    BY <1>2 DEF Beside
  <2> QED
    BY <1>2, <1>5, <2>1
<1>7. \A d \in Nat, l \in O :
          <<d, l>> \in U <=> \/ <<d, l>> \in T /\ ~ (l = o /\ (d = b \/ d = c))
                             \/ l = m /\ d = b
  OBVIOUS
<1>8. \A t \in U : t = <<t[1], t[2]>> /\ t[1] \in Nat /\ t[2] \in O
  BY <1>1
<1> HIDE DEF U
<1>9. \A d \in Nat, l \in O : <<d, l>> \in U => lo <= d /\ d + S[l] <= hi
  BY <1>1, <1>4, <1>7
<1>10. ASSUME NEW d \in Nat, NEW e \in Nat, NEW k \in O, NEW l \in O,
              <<d, k>> \in U, <<e, l>> \in U, ~ (d = e /\ k = l)
       PROVE  Beside(d, S[k], e, S[l])
  <2>1. \A x, y \in Nat : \A i, j \in O : Beside(x, S[i], y, S[j]) <=> Beside(y, S[j], x, S[i])
    BY <1>2 DEF Beside
  <2> QED
    BY <1>1, <1>5, <1>7, <1>10, <2>1
<1>11. ASSUME NEW x \in Nat, lo <= x, x < hi
       PROVE  \E d \in Nat, l \in O : <<d, l>> \in U /\ d <= x /\ x < d + S[l]
  <2>1. PICK d \in Nat, l \in O : <<d, l>> \in T /\ d <= x /\ x < d + S[l]
    BY <1>1, <1>11
  <2>2. CASE ~ (l = o /\ (d = b \/ d = c))
    BY <1>7, <2>1, <2>2
  <2>3. CASE l = o /\ (d = b \/ d = c)
    <3>1. b <= x /\ x < b + S[m]
      BY <1>2, <2>1, <2>3
    <3> QED
      BY <1>7, <3>1
  <2> QED
    BY <2>2, <2>3
<1>12. Tiles(U, lo, hi, O, S)
  BY <1>8, <1>9, <1>10, <1>11 DEF Tiles
<1> QED
  BY <1>6, <1>12 DEF U

\* The same, to be cited.
LEMMA JoinTiles ==
    ASSUME NEW T, NEW lo, NEW hi, NEW O, NEW S, Tiles(T, lo, hi, O, S),
           NEW o, NEW m, Twice(S, O, o, m), NEW b, NEW c, c = b + S[o],
           <<b, o>> \in T, <<c, o>> \in T
    PROVE  /\ <<b, m>> \notin T
           /\ Tiles((T \ {<<b, o>>, <<c, o>>}) \cup {<<b, m>>}, lo, hi, O, S)
<1>1. lo \in Nat /\ hi \in Nat /\ S \in [O -> Nat \ {0}] /\ o \in O /\ m \in O /\ S[m] = 2 * S[o]
  BY DEF Tiles, Twice
<1>2. b \in Nat /\ c \in Nat
  BY DEF Tiles
<1> QED
  BY <1>1, <1>2, JoinBlocks

\* Sizes double from one order to the next.
Doubling(S, M) ==
    /\ S \in [0..M -> Nat \ {0}]
    /\ \A o \in 0..M : o + 1 \in 0..M => S[o + 1] = 2 * S[o]

\* Intervals of numbers with one end taken off.
LEMMA Ends ==
    ASSUME NEW a \in Int, NEW b \in Int, a <= b
    PROVE  a \in a..b /\ b \in a..b /\ a..b = {a} \cup (a + 1)..b /\ a..b = {b} \cup a..(b - 1)
OBVIOUS

\* A block is halved down to an order, the upper halves left as they are.
LEMMA SplitDown ==
    ASSUME NEW lo, NEW hi, NEW M \in Nat, NEW S, Doubling(S, M),
           NEW T, Tiles(T, lo, hi, 0..M, S), NEW b \in Nat, NEW from \in 0..M,
           NEW order \in 0..from, <<b, from>> \in T
    PROVE  LET upper == {<<b + S[j], j>> : j \in order..(from - 1)}
           IN  /\ Tiles(((T \ {<<b, from>>}) \cup {<<b, order>>}) \cup upper, lo, hi, 0..M, S)
               /\ \A j \in order..(from - 1) :
                    b + S[j] \in Nat /\ b + S[j] < hi /\ <<b + S[j], j>> \notin T
<1> DEFINE O == 0..M
           upper(o) == {<<b + S[j], j>> : j \in o..(from - 1)}
           U(o) == ((T \ {<<b, from>>}) \cup {<<b, o>>}) \cup upper(o)
           P(o) == /\ Tiles(U(o), lo, hi, O, S)
                   /\ \A j \in o..(from - 1) :
                        b + S[j] \in Nat /\ b + S[j] < hi /\ <<b + S[j], j>> \notin T
           I == {k \in Nat : k <= from - order => P(from - k)}
<1>1. /\ S \in [O -> Nat \ {0}]
      /\ \A o \in O : o \in Nat /\ S[o] \in Nat \ {0} /\ (o + 1 \in O => S[o + 1] = 2 * S[o])
      /\ from \in O /\ from \in Nat /\ order \in Nat /\ order <= from /\ from <= M
  BY DEF Doubling
<1>2. \A o \in O : <<b, o>> \in T => o = from
  <2> SUFFICES ASSUME NEW o \in O, <<b, o>> \in T, o # from PROVE FALSE
    OBVIOUS
  <2>1. Beside(b, S[o], b, S[from])
    BY <1>1 DEF Tiles
  <2>2. ~ Beside(b, S[o], b, S[from])
    BY <1>1 DEF Beside
  <2> QED
    BY <2>1, <2>2
<1>3. 0 \in I
  <2>1. from - 0 = from /\ from..(from - 1) = {}
    BY <1>1
  <2>2. U(from) = T
    BY <2>1
  <2> QED
    BY <2>1, <2>2
<1>4. ASSUME NEW k \in Nat, k \in I PROVE k + 1 \in I
  <2> SUFFICES ASSUME k + 1 <= from - order PROVE P(from - (k + 1))
    OBVIOUS
  <2> DEFINE m == from - k
             o == m - 1
             c == b + S[o]
  <2>1. P(m)
    BY <1>1, <1>4
  <2>2. /\ m \in O /\ o \in O /\ S[m] = 2 * S[o] /\ from - (k + 1) = o /\ o # m
        /\ o \in o..(from - 1) /\ o..(from - 1) = {o} \cup m..(from - 1)
    <3>1. /\ m \in O /\ o \in O /\ o + 1 = m /\ from - (k + 1) = o /\ o # m
          /\ o \in Int /\ from - 1 \in Int /\ o <= from - 1
      BY <1>1
    <3>2. o \in o..(from - 1) /\ o..(from - 1) = {o} \cup (o + 1)..(from - 1)
      BY <3>1, Ends
    <3> QED
      BY <1>1, <3>1, <3>2
  <2>3. /\ S[o] \in Nat \ {0} /\ (\A j \in m..(from - 1) : j \in O /\ b + S[j] # b /\ j # o)
        /\ o # from /\ c # b
    <3>1. S[o] \in Nat \ {0}
      BY <1>1, <2>2
    <3>2. c # b
      BY <3>1
    <3>3. o # from /\ \A j \in m..(from - 1) : j \in O /\ j # o
      BY <1>1
    <3>4. \A j \in O : b + S[j] # b
      BY <1>1
    <3> QED
      BY <3>1, <3>2, <3>3, <3>4
  <2> HIDE DEF m, o
  <2>4. /\ Tiles(U(m), lo, hi, O, S)
        /\ \A j \in m..(from - 1) :
              b + S[j] \in Nat /\ b + S[j] < hi /\ <<b + S[j], j>> \notin T
    BY <2>1
  <2>5. <<b, m>> \in U(m)
    OBVIOUS
  <2>6. /\ c \in Nat /\ c < hi /\ <<c, o>> \notin U(m)
        /\ Tiles((U(m) \ {<<b, m>>}) \cup {<<b, o>>, <<c, o>>}, lo, hi, O, S)
    <3>1. Twice(S, O, o, m)
      BY <1>1, <2>2 DEF Twice
    <3>2. Tiles(U(m), lo, hi, O, S)
      BY <2>4
    <3> HIDE DEF U, O, P, I, upper
    <3>3. /\ b + S[o] \in Nat /\ b + S[o] < hi /\ <<b + S[o], o>> \notin U(m)
          /\ Tiles((U(m) \ {<<b, m>>}) \cup {<<b, o>>, <<b + S[o], o>>}, lo, hi, O, S)
      BY <2>5, <3>1, <3>2, SplitTiles
    <3> QED
      BY <3>3
  <2>7. <<b, m>> \notin T \ {<<b, from>>} /\ <<b, m>> \notin upper(m)
    BY <1>2, <2>2, <2>3
  <2>8. upper(o) = upper(m) \cup {<<c, o>>}
    BY <2>2
  <2>9. (U(m) \ {<<b, m>>}) \cup {<<b, o>>, <<c, o>>} = U(o)
    <3> HIDE DEF upper, c
    <3> QED
      BY <2>7, <2>8
  <2>10. <<c, o>> \notin T
    <3>1. <<c, o>> # <<b, from>>
      BY <2>3
    <3> QED
      BY <2>6, <3>1
  <2>11. P(o)
    <3> HIDE DEF U, O
    <3> QED
      BY <2>2, <2>4, <2>6, <2>9, <2>10
  <2> QED
    BY <2>2, <2>11
<1>5. P(order)
  <2>1. from - order \in Nat /\ from - (from - order) = order /\ from - order <= from - order
    BY <1>1
  <2>2. from - order \in I
    <3> HIDE DEF I
    <3> QED
      BY <1>3, <1>4, <2>1, NatInd
  <2>3. P(from - (from - order))
    <3> HIDE DEF P
    <3> QED
      BY <2>1, <2>2
  <2> HIDE DEF P
  <2> QED
    BY <2>1, <2>3
<1> QED
  BY <1>5

\* A block at[order] climbs to order top: of each order below, it has a buddy.
Climbs(at, bud, T, S, order, top) ==
    /\ at[order] \in Nat /\ <<at[order], order>> \in T
    /\ \A o \in order..(top - 1) :
          /\ bud[o] \in Nat /\ <<bud[o], o>> \in T
          /\ \/ bud[o] = at[o] + S[o] /\ at[o + 1] = at[o]
             \/ at[o] = bud[o] + S[o] /\ at[o + 1] = bud[o]

\* What it has become of T at order top
Joined(at, bud, T, order, top) ==
    ((T \ {<<at[order], order>>}) \ {<<bud[j], j>> : j \in order..(top - 1)}) \cup {<<at[top], top>>}
Climbed(at, bud, T, order, top) ==
    /\ at[top] \in Nat
    /\ at[top] = at[order] \/ \E j \in order..(top - 1) : at[top] = bud[j]
    /\ top # order => <<at[top], top>> \notin T

\* A block is joined with its buddies, one order after the other.
LEMMA JoinUp ==
    ASSUME NEW lo, NEW hi, NEW M \in Nat, NEW S, Doubling(S, M),
           NEW T, Tiles(T, lo, hi, 0..M, S), NEW order \in 0..M, NEW top \in order..M,
           NEW at, NEW bud, Climbs(at, bud, T, S, order, top)
    PROVE  Tiles(Joined(at, bud, T, order, top), lo, hi, 0..M, S) /\ Climbed(at, bud, T, order, top)
<1> DEFINE O == 0..M
           a == at[order]
           taken(o) == {<<bud[j], j>> : j \in order..(o - 1)}
           U(o) == ((T \ {<<a, order>>}) \ taken(o)) \cup {<<at[o], o>>}
           P(o) == /\ Tiles(U(o), lo, hi, O, S) /\ at[o] \in Nat
                   /\ at[o] = a \/ \E j \in order..(o - 1) : at[o] = bud[j]
                   /\ o # order => <<at[o], o>> \notin T
           I == {k \in Nat : k <= top - order => P(order + k)}
<1> USE DEF Climbs
<1>1. /\ S \in [O -> Nat \ {0}]
      /\ \A o \in O : o \in Nat /\ S[o] \in Nat \ {0} /\ (o + 1 \in O => S[o + 1] = 2 * S[o])
      /\ order \in O /\ order \in Nat /\ top \in Nat /\ order <= top /\ top <= M
  BY DEF Doubling
<1>2. 0 \in I
  <2>1. order + 0 = order /\ order..(order - 1) = {}
    BY <1>1
  <2>2. U(order) = T
    BY <2>1
  <2> QED
    BY <2>1, <2>2
<1>3. ASSUME NEW k \in Nat, k \in I PROVE k + 1 \in I
  <2> SUFFICES ASSUME k + 1 <= top - order PROVE P(order + (k + 1))
    OBVIOUS
  <2> DEFINE o == order + k
             m == o + 1
  <2>1. P(o)
    BY <1>1, <1>3
  <2>2. /\ m \in O /\ o \in O /\ m # o /\ order + (k + 1) = m
        /\ o \in order..(top - 1) /\ order..(m - 1) = {o} \cup order..(o - 1)
        /\ m # order /\ \A j \in order..(o - 1) : j # o /\ j # m
    <3>1. /\ m \in O /\ o \in O /\ m # o /\ order + (k + 1) = m /\ m - 1 = o
          /\ o \in order..(top - 1) /\ m # order /\ order \in Int /\ o \in Int /\ order <= o
      BY <1>1
    <3>2. order..o = {o} \cup order..(o - 1)
      BY <3>1, Ends
    <3>3. \A j \in order..(o - 1) : j # o /\ j # m
      BY <3>1
    <3> QED
      BY <3>1, <3>2, <3>3
  <2>3. S[m] = 2 * S[o] /\ S[o] \in Nat \ {0}
    BY <1>1, <2>2
  <2>4. /\ bud[o] \in Nat /\ <<bud[o], o>> \in T
        /\ \/ bud[o] = at[o] + S[o] /\ at[m] = at[o]
           \/ at[o] = bud[o] + S[o] /\ at[m] = bud[o]
    BY <2>2
  <2> HIDE DEF o, m
  <2>5. Tiles(U(o), lo, hi, O, S) /\ at[o] \in Nat /\ (at[o] = a \/ \E j \in order..(o - 1) : at[o] = bud[j])
    BY <2>1
  <2>6. bud[o] # at[o]
    BY <2>3, <2>4, <2>5
  <2>7. <<at[o], o>> \in U(o) /\ <<bud[o], o>> \in U(o)
    <3>1. <<bud[o], o>> \notin taken(o)
      BY <2>2
    <3>2. <<bud[o], o>> # <<a, order>>
      <4>1. CASE o = order
        BY <2>6, <4>1
      <4>2. CASE o # order
        BY <4>2
      <4> QED
        BY <4>1, <4>2
    <3> QED
      BY <2>4, <3>1, <3>2
  <2>8. /\ <<at[m], m>> \notin U(o) /\ at[m] \in Nat
        /\ Tiles((U(o) \ {<<at[o], o>>, <<bud[o], o>>}) \cup {<<at[m], m>>}, lo, hi, O, S)
    <3>0. /\ S \in [O -> Nat \ {0}] /\ m \in O /\ o \in O /\ S[m] = 2 * S[o]
          /\ at[o] \in Nat /\ bud[o] \in Nat
      BY <1>1, <2>2, <2>3, <2>4, <2>5
    <3>4. Twice(S, O, o, m)
      BY <3>0 DEF Twice
    <3>3. Tiles(U(o), lo, hi, O, S)
      BY <2>5
    <3> HIDE DEF U, O, P, I, taken
    <3>1. CASE bud[o] = at[o] + S[o] /\ at[m] = at[o]
      <4>1. /\ <<at[o], m>> \notin U(o)
            /\ Tiles((U(o) \ {<<at[o], o>>, <<bud[o], o>>}) \cup {<<at[o], m>>}, lo, hi, O, S)
        BY <2>7, <3>1, <3>3, <3>4, JoinTiles
      <4> QED
        BY <3>0, <3>1, <4>1
    <3>2. CASE at[o] = bud[o] + S[o] /\ at[m] = bud[o]
      <4>1. {<<bud[o], o>>, <<at[o], o>>} = {<<at[o], o>>, <<bud[o], o>>}
        OBVIOUS
      <4>2. /\ <<bud[o], m>> \notin U(o)
            /\ Tiles((U(o) \ {<<bud[o], o>>, <<at[o], o>>}) \cup {<<bud[o], m>>}, lo, hi, O, S)
        BY <2>7, <3>2, <3>3, <3>4, JoinTiles
      <4> QED
        BY <3>0, <3>2, <4>1, <4>2
    <3> QED
      BY <2>4, <3>1, <3>2
  <2>9. taken(m) = taken(o) \cup {<<bud[o], o>>}
    BY <2>2
  <2>10. (U(o) \ {<<at[o], o>>, <<bud[o], o>>}) \cup {<<at[m], m>>} = U(m)
    <3>1. <<at[o], o>> \notin (T \ {<<a, order>>}) \ taken(o)
      <4>1. CASE o = order
        BY <4>1
      <4>2. CASE o # order
        BY <2>1, <4>2
      <4> QED
        BY <4>1, <4>2
    <3> HIDE DEF taken, a
    <3> QED
      BY <2>9, <3>1
  <2>11. <<at[m], m>> \notin T
    <3>1. <<at[m], m>> # <<a, order>> /\ <<at[m], m>> \notin taken(o)
      BY <2>2
    <3> QED
      BY <2>8, <3>1
  <2>12. at[m] = a \/ \E j \in order..(m - 1) : at[m] = bud[j]
    BY <2>2, <2>4, <2>5
  <2>13. P(m)
    <3> HIDE DEF U, O, a
    <3> QED
      BY <2>8, <2>10, <2>11, <2>12
  <2> QED
    BY <2>2, <2>13
<1>4. P(top)
  <2>1. top - order \in Nat /\ order + (top - order) = top
    BY <1>1
  <2>2. top - order \in I
    <3> HIDE DEF I
    <3> QED
      BY <1>2, <1>3, <2>1, NatInd
  <2> QED
    BY <2>1, <2>2
<1>5. U(top) = Joined(at, bud, T, order, top)
  BY DEF Joined
<1>6. Climbed(at, bud, T, order, top)
  <2> HIDE DEF U
  <2> QED
    BY <1>4 DEF Climbed
<1> HIDE DEF U
<1> QED
  BY <1>4, <1>5, <1>6

-----------------------------------------------------------------------------
\* Division by a size.
LEMMA Quotient ==
    ASSUME NEW s \in Nat \ {0}, NEW x \in Nat
    PROVE  /\ x \div s \in Nat /\ s * (x \div s) \in Nat
           /\ s * (x \div s) <= x /\ x < s * (x \div s) + s
<1>1. x \div s \in Nat /\ x % s \in 0..(s - 1) /\ x = s * (x \div s) + (x % s)
  OBVIOUS
<1>2. s * (x \div s) \in Nat
  BY <1>1
<1> QED
  BY <1>1, <1>2

\* There is one quotient.
LEMMA QuotientIs ==
    ASSUME NEW s \in Nat \ {0}, NEW x \in Nat, NEW q \in Nat, s * q <= x, x < s * q + s
    PROVE  x \div s = q
<1> DEFINE Y == x \div s
<1>1. Y \in Nat /\ s * Y \in Nat /\ s * Y <= x /\ x < s * Y + s
  BY Quotient
<1>2. s * q \in Nat /\ \A p, t \in Nat : p < t => s * p + s <= s * t
  OBVIOUS
<1> HIDE DEF Y
<1>3. ~ (Y < q) /\ ~ (q < Y)
  <2> DEFINE u == s * Y
             v == s * q
  <2>1. u \in Nat /\ v \in Nat /\ u <= x /\ x < u + s /\ v <= x /\ x < v + s
        /\ (Y < q => u + s <= v) /\ (q < Y => v + s <= u)
    BY <1>1, <1>2
  <2> HIDE DEF u, v
  <2> QED
    BY <2>1
<1>4. Y = q
  BY <1>1, <1>3
<1> QED
  BY <1>4 DEF Y

\* get_buddy, for a block of s pages at x
BuddyAt(x, s) == IF (x \div s) % 2 = 0 THEN x + s ELSE x - s

\* The two halves of a block are each other's buddies.
LEMMA Buddies ==
    ASSUME NEW s \in Nat \ {0}, NEW x \in Nat
    PROVE  LET y == BuddyAt(x, s)
           IN  /\ y \in Nat /\ (y = x + s \/ x = y + s) /\ BuddyAt(y, s) = x
<1> DEFINE q == x \div s
           p == s * q
           y == BuddyAt(x, s)
<1>1. q \in Nat /\ p \in Nat /\ p <= x /\ x < p + s
  BY Quotient
<1>2. CASE q % 2 = 0
  <2>1. y = x + s /\ y \in Nat
    BY <1>2 DEF BuddyAt
  <2>2. s * (q + 1) = p + s
    BY <1>1
  <2>3. y \div s = q + 1
    <3>1. p + s <= y /\ y < (p + s) + s
      BY <1>1, <2>1
    <3> HIDE DEF p, y, q
    <3> QED
      BY <1>1, <2>1, <2>2, <3>1, QuotientIs
  <2>4. (q + 1) % 2 # 0
    BY <1>1, <1>2
  <2>5. BuddyAt(y, s) = x
    <3>1. BuddyAt(y, s) = y - s
      BY <2>3, <2>4 DEF BuddyAt
    <3> QED
      BY <2>1, <3>1
  <2> QED
    BY <2>1, <2>5
<1>3. CASE q % 2 # 0
  <2>1. y = x - s
    BY <1>3 DEF BuddyAt
  <2>2. q - 1 \in Nat
    BY <1>1, <1>3
  <2>3. s * (q - 1) = p - s /\ p - s \in Nat
    <3>1. s * (q - 1) = s * q - s /\ s * (q - 1) \in Nat
      BY <1>1, <2>2
    <3> QED
      BY <3>1
  <2>4. y \in Nat /\ x = y + s
    <3> HIDE DEF p, q, y
    <3> QED
      BY <1>1, <2>1, <2>3
  <2>5. y \div s = q - 1
    <3>1. p - s <= y /\ y < (p - s) + s
      <4> HIDE DEF p, q, y
      <4> QED
        BY <1>1, <2>1, <2>3
    <3> HIDE DEF p, y, q
    <3> QED
      BY <1>1, <2>2, <2>3, <2>4, <3>1, QuotientIs
  <2>6. (q - 1) % 2 = 0
    BY <1>1, <1>3, <2>2
  <2>7. BuddyAt(y, s) = x
    <3>1. BuddyAt(y, s) = y + s
      BY <2>5, <2>6 DEF BuddyAt
    <3> QED
      BY <2>4, <3>1
  <2> QED
    BY <2>4, <2>7
<1> QED
  BY <1>2, <1>3

-----------------------------------------------------------------------------
\* The links nx make one ring of F: to the next address up, and at the highest
\* to the lowest.
Round(nx, F) ==
    /\ F \in SUBSET Nat
    /\ \A a \in F : /\ nx[a] \in F
                    /\ \/ a < nx[a] /\ \A h \in F : ~ (a < h /\ h < nx[a])
                       \/ nx[a] <= a /\ \A h \in F : nx[a] <= h /\ h <= a

\* A bounded set of naturals has a greatest element.
LEMMA GreatestNatural ==
    ASSUME NEW M \in Nat, NEW T \in SUBSET (0..M), T # {}
    PROVE  \E m \in T : \A n \in T : n <= m
<1> DEFINE V == {M - t : t \in T}
<1>1. V \in SUBSET Nat /\ V # {}
  <2>1. \A t \in T : M - t \in Nat
    OBVIOUS
  <2> QED
    BY <2>1
<1>2. \E v \in V : \A n \in V : v <= n
  <2> HIDE DEF V
  <2> QED
    BY <1>1, LeastNatural
<1>3. PICK t \in T : \A n \in V : M - t <= n
  BY <1>2
<1>4. ASSUME NEW n \in T PROVE n <= t
  <2>1. M - t <= M - n
    BY <1>3
  <2> QED
    BY <2>1
<1> QED
  BY <1>4

\* Only one block leads to a block.
LEMMA OneBefore ==
    ASSUME NEW nx, NEW F, Round(nx, F), NEW a \in F, NEW b \in F, nx[a] = nx[b]
    PROVE  a = b
<1>1. /\ a \in Nat /\ b \in Nat /\ nx[a] \in Nat /\ nx[a] \in F
      /\ (a < nx[a] /\ ~ (a < b /\ b < nx[a])) \/ (nx[a] <= a /\ nx[a] <= b /\ b <= a)
      /\ (b < nx[b] /\ ~ (b < a /\ a < nx[b])) \/ (nx[b] <= b /\ nx[b] <= a /\ a <= b)
  BY DEF Round
<1> QED
  BY <1>1

\* What comes next above a block is where it leads to.
LEMMA NextUp ==
    ASSUME NEW nx, NEW F, Round(nx, F), NEW a \in F, NEW b \in F, a < b, \A h \in F : ~ (a < h /\ h < b)
    PROVE  nx[a] = b
<1>1. /\ a \in Nat /\ b \in Nat /\ nx[a] \in Nat /\ nx[a] \in F
      /\ (a < nx[a] /\ ~ (a < b /\ b < nx[a])) \/ (nx[a] <= a /\ nx[a] <= b /\ b <= a)
  BY DEF Round
<1>2. ~ (a < nx[a] /\ nx[a] < b)
  BY <1>1
<1> QED
  BY <1>1, <1>2

\* Some block leads to each.
LEMMA SomeBefore ==
    ASSUME NEW nx, NEW F, Round(nx, F), NEW M \in Nat, F \subseteq 0..M, NEW c \in F
    PROVE  \E p \in F : nx[p] = c
<1>1. \A a \in F : /\ a \in Nat /\ nx[a] \in F /\ nx[a] \in Nat
                   /\ \/ a < nx[a] /\ \A h \in F : ~ (a < h /\ h < nx[a])
                      \/ nx[a] <= a /\ \A h \in F : nx[a] <= h /\ h <= a
  BY DEF Round
<1> DEFINE T == {h \in F : h < c}
<1>2. CASE T # {}
  <2>1. T \in SUBSET (0..M)
    OBVIOUS
  <2>2. PICK p \in T : \A h \in T : h <= p
    <3> HIDE DEF T
    <3> QED
      BY <1>2, <2>1, GreatestNatural
  <2>3. \A h \in F : ~ (p < h /\ h < c)
    BY <1>1, <2>2
  <2> QED
    BY <2>2, <2>3, NextUp
<1>3. CASE T = {}
  <2>1. PICK p \in F : \A h \in F : h <= p
    BY GreatestNatural
  <2>2. nx[p] <= p /\ nx[p] <= c
    BY <1>1, <2>1
  <2>3. ~ (nx[p] < c)
    BY <1>1, <1>3
  <2> QED
    BY <1>1, <2>1, <2>2, <2>3
<1> QED
  BY <1>2, <1>3

\* The ring mx is nx without block c, which p leads to
Dropped(nx, F, p, c, mx) ==
    /\ p \in F /\ nx[p] = c /\ p # c /\ mx[p] = nx[c]
    /\ \A a \in F \ {c} : a # p => mx[a] = nx[a]

\* A block is taken out of the ring.
LEMMA DropRound ==
    ASSUME NEW nx, NEW F, Round(nx, F), NEW c \in F, NEW p, NEW mx, Dropped(nx, F, p, c, mx)
    PROVE  Round(mx, F \ {c})
<1> DEFINE G == F \ {c}
<1>1. \A a \in F : /\ a \in Nat /\ nx[a] \in F /\ nx[a] \in Nat
                   /\ \/ a < nx[a] /\ \A h \in F : ~ (a < h /\ h < nx[a])
                      \/ nx[a] <= a /\ \A h \in F : nx[a] <= h /\ h <= a
  BY DEF Round
<1>2. /\ p \in F /\ nx[p] = c /\ p # c /\ mx[p] = nx[c]
      /\ \A a \in G : a # p => mx[a] = nx[a]
  BY DEF Dropped
<1>3. nx[c] # c
  BY <1>2, OneBefore
<1>4. ASSUME NEW a \in G
      PROVE  /\ mx[a] \in G
             /\ \/ a < mx[a] /\ \A h \in G : ~ (a < h /\ h < mx[a])
                \/ mx[a] <= a /\ \A h \in G : mx[a] <= h /\ h <= a
  <2>1. CASE a # p
    <3>1. mx[a] = nx[a] /\ nx[a] # c
      BY <1>2, <2>1, OneBefore
    <3> QED
      BY <1>1, <3>1
  <2>2. CASE a = p
    <3> DEFINE n == nx[c]
    <3>1. /\ p \in Nat /\ c \in Nat /\ n \in F /\ n \in Nat /\ n # c /\ mx[p] = n /\ p # c
          /\ \/ p < c /\ \A h \in F : ~ (p < h /\ h < c)
             \/ c <= p /\ \A h \in F : c <= h /\ h <= p
          /\ \/ c < n /\ \A h \in F : ~ (c < h /\ h < n)
             \/ n <= c /\ \A h \in F : n <= h /\ h <= c
      BY <1>1, <1>2, <1>3
    <3> HIDE DEF n
    <3>2. \A h \in G : h \in Nat /\ h \in F /\ h # c
      BY <1>1
    <3>3. CASE p < c /\ c < n
      <4>1. p < n /\ \A h \in G : ~ (p < h /\ h < n)
        BY <3>1, <3>2, <3>3
      <4> QED
        BY <2>2, <3>1, <4>1
    <3>4. CASE p < c /\ n <= c
      <4>1. n <= p /\ \A h \in G : n <= h /\ h <= p
        BY <1>2, <3>1, <3>2, <3>4
      <4> QED
        BY <2>2, <3>1, <4>1
    <3>5. CASE c <= p
      <4>1. c < n
        BY <1>2, <3>1, <3>5
      <4>2. n <= p /\ \A h \in G : n <= h /\ h <= p
        BY <1>2, <3>1, <3>2, <3>5, <4>1
      <4> QED
        BY <2>2, <3>1, <4>2
    <3> QED
      BY <3>1, <3>3, <3>4, <3>5
  <2> QED
    BY <2>1, <2>2
<1>6. G \in SUBSET Nat
  BY <1>1
<1> HIDE DEF G
<1>7. Round(mx, G)
  BY <1>4, <1>6 DEF Round
<1> QED
  BY <1>7 DEF G

\* Block b belongs behind cur.
Behind(nx, cur, b) ==
    \/ b > cur /\ b < nx[cur]
    \/ cur >= nx[cur] /\ (b > cur \/ b < nx[cur])

\* The ring mx is nx with block b behind cur
Entered(nx, F, cur, b, mx) ==
    /\ cur \in F /\ b \in Nat /\ b \notin F /\ Behind(nx, cur, b)
    /\ mx[cur] = b /\ mx[b] = nx[cur]
    /\ \A a \in F : a # cur => mx[a] = nx[a]

\* A block enters the ring where it belongs.
LEMMA EnterRound ==
    ASSUME NEW nx, NEW F, Round(nx, F), NEW cur, NEW b, NEW mx, Entered(nx, F, cur, b, mx)
    PROVE  Round(mx, F \cup {b})
<1> DEFINE G == F \cup {b}
           n == nx[cur]
<1>1. \A a \in F : /\ a \in Nat /\ nx[a] \in F /\ nx[a] \in Nat
                   /\ \/ a < nx[a] /\ \A h \in F : ~ (a < h /\ h < nx[a])
                      \/ nx[a] <= a /\ \A h \in F : nx[a] <= h /\ h <= a
  BY DEF Round
<1>2. /\ cur \in F /\ b \in Nat /\ b \notin F
      /\ (b > cur /\ b < n) \/ (cur >= n /\ (b > cur \/ b < n))
      /\ mx[cur] = b /\ mx[b] = n
      /\ \A a \in F : a # cur => mx[a] = nx[a]
  BY DEF Entered, Behind
<1>3. /\ cur \in Nat /\ n \in F /\ n \in Nat /\ n # b /\ cur # b
      /\ \/ cur < n /\ \A h \in F : ~ (cur < h /\ h < n)
         \/ n <= cur /\ \A h \in F : n <= h /\ h <= cur
  BY <1>1, <1>2
<1>4. ASSUME NEW a \in F, a # cur
      PROVE  /\ mx[a] \in F
             /\ \/ a < mx[a] /\ \A h \in G : ~ (a < h /\ h < mx[a])
                \/ mx[a] <= a /\ \A h \in G : mx[a] <= h /\ h <= a
  <2> DEFINE m == nx[a]
  <2>1. mx[a] = m /\ m # n /\ m \in F /\ m \in Nat /\ a \in Nat
    BY <1>1, <1>2, <1>4, OneBefore
  <2>2. \/ a < m /\ \A h \in F : ~ (a < h /\ h < m)
        \/ m <= a /\ \A h \in F : m <= h /\ h <= a
    BY <1>1
  <2> HIDE DEF m, n
  <2>3. CASE a < m /\ \A h \in F : ~ (a < h /\ h < m)
    <3>1. ~ (a < cur /\ cur < m) /\ ~ (a < n /\ n < m)
      BY <1>2, <1>3, <2>3
    <3>2. ~ (a < b /\ b < m)
      <4> SUFFICES ASSUME a < b, b < m PROVE FALSE
        OBVIOUS
      <4>1. CASE cur < n
        <5>1. cur < b /\ b < n
          BY <1>2, <1>3, <4>1
        <5>2. ~ (a < cur)
          BY <1>3, <2>1, <3>1, <5>1, <1>2
        <5>3. cur < a
          BY <1>3, <1>4, <2>1, <5>2
        <5>4. a < n
          BY <1>2, <1>3, <2>1, <5>1
        <5>5. ~ (cur < a /\ a < n)
          BY <1>3, <4>1
        <5> QED
          BY <5>3, <5>4, <5>5
      <4>2. CASE n <= cur
        <5>1. n <= a /\ m <= cur
          BY <1>3, <2>1, <4>2
        <5>2. ~ (b > cur)
          BY <1>2, <1>3, <2>1, <5>1
        <5>3. b < n
          BY <1>2, <1>3, <5>2
        <5> QED
          BY <1>2, <1>3, <2>1, <5>1, <5>3
      <4> QED
        BY <1>3, <4>1, <4>2
    <3> QED
      BY <2>1, <2>3, <3>2
  <2>4. CASE m <= a /\ \A h \in F : m <= h /\ h <= a
    <3>1. cur < a /\ m <= n /\ n <= a
      BY <1>2, <1>3, <1>4, <2>1, <2>4
    <3>2. cur < n
      BY <1>3, <2>1, <3>1
    <3>3. m <= b /\ b <= a
      BY <1>2, <1>3, <2>1, <2>4, <3>1, <3>2
    <3> QED
      BY <2>1, <2>4, <3>3
  <2> QED
    BY <2>2, <2>3, <2>4
<1>5. \/ cur < b /\ \A h \in G : ~ (cur < h /\ h < b)
      \/ b <= cur /\ \A h \in G : b <= h /\ h <= cur
  <2> HIDE DEF n
  <2>1. CASE b > cur
    <3>1. \A h \in F : ~ (cur < h /\ h < b)
      BY <1>1, <1>2, <1>3, <2>1
    <3> QED
      BY <2>1, <3>1, <1>2, <1>3
  <2>2. CASE b < cur
    <3>1. n <= cur /\ b < n
      BY <1>2, <1>3, <2>2
    <3>2. \A h \in F : h \in Nat /\ n <= h /\ h <= cur
      BY <1>1, <1>3, <3>1, <1>2
    <3> QED
      BY <1>2, <1>3, <2>2, <3>1, <3>2
  <2> QED
    BY <1>2, <1>3, <2>1, <2>2
<1>6. \/ b < n /\ \A h \in G : ~ (b < h /\ h < n)
      \/ n <= b /\ \A h \in G : n <= h /\ h <= b
  <2> HIDE DEF n
  <2>1. CASE b < n
    <3>1. \A h \in F : ~ (b < h /\ h < n)
      BY <1>1, <1>2, <1>3, <2>1
    <3> QED
      BY <2>1, <3>1, <1>2, <1>3
  <2>2. CASE n < b
    <3>1. n <= cur /\ cur < b
      BY <1>2, <1>3, <2>2
    <3>2. \A h \in F : h \in Nat /\ n <= h /\ h <= cur
      BY <1>1, <1>3, <3>1, <1>2
    <3> QED
      BY <1>2, <1>3, <2>2, <3>1, <3>2
  <2> QED
    BY <1>2, <1>3, <2>1, <2>2
<1>7. \A a \in G : /\ mx[a] \in G
                   /\ \/ a < mx[a] /\ \A h \in G : ~ (a < h /\ h < mx[a])
                      \/ mx[a] <= a /\ \A h \in G : mx[a] <= h /\ h <= a
  <2> SUFFICES ASSUME NEW a \in G
               PROVE  /\ mx[a] \in G
                      /\ \/ a < mx[a] /\ \A h \in G : ~ (a < h /\ h < mx[a])
                         \/ mx[a] <= a /\ \A h \in G : mx[a] <= h /\ h <= a
    OBVIOUS
  <2>1. CASE a = cur
    <3>1. mx[a] = b /\ b \in G
      BY <1>2, <2>1
    <3> HIDE DEF G
    <3> QED
      BY <1>5, <2>1, <3>1
  <2>2. CASE a = b
    <3>1. mx[a] = n /\ n \in G
      BY <1>2, <1>3, <2>2
    <3> HIDE DEF G, n
    <3> QED
      BY <1>6, <2>2, <3>1
  <2>3. CASE a # cur /\ a # b
    BY <1>4, <2>3
  <2> QED
    BY <2>1, <2>2, <2>3
<1>8. G \in SUBSET Nat
  BY <1>1, <1>2, <1>7
<1> HIDE DEF G
<1>9. Round(mx, G)
  BY <1>7, <1>8 DEF Round
<1> QED
  BY <1>9 DEF G

\* There is a place for every block.
LEMMA SomePlace ==
    ASSUME NEW nx, NEW F, Round(nx, F), NEW M \in Nat, F \subseteq 0..M, F # {}, NEW b \in Nat, b \notin F
    PROVE  \E cur \in F : Behind(nx, cur, b)
<1>1. \A a \in F : /\ a \in Nat /\ nx[a] \in F /\ nx[a] \in Nat
                   /\ \/ a < nx[a] /\ \A h \in F : ~ (a < h /\ h < nx[a])
                      \/ nx[a] <= a /\ \A h \in F : nx[a] <= h /\ h <= a
  BY DEF Round
<1> DEFINE T == {h \in F : h < b}
<1>2. CASE T # {}
  <2>1. T \in SUBSET (0..M)
    OBVIOUS
  <2>2. PICK p \in T : \A h \in T : h <= p
    <3> HIDE DEF T
    <3> QED
      BY <1>2, <2>1, GreatestNatural
  <2>3. p < b /\ p \in F /\ nx[p] # b
    BY <1>1
  <2>4. p < nx[p] => b < nx[p]
    BY <1>1, <2>2, <2>3
  <2>5. Behind(nx, p, b)
    BY <1>1, <2>3, <2>4 DEF Behind
  <2> QED
    BY <2>3, <2>5
<1>3. CASE T = {}
  <2>1. PICK p \in F : \A h \in F : h <= p
    BY GreatestNatural
  <2>2. nx[p] <= p /\ b < nx[p]
    BY <1>1, <1>3, <2>1
  <2>3. Behind(nx, p, b)
    BY <1>1, <2>2 DEF Behind
  <2> QED
    BY <2>3
<1> QED
  BY <1>2, <1>3

\* What the ring leads to from one of its blocks on is all of it.
LEMMA AllRound ==
    ASSUME NEW nx, NEW F, Round(nx, F), NEW M \in Nat, F \subseteq 0..M,
           NEW E, E \subseteq F, E # {}, \A e \in E : nx[e] \in E
    PROVE  E = F
<1>1. \A a \in F : /\ a \in Nat /\ nx[a] \in F /\ nx[a] \in Nat
                   /\ \/ a < nx[a] /\ \A h \in F : ~ (a < h /\ h < nx[a])
                      \/ nx[a] <= a /\ \A h \in F : nx[a] <= h /\ h <= a
  BY DEF Round
<1>2. PICK m \in E : \A e \in E : e <= m
  <2>1. E \in SUBSET (0..M)
    OBVIOUS
  <2> QED
    BY <2>1, GreatestNatural
<1> DEFINE low == nx[m]
<1>3. m \in Nat /\ low \in E /\ low \in Nat /\ \A h \in F : low <= h /\ h <= m
  BY <1>1, <1>2
<1> HIDE DEF low
<1> DEFINE T == F \ E
<1>4. ASSUME T # {} PROVE FALSE
  <2>1. T \in SUBSET Nat
    BY <1>1
  <2>2. PICK h \in T : \A t \in T : h <= t
    <3> HIDE DEF T
    <3> QED
      BY <1>4, <2>1, LeastNatural
  <2> DEFINE L == {e \in F : e < h}
  <2>3. h \in F /\ h \in Nat /\ h # low
    BY <1>1, <1>3, <2>2
  <2>4. low \in L
    BY <1>3, <2>3
  <2>5. L \in SUBSET (0..M) /\ L # {}
    BY <2>4
  <2>6. PICK p \in L : \A e \in L : e <= p
    <3> HIDE DEF L
    <3> QED
      BY <2>5, GreatestNatural
  <2>7. p \in F /\ p \in Nat /\ p < h /\ p \in E
    BY <1>1, <2>1, <2>2, <2>3, <2>6
  <2>8. \A e \in F : ~ (p < e /\ e < h)
    BY <1>1, <2>6, <2>7
  <2>9. nx[p] = h
    BY <2>3, <2>7, <2>8, NextUp
  <2> QED
    BY <2>2, <2>7, <2>9
<1> QED
  BY <1>4

-----------------------------------------------------------------------------
\* The free blocks F in their ring nx and the blocks A that are handed out, and
\* that together they cut V
Chain(nx, F, len, A, V, M) ==
    /\ M \in Nat /\ F \subseteq 0..M /\ Round(nx, F) /\ A \cap F = {}
    /\ Parts(len, F \cup A, V, M + 1)

\* Block q, to which block p leads and which p touches, leaves the ring.
Joining(nx, F, len, A, V, M, p, q, mx, g) ==
    /\ Chain(nx, F, len, A, V, M) /\ p \in F /\ q \in F
    /\ Dropped(nx, F, p, q, mx) /\ Added(len, F \cup A, p, q, g)

\* A free block is joined with the one it leads to.
LEMMA JoinChain ==
    ASSUME NEW nx, NEW F, NEW len, NEW A, NEW V, NEW M, NEW p, NEW q, NEW mx, NEW g,
           Joining(nx, F, len, A, V, M, p, q, mx, g)
    PROVE  /\ Chain(mx, F \ {q}, g, A, V, M) /\ p \in F \ {q} /\ p + g[p] = q + len[q]
           /\ \A h \in (F \cup A) \ {q} : h # p => g[h] = len[h]
<1>1. M \in Nat /\ F \subseteq 0..M /\ Round(nx, F) /\ A \cap F = {} /\ Parts(len, F \cup A, V, M + 1)
  BY DEF Joining, Chain
<1>0. p \in F /\ q \in F /\ Dropped(nx, F, p, q, mx) /\ Added(len, F \cup A, p, q, g)
  BY DEF Joining
<1>2. Round(mx, F \ {q})
  BY <1>0, <1>1, DropRound
<1>3. Parts(g, (F \cup A) \ {q}, V, M + 1) /\ p # q /\ p + g[p] = q + len[q]
  <2> DEFINE K == F \cup A
             L == M + 1
  <2>1. L \in Nat \ {0} /\ Parts(len, K, V, L) /\ p \in K /\ q \in K /\ Added(len, K, p, q, g)
    BY <1>0, <1>1
  <2> HIDE DEF K, L
  <2> QED
    BY <2>1, JoinParts DEF K, L
<1>4. (F \cup A) \ {q} = (F \ {q}) \cup A /\ A \cap (F \ {q}) = {} /\ F \ {q} \subseteq 0..M
  BY <1>0, <1>1
<1>5. \A h \in (F \cup A) \ {q} : h # p => g[h] = len[h]
  BY <1>0 DEF Added
<1> QED
  BY <1>0, <1>1, <1>2, <1>3, <1>4, <1>5 DEF Chain

\* What the ring and the lengths are outside its blocks does not matter.
LEMMA SameChain ==
    ASSUME NEW nx, NEW F, NEW len, NEW A, NEW V, NEW M, Chain(nx, F, len, A, V, M),
           NEW mx, \A a \in F : mx[a] = nx[a], NEW g, \A a \in F \cup A : g[a] = len[a]
    PROVE  Chain(mx, F, g, A, V, M)
<1>1. M \in Nat /\ F \subseteq 0..M /\ Round(nx, F) /\ A \cap F = {} /\ Parts(len, F \cup A, V, M + 1)
  BY DEF Chain
<1>2. Round(mx, F)
  BY <1>1 DEF Round
<1>3. Parts(g, F \cup A, V, M + 1)
  <2> DEFINE K == F \cup A
             L == M + 1
  <2>1. Parts(len, K, V, L) /\ \A a \in K : g[a] = len[a]
    BY <1>1
  <2> HIDE DEF K, L
  <2>2. Parts(g, K, V, L)
    BY <2>1 DEF Parts
  <2> QED
    BY <2>2 DEF K, L
<1> QED
  BY <1>1, <1>2, <1>3 DEF Chain

=============================================================================
