----------------------------- MODULE MemoryProofs -----------------------------
(***************************************************************************)
(* The memory management, for memories of any size.  The lists of best fit,*)
(* first fit, the buddy allocator and kmalloc say exactly which memory is  *)
(* free, and each of these allocators is a PagePool.  Copy-on-write keeps  *)
(* the memory of every process its own: the steps of Cow are steps of      *)
(* PrivateMemory.  load_icode loads what its file says.  First the address *)
(* spaces, then one allocator after the other and the loading of a program,*)
(* and the whole at the end.                                               *)
(***************************************************************************)
EXTENDS MCMemory, Foundations, FiniteSetTheorems, TLAPS

Entry == [page : Frame, w : BOOLEAN, cow : BOOLEAN]

CowTypeOK ==
    /\ enable_cow \in BOOLEAN
    /\ pte \in [Proc -> [Va -> Entry] \cup {NONE}]
    /\ ref \in [Frame -> Nat] /\ free \in SUBSET Frame
    /\ content \in [Frame -> Value]

CowInv == CowTypeOK /\ Cow!SharedExact

-----------------------------------------------------------------------------
\* Counting a set that has gained or lost one element, at most or at least.
LEMMA Counted ==
    ASSUME NEW S, IsFiniteSet(S), NEW T, NEW x
    PROVE  /\ Cardinality(S) \in Nat
           /\ T \subseteq S => Cardinality(T) \in Nat /\ Cardinality(T) <= Cardinality(S)
           /\ T \subseteq S \cup {x} => Cardinality(T) \in Nat /\ Cardinality(T) <= Cardinality(S) + 1
           /\ x \in S /\ T \subseteq S \ {x} =>
                Cardinality(T) \in Nat /\ Cardinality(T) + 1 <= Cardinality(S)
           /\ T \subseteq {x} => Cardinality(T) \in Nat /\ Cardinality(T) <= 1
<1>1. Cardinality(S) \in Nat
  BY FS_CardinalityType
<1>2. ASSUME T \subseteq S PROVE Cardinality(T) \in Nat /\ Cardinality(T) <= Cardinality(S)
  BY <1>2, FS_Subset, FS_CardinalityType
<1>3. ASSUME T \subseteq S \cup {x}
      PROVE  Cardinality(T) \in Nat /\ Cardinality(T) <= Cardinality(S) + 1
  <2>1. /\ IsFiniteSet(S \cup {x})
        /\ Cardinality(S \cup {x}) = IF x \in S THEN Cardinality(S) ELSE Cardinality(S) + 1
    BY FS_AddElement
  <2>2. Cardinality(T) \in Nat /\ Cardinality(T) <= Cardinality(S \cup {x})
    BY <1>3, <2>1, FS_Subset, FS_CardinalityType
  <2> QED
    BY <1>1, <2>1, <2>2
<1>4. ASSUME x \in S, T \subseteq S \ {x}
      PROVE  Cardinality(T) \in Nat /\ Cardinality(T) + 1 <= Cardinality(S)
  <2>1. /\ IsFiniteSet(S \ {x})
        /\ Cardinality(S \ {x}) = Cardinality(S) - 1
    BY <1>4, FS_RemoveElement
  <2>2. Cardinality(T) \in Nat /\ Cardinality(T) <= Cardinality(S \ {x})
    BY <1>4, <2>1, FS_Subset, FS_CardinalityType
  <2> QED
    BY <1>1, <2>1, <2>2
<1>5. ASSUME T \subseteq {x} PROVE Cardinality(T) \in Nat /\ Cardinality(T) <= 1
  <2>1. IsFiniteSet({x}) /\ Cardinality({x}) = 1
    BY FS_Singleton
  <2>2. Cardinality(T) \in Nat /\ Cardinality(T) <= Cardinality({x})
    BY <1>5, <2>1, FS_Subset, FS_CardinalityType
  <2> QED
    BY <2>1, <2>2
<1> QED
  BY <1>1, <1>2, <1>3, <1>4, <1>5

\* The cardinality of Cow is the one of this module.
LEMMA SameCardinality ==
    ASSUME NEW S
    PROVE  Cow!Cardinality(S) = Cardinality(S)
BY Zenon DEF Cow!Cardinality, Cardinality

\* Finitely many processes map a page.
LEMMA MappersFinite ==
    ASSUME NEW g
    PROVE  IsFiniteSet(Cow!Mappers(g)) /\ Cardinality(Cow!Mappers(g)) \in Nat
<1>1. Cow!Mappers(g) \subseteq Proc
  BY DEF Cow!Mappers
<1> QED
  BY <1>1, MemoryAssumption, FS_Subset, FS_CardinalityType

\* What the invariant says about the pages of processes.
LEMMA MapFacts ==
    ASSUME CowInv
    PROVE  /\ \A p \in Proc : Cow!HasMm(p) =>
                /\ pte[p] \in [Va -> Entry]
                /\ \A va \in Va : /\ pte[p][va].page \in Frame
                                 /\ pte[p][va].page \in Cow!Frames(p)
                                 /\ pte[p][va].page \notin free
                                 /\ ref[pte[p][va].page] >= 1
           /\ \A p, q \in Proc : Cow!HasMm(p) /\ Cow!HasMm(q) /\ p # q =>
                \A va, vb \in Va : pte[p][va].page = pte[q][vb].page =>
                    ref[pte[p][va].page] >= 2
<1>0. /\ \A g \in Frame : ref[g] \in Nat
      /\ \A g \in Frame : ref[g] >= Cardinality(Cow!Mappers(g)) /\ (g \in free => ref[g] = 0)
  <2>1. \A g \in Frame : ref[g] \in Nat
    BY DEF CowInv, CowTypeOK
  <2>2. \A g \in Frame : ref[g] >= Cardinality(Cow!Mappers(g)) /\ (g \in free => ref[g] = 0)
    BY SameCardinality DEF CowInv, Cow!SharedExact
  <2> QED
    BY <2>1, <2>2
<1>1. ASSUME NEW p \in Proc, Cow!HasMm(p)
      PROVE  pte[p] \in [Va -> Entry] /\ \A va \in Va : pte[p][va].page \in Frame
  BY <1>1 DEF CowInv, CowTypeOK, Cow!HasMm, Entry
<1>2. ASSUME NEW p \in Proc, Cow!HasMm(p), NEW va \in Va, NEW g, g = pte[p][va].page
      PROVE  g \in Cow!Frames(p) /\ g \in Frame /\ p \in Cow!Mappers(g)
  BY <1>1, <1>2 DEF Cow!Frames, Cow!Mappers
<1>3. ASSUME NEW g \in Frame, NEW p \in Cow!Mappers(g) PROVE ref[g] >= 1 /\ g \notin free
  <2>1. {} \subseteq Cow!Mappers(g) \ {p}
    OBVIOUS
  <2>2. Cardinality({}) \in Nat /\ Cardinality({}) + 1 <= Cardinality(Cow!Mappers(g))
    BY <2>1, MappersFinite, Counted
  <2>3. ref[g] >= Cardinality(Cow!Mappers(g)) /\ ref[g] \in Nat
    BY <1>0
  <2>4. ref[g] >= 1
    BY <2>2, <2>3, MappersFinite
  <2> QED
    BY <2>4, <1>0
<1>4. ASSUME NEW g \in Frame, NEW p \in Cow!Mappers(g), NEW q \in Cow!Mappers(g), p # q
      PROVE  ref[g] >= 2
  <2>1. {p} \subseteq Cow!Mappers(g) \ {q}
    BY <1>4
  <2>2. Cardinality({p}) + 1 <= Cardinality(Cow!Mappers(g))
    BY <2>1, MappersFinite, Counted
  <2>3. Cardinality({p}) = 1
    BY FS_Singleton
  <2>4. ref[g] >= Cardinality(Cow!Mappers(g)) /\ ref[g] \in Nat
    BY <1>0
  <2> QED
    BY <2>2, <2>3, <2>4, MappersFinite
<1>5. ASSUME NEW p \in Proc, Cow!HasMm(p), NEW va \in Va
      PROVE  /\ pte[p][va].page \in Frame /\ pte[p][va].page \in Cow!Frames(p)
             /\ pte[p][va].page \notin free /\ ref[pte[p][va].page] >= 1
  BY <1>2, <1>3, <1>5
<1>6. ASSUME NEW p \in Proc, NEW q \in Proc, Cow!HasMm(p), Cow!HasMm(q), p # q,
             NEW va \in Va, NEW vb \in Va, pte[p][va].page = pte[q][vb].page
      PROVE  ref[pte[p][va].page] >= 2
  BY <1>2, <1>4, <1>6
<1> QED
  BY <1>1, <1>5, <1>6

\* What the processes read, now and after the step.
LEMMA MemoryIs ==
    ASSUME manager = "cow", manager' = "cow"
    PROVE  /\ Memory = Cow!Memory /\ Memory' = Cow!Memory'
           /\ DOMAIN Memory = Proc /\ DOMAIN Memory' = Proc
           /\ Memory = [p \in Proc |-> Memory[p]] /\ Memory' = [p \in Proc |-> Memory'[p]]
           /\ \A p \in Proc :
                /\ pte[p] # NONE => Memory[p] = [va \in Va |-> content[pte[p][va].page]]
                /\ pte[p] = NONE => Memory[p] = NONE
                /\ pte'[p] # NONE => Memory'[p] = [va \in Va |-> content'[pte'[p][va].page]]
                /\ pte'[p] = NONE => Memory'[p] = NONE
BY DEF Memory, Cow!Memory, Cow!HasMm

\* Entry by entry: q reads after the step what p reads before it.
LEMMA ReadsAs ==
    ASSUME manager = "cow", manager' = "cow"
    PROVE  /\ \A p, q \in Proc :
                pte[p] # NONE /\ pte'[q] # NONE
                /\ (\A va \in Va : content'[pte'[q][va].page] = content[pte[p][va].page])
                => Memory'[q] = Memory[p]
           /\ \A q \in Proc :
                pte'[q] = pte[q]
                /\ (pte[q] # NONE =>
                      \A va \in Va : content'[pte[q][va].page] = content[pte[q][va].page])
                => Memory'[q] = Memory[q]
<1>1. ASSUME NEW p \in Proc, NEW q \in Proc, pte[p] # NONE, pte'[q] # NONE,
             \A va \in Va : content'[pte'[q][va].page] = content[pte[p][va].page]
      PROVE  Memory'[q] = Memory[p]
  <2>1. [va \in Va |-> content'[pte'[q][va].page]] = [va \in Va |-> content[pte[p][va].page]]
    BY <1>1
  <2> QED
    BY <1>1, <2>1, MemoryIs
<1>2. ASSUME NEW q \in Proc, pte'[q] = pte[q],
             pte[q] # NONE =>
               \A va \in Va : content'[pte[q][va].page] = content[pte[q][va].page]
      PROVE  Memory'[q] = Memory[q]
  <2>1. CASE pte[q] = NONE
    BY <1>2, <2>1, MemoryIs
  <2>2. CASE pte[q] # NONE
    BY <1>1, <1>2, <2>2
  <2> QED
    BY <2>1, <2>2
<1> QED
  BY <1>1, <1>2

\* A process has memory when it has an address space.
LEMMA HasIs ==
    ASSUME manager = "cow", manager' = "cow", CowInv, NEW p \in Proc
    PROVE  /\ Private!Has(p) <=> Cow!HasMm(p)
           /\ Cow!HasMm(p) => Memory[p] \in [Va -> Value]
<1>1. Cow!HasMm(p) => Memory[p] \in [Va -> Value]
  BY MapFacts, MemoryIs DEF CowInv, CowTypeOK, Cow!HasMm
<1> QED
  BY <1>1, MemoryIs, MemoryAssumption DEF Private!Has, Cow!HasMm

-----------------------------------------------------------------------------
\* The entry of a new address space is none of a process without one.
LEMMA NoMm ==
    NONE \notin [Va -> Entry]
BY MemoryAssumption DEF Entry

\* The invariant in the form the steps establish.
LEMMA SharedNext ==
    ASSUME \A g \in Frame : ref'[g] >= Cardinality(Cow!Mappers(g)') /\ (g \in free' => ref'[g] = 0),
           \A p, q \in Proc : pte'[p] # NONE /\ pte'[q] # NONE =>
             \A va, vb \in Va : pte'[p][va].page = pte'[q][vb].page =>
                 IF p = q THEN va = vb ELSE ~ pte'[p][va].w /\ ~ pte'[q][vb].w
    PROVE  Cow!SharedExact'
BY SameCardinality DEF Cow!SharedExact, Cow!HasMm

\* What the invariant says now.
LEMMA SharedNow ==
    ASSUME CowInv
    PROVE  /\ \A g \in Frame : /\ ref[g] \in Nat /\ ref[g] >= Cardinality(Cow!Mappers(g))
                               /\ g \in free => ref[g] = 0
           /\ \A p, q \in Proc : pte[p] # NONE /\ pte[q] # NONE =>
                \A va, vb \in Va : pte[p][va].page = pte[q][vb].page =>
                    IF p = q THEN va = vb ELSE ~ pte[p][va].w /\ ~ pte[q][vb].w
<1>1. \A g \in Frame : ref[g] \in Nat
  BY DEF CowInv, CowTypeOK
<1>2. /\ \A g \in Frame : ref[g] >= Cardinality(Cow!Mappers(g)) /\ (g \in free => ref[g] = 0)
      /\ \A p, q \in Proc : pte[p] # NONE /\ pte[q] # NONE =>
           \A va, vb \in Va : pte[p][va].page = pte[q][vb].page =>
               IF p = q THEN va = vb ELSE ~ pte[p][va].w /\ ~ pte[q][vb].w
  BY SameCardinality DEF CowInv, Cow!SharedExact, Cow!HasMm
<1> QED
  BY <1>1, <1>2

\* The entries of a fork map the same page, and are not to be written.
LEMMA ForkEntries ==
    ASSUME NEW e \in Entry
    PROVE  /\ Cow!Shared(e) \in Entry /\ Cow!Shared(e).page = e.page /\ Cow!Shared(e).w = FALSE
           /\ Cow!ChildEntry(e) \in Entry /\ Cow!ChildEntry(e).page = e.page
           /\ Cow!ChildEntry(e).w = FALSE
BY DEF Cow!Shared, Cow!ChildEntry, Entry

-----------------------------------------------------------------------------
\* A fork that shares the pages gives the child what its parent reads.
LEMMA ForkStep ==
    ASSUME manager = "cow", manager' = "cow", CowInv,
           NEW p \in Proc, NEW c \in Proc, Cow!Fork(p, c)
    PROVE  CowInv' /\ Private!Fork(p, c)
<1>1. Cow!HasMm(p) /\ ~ Cow!HasMm(c) /\ p # c /\ pte[p] \in [Va -> Entry] /\ pte[p] # NONE /\ pte[c] = NONE
  BY MapFacts DEF Cow!Fork, Cow!HasMm
<1>2. /\ pte' = [pte EXCEPT ![p] = [va \in Va |-> Cow!Shared(pte[p][va])],
                            ![c] = [va \in Va |-> Cow!ChildEntry(pte[p][va])]]
      /\ ref' = [g \in Frame |-> IF g \in Cow!Frames(p) THEN ref[g] + 2 ELSE ref[g]]
      /\ enable_cow' = enable_cow /\ free' = free /\ content' = content
  BY DEF Cow!Fork
<1>3. /\ pte'[p] = [va \in Va |-> Cow!Shared(pte[p][va])]
      /\ pte'[c] = [va \in Va |-> Cow!ChildEntry(pte[p][va])]
      /\ \A q \in Proc \ {p, c} : pte'[q] = pte[q]
      /\ DOMAIN pte' = Proc
  BY <1>1, <1>2 DEF CowInv, CowTypeOK
<1>4. \A va \in Va : /\ pte'[p][va] \in Entry /\ pte'[c][va] \in Entry
                     /\ pte'[p][va].page = pte[p][va].page /\ pte'[p][va].w = FALSE
                     /\ pte'[c][va].page = pte[p][va].page /\ pte'[c][va].w = FALSE
  <2> SUFFICES ASSUME NEW va \in Va
               PROVE  /\ pte'[p][va] \in Entry /\ pte'[c][va] \in Entry
                      /\ pte'[p][va].page = pte[p][va].page /\ pte'[p][va].w = FALSE
                      /\ pte'[c][va].page = pte[p][va].page /\ pte'[c][va].w = FALSE
    OBVIOUS
  <2>1. pte'[p][va] = Cow!Shared(pte[p][va]) /\ pte'[c][va] = Cow!ChildEntry(pte[p][va])
    BY <1>3
  <2>2. pte[p][va] \in Entry
    BY <1>1
  <2> QED
    BY <2>1, <2>2, ForkEntries
<1>5. pte'[p] \in [Va -> Entry] /\ pte'[c] \in [Va -> Entry] /\ pte'[p] # NONE /\ pte'[c] # NONE
  BY <1>3, <1>4, NoMm
<1>6. CowTypeOK'
  <2>1. pte' \in [Proc -> [Va -> Entry] \cup {NONE}]
    BY <1>2, <1>5, <1>3 DEF CowInv, CowTypeOK
  <2>2. ref' \in [Frame -> Nat]
    BY <1>2 DEF CowInv, CowTypeOK
  <2> QED
    BY <2>1, <2>2, <1>2 DEF CowInv, CowTypeOK
<1>7. \A g \in Frame : ref'[g] >= Cardinality(Cow!Mappers(g)') /\ (g \in free' => ref'[g] = 0)
  <2> SUFFICES ASSUME NEW g \in Frame
               PROVE  ref'[g] >= Cardinality(Cow!Mappers(g)') /\ (g \in free' => ref'[g] = 0)
    OBVIOUS
  <2>1. Cow!Mappers(g)' \subseteq Cow!Mappers(g) \cup {c}
    BY <1>1, <1>3, <1>4 DEF Cow!Mappers, Cow!HasMm, Cow!Frames
  <2>2. CASE g \in Cow!Frames(p)
    <3>1. Cardinality(Cow!Mappers(g)') <= Cardinality(Cow!Mappers(g)) + 1
             /\ Cardinality(Cow!Mappers(g)') \in Nat
      BY <2>1, Counted, MappersFinite
    <3>2. g \notin free
      BY <1>1, <2>2, MapFacts DEF Cow!Frames
    <3> QED
      BY <3>1, <3>2, <2>2, <1>2, SharedNow, MappersFinite
  <2>3. CASE g \notin Cow!Frames(p)
    <3>1. Cow!Mappers(g)' \subseteq Cow!Mappers(g)
      BY <2>1, <2>3, <1>3, <1>4 DEF Cow!Mappers, Cow!HasMm, Cow!Frames
    <3>2. Cardinality(Cow!Mappers(g)') <= Cardinality(Cow!Mappers(g))
             /\ Cardinality(Cow!Mappers(g)') \in Nat
      BY <3>1, Counted, MappersFinite
    <3> QED
      BY <3>2, <2>3, <1>2, SharedNow, MappersFinite
  <2> QED
    BY <2>2, <2>3
<1>8. \A q, r \in Proc : pte'[q] # NONE /\ pte'[r] # NONE =>
        \A va, vb \in Va : pte'[q][va].page = pte'[r][vb].page =>
            IF q = r THEN va = vb ELSE ~ pte'[q][va].w /\ ~ pte'[r][vb].w
  BY <1>1, <1>3, <1>4, SharedNow
<1>9. Cow!SharedExact'
  BY <1>7, <1>8, SharedNext
<1>10. Private!Fork(p, c)
  <2>1. Memory'[c] = Memory[p] /\ Memory'[p] = Memory[p]
    BY <1>1, <1>2, <1>4, <1>5, ReadsAs
  <2>3. \A q \in Proc \ {p, c} : Memory'[q] = Memory[q]
    BY <1>2, <1>3, ReadsAs
  <2>2. Private!Has(p) /\ ~ Private!Has(c)
    BY <1>1, HasIs
  <2> QED
    BY <2>1, <2>2, <2>3, MemoryIs DEF Private!Fork
<1> QED
  BY <1>6, <1>9, <1>10 DEF CowInv

\* A fork that fails has made the parent's entries read-only, and that is all
\* a process can see of it.
LEMMA ForkFailsStep ==
    ASSUME manager = "cow", manager' = "cow", CowInv,
           NEW p \in Proc, NEW S \in SUBSET Va, Cow!ForkFails(p, S)
    PROVE  CowInv' /\ Memory' = Memory
<1>1. Cow!HasMm(p) /\ pte[p] \in [Va -> Entry] /\ pte[p] # NONE
  BY MapFacts DEF Cow!ForkFails, Cow!HasMm
<1>2. /\ pte' = [pte EXCEPT ![p] =
                   [va \in Va |-> IF va \in S THEN Cow!Shared(pte[p][va]) ELSE pte[p][va]]]
      /\ ref' = [g \in Frame |-> IF \E va \in S : pte[p][va].page = g THEN ref[g] + 1 ELSE ref[g]]
      /\ enable_cow' = enable_cow /\ free' = free /\ content' = content
  BY DEF Cow!ForkFails
<1>3. /\ pte'[p] = [va \in Va |-> IF va \in S THEN Cow!Shared(pte[p][va]) ELSE pte[p][va]]
      /\ \A q \in Proc \ {p} : pte'[q] = pte[q]
  BY <1>1, <1>2 DEF CowInv, CowTypeOK
<1>4. \A va \in Va : /\ pte'[p][va] \in Entry /\ pte'[p][va].page = pte[p][va].page
                     /\ pte'[p][va].w => pte[p][va].w
  <2> SUFFICES ASSUME NEW va \in Va
               PROVE  /\ pte'[p][va] \in Entry /\ pte'[p][va].page = pte[p][va].page
                      /\ pte'[p][va].w => pte[p][va].w
    OBVIOUS
  <2>1. pte'[p][va] = IF va \in S THEN Cow!Shared(pte[p][va]) ELSE pte[p][va]
    BY <1>3
  <2>2. pte[p][va] \in Entry
    BY <1>1
  <2> QED
    BY <2>1, <2>2, ForkEntries
<1>5. pte'[p] \in [Va -> Entry] /\ pte'[p] # NONE
  BY <1>3, <1>4, NoMm
<1>6. CowTypeOK'
  <2>1. pte' \in [Proc -> [Va -> Entry] \cup {NONE}]
    BY <1>2, <1>5, <1>3 DEF CowInv, CowTypeOK
  <2>2. ref' \in [Frame -> Nat]
    BY <1>2 DEF CowInv, CowTypeOK
  <2> QED
    BY <2>1, <2>2, <1>2 DEF CowInv, CowTypeOK
<1>7. \A g \in Frame : ref'[g] >= Cardinality(Cow!Mappers(g)') /\ (g \in free' => ref'[g] = 0)
  <2> SUFFICES ASSUME NEW g \in Frame
               PROVE  ref'[g] >= Cardinality(Cow!Mappers(g)') /\ (g \in free' => ref'[g] = 0)
    OBVIOUS
  <2>1. Cow!Mappers(g)' \subseteq Cow!Mappers(g)
    BY <1>1, <1>3, <1>4 DEF Cow!Mappers, Cow!HasMm, Cow!Frames
  <2>2. Cardinality(Cow!Mappers(g)') <= Cardinality(Cow!Mappers(g))
           /\ Cardinality(Cow!Mappers(g)') \in Nat
    BY <2>1, Counted, MappersFinite
  <2>3. g \in free => ~ \E va \in S : pte[p][va].page = g
    BY <1>1, MapFacts
  <2>4. ref'[g] = ref[g] \/ (ref'[g] = ref[g] + 1 /\ g \notin free)
    BY <2>3, <1>2
  <2> QED
    BY <2>2, <2>4, <1>2, SharedNow, MappersFinite
<1>8. \A q, r \in Proc : pte'[q] # NONE /\ pte'[r] # NONE =>
        \A va, vb \in Va : pte'[q][va].page = pte'[r][vb].page =>
            IF q = r THEN va = vb ELSE ~ pte'[q][va].w /\ ~ pte'[r][vb].w
  BY <1>1, <1>3, <1>4, SharedNow
<1>9. Cow!SharedExact'
  BY <1>7, <1>8, SharedNext
<1>10. Memory' = Memory
  <2>1. Memory'[p] = Memory[p]
    BY <1>1, <1>2, <1>4, <1>5, ReadsAs
  <2>2. \A q \in Proc \ {p} : Memory'[q] = Memory[q]
    BY <1>2, <1>3, ReadsAs
  <2> QED
    BY <2>1, <2>2, MemoryIs
<1> QED
  BY <1>6, <1>9, <1>10 DEF CowInv

\* What a process leaves behind stays exact, and nobody else reads less.
LEMMA ExitStep ==
    ASSUME manager = "cow", manager' = "cow", CowInv, NEW p \in Proc, Cow!Exit(p)
    PROVE  CowInv' /\ Private!Exit(p)
<1>1. Cow!HasMm(p) /\ pte[p] \in [Va -> Entry] /\ pte[p] # NONE
  BY MapFacts DEF Cow!Exit, Cow!HasMm
<1>2. /\ pte' = [pte EXCEPT ![p] = NONE]
      /\ ref' = [g \in Frame |-> IF g \in Cow!Frames(p) THEN ref[g] - 1 ELSE ref[g]]
      /\ free' = free \cup {g \in Cow!Frames(p) : ref[g] = 1}
      /\ enable_cow' = enable_cow /\ content' = content
  BY DEF Cow!Exit, Cow!RefLess, Cow!Given
<1>3. pte'[p] = NONE /\ \A q \in Proc \ {p} : pte'[q] = pte[q]
  BY <1>1, <1>2 DEF CowInv, CowTypeOK
<1>4. \A g \in Cow!Frames(p) : g \in Frame /\ ref[g] >= 1 /\ ref[g] \in Nat /\ g \notin free
  BY <1>1, MapFacts, SharedNow DEF Cow!Frames
<1>5. CowTypeOK'
  <2>1. pte' \in [Proc -> [Va -> Entry] \cup {NONE}]
    BY <1>2 DEF CowInv, CowTypeOK
  <2>2. ref' \in [Frame -> Nat]
    BY <1>2, <1>4 DEF CowInv, CowTypeOK
  <2>3. free' \in SUBSET Frame
    BY <1>2, <1>4 DEF CowInv, CowTypeOK
  <2> QED
    BY <2>1, <2>2, <2>3, <1>2 DEF CowInv, CowTypeOK
<1>6. \A g \in Frame : ref'[g] >= Cardinality(Cow!Mappers(g)') /\ (g \in free' => ref'[g] = 0)
  <2> SUFFICES ASSUME NEW g \in Frame
               PROVE  ref'[g] >= Cardinality(Cow!Mappers(g)') /\ (g \in free' => ref'[g] = 0)
    OBVIOUS
  <2>1. Cow!Mappers(g)' \subseteq Cow!Mappers(g) \ {p}
    BY <1>3 DEF Cow!Mappers, Cow!HasMm, Cow!Frames
  <2>2. CASE g \in Cow!Frames(p)
    <3>1. p \in Cow!Mappers(g)
      BY <1>1, <2>2 DEF Cow!Mappers
    <3>2. Cardinality(Cow!Mappers(g)') + 1 <= Cardinality(Cow!Mappers(g))
             /\ Cardinality(Cow!Mappers(g)') \in Nat
      BY <3>1, <2>1, Counted, MappersFinite
    <3>3. ref'[g] = ref[g] - 1 /\ (g \in free' => ref[g] = 1)
      BY <2>2, <1>2, <1>4
    <3> QED
      BY <3>2, <3>3, <1>4, <2>2, SharedNow, MappersFinite
  <2>3. CASE g \notin Cow!Frames(p)
    <3>1. Cow!Mappers(g)' \subseteq Cow!Mappers(g)
      BY <2>1
    <3>2. Cardinality(Cow!Mappers(g)') <= Cardinality(Cow!Mappers(g))
             /\ Cardinality(Cow!Mappers(g)') \in Nat
      BY <3>1, Counted, MappersFinite
    <3>3. ref'[g] = ref[g] /\ (g \in free' => g \in free)
      BY <2>3, <1>2
    <3> QED
      BY <3>2, <3>3, SharedNow, MappersFinite
  <2> QED
    BY <2>2, <2>3
<1>7. \A q, r \in Proc : pte'[q] # NONE /\ pte'[r] # NONE =>
        \A va, vb \in Va : pte'[q][va].page = pte'[r][vb].page =>
            IF q = r THEN va = vb ELSE ~ pte'[q][va].w /\ ~ pte'[r][vb].w
  BY <1>3, SharedNow
<1>8. Cow!SharedExact'
  BY <1>6, <1>7, SharedNext
<1>9. Private!Exit(p)
  <2>1. Memory'[p] = NONE
    BY <1>3, MemoryIs
  <2>2. \A q \in Proc \ {p} : Memory'[q] = Memory[q]
    BY <1>2, <1>3, ReadsAs
  <2>3. Private!Has(p)
    BY <1>1, HasIs
  <2> QED
    BY <2>1, <2>2, <2>3, MemoryIs DEF Private!Exit
<1> QED
  BY <1>5, <1>8, <1>9 DEF CowInv

\* A page that can be written is mapped once, so a store is seen by the
\* process that makes it and by no other.
LEMMA StoreStep ==
    ASSUME manager = "cow", manager' = "cow", CowInv,
           NEW p \in Proc, NEW va \in Va, NEW v \in Value, Cow!Store(p, va, v)
    PROVE  CowInv' /\ Private!Store(p)
<1>1. /\ Cow!HasMm(p) /\ pte[p] \in [Va -> Entry] /\ pte[p] # NONE
      /\ pte[p][va].page \in Frame /\ pte[p][va].w
  BY MapFacts DEF Cow!Store, Cow!HasMm
<1>2. /\ content' = [content EXCEPT ![pte[p][va].page] = v]
      /\ enable_cow' = enable_cow /\ pte' = pte /\ ref' = ref /\ free' = free
  BY DEF Cow!Store
<1>3. CowTypeOK'
  BY <1>1, <1>2 DEF CowInv, CowTypeOK
<1>4. \A g \in Frame : Cow!Mappers(g)' = Cow!Mappers(g)
  BY <1>2 DEF Cow!Mappers, Cow!HasMm, Cow!Frames
<1>5. Cow!SharedExact'
  BY <1>2, <1>4, SharedNow, SharedNext
<1>6. \A q \in Proc : pte[q] # NONE =>
        \A vb \in Va : (q # p \/ vb # va) => pte[q][vb].page # pte[p][va].page
  BY <1>1, SharedNow
<1>7. \A q \in Proc : pte[q] # NONE => \A vb \in Va : pte[q][vb].page \in Frame
  BY MapFacts DEF Cow!HasMm
<1>8. Private!Store(p)
  <2>1. Memory'[p] = [Memory[p] EXCEPT ![va] = v]
    <3>1. /\ Memory'[p] = [vb \in Va |-> content'[pte[p][vb].page]]
          /\ Memory[p] = [vb \in Va |-> content[pte[p][vb].page]]
      BY <1>1, <1>2, MemoryIs
    <3>2. \A vb \in Va : content'[pte[p][vb].page] =
                           IF vb = va THEN v ELSE content[pte[p][vb].page]
      BY <1>1, <1>2, <1>6, <1>7 DEF CowInv, CowTypeOK
    <3> QED
      BY <3>1, <3>2
  <2>2. \A q \in Proc \ {p} : Memory'[q] = Memory[q]
    <3>1. ASSUME NEW q \in Proc \ {p}, pte[q] # NONE, NEW vb \in Va
          PROVE  content'[pte[q][vb].page] = content[pte[q][vb].page]
      BY <3>1, <1>1, <1>2, <1>6, <1>7 DEF CowInv, CowTypeOK
    <3> QED
      BY <3>1, <1>2, ReadsAs
  <2>3. Private!Has(p)
    BY <1>1, HasIs
  <2>4. Memory' = [Memory EXCEPT ![p][va] = v]
    BY <2>1, <2>2, MemoryIs
  <2> QED
    BY <2>3, <2>4 DEF Private!Store
<1> QED
  BY <1>3, <1>5, <1>8 DEF CowInv

\* The last process that refers to a page gets it for itself.
LEMMA ReuseStep ==
    ASSUME manager = "cow", manager' = "cow", CowInv,
           NEW p \in Proc, NEW va \in Va, Cow!StoreFault(p, va), ref[pte[p][va].page] = 1
    PROVE  CowInv' /\ Memory' = Memory
<1> DEFINE old == pte[p][va].page
<1>1. /\ Cow!HasMm(p) /\ pte[p] \in [Va -> Entry] /\ pte[p] # NONE /\ old \in Frame
  BY MapFacts DEF Cow!StoreFault, Cow!HasMm
<1>2. /\ pte' = [pte EXCEPT ![p][va] = [page |-> old, w |-> TRUE, cow |-> FALSE]]
      /\ enable_cow' = enable_cow /\ content' = content /\ ref' = ref /\ free' = free
  BY DEF Cow!StoreFault
<1>3. /\ pte'[p] = [pte[p] EXCEPT ![va] = [page |-> old, w |-> TRUE, cow |-> FALSE]]
      /\ \A q \in Proc \ {p} : pte'[q] = pte[q]
  BY <1>1, <1>2 DEF CowInv, CowTypeOK
<1>4. \A vb \in Va : /\ pte'[p][vb] \in Entry /\ pte'[p][vb].page = pte[p][vb].page
                     /\ vb # va => pte'[p][vb] = pte[p][vb]
  BY <1>1, <1>3 DEF Entry
<1>5. pte'[p] \in [Va -> Entry] /\ pte'[p] # NONE
  BY <1>1, <1>3, <1>4, NoMm
<1>6. CowTypeOK'
  <2>1. pte' \in [Proc -> [Va -> Entry] \cup {NONE}]
    BY <1>2, <1>5, <1>3 DEF CowInv, CowTypeOK
  <2> QED
    BY <2>1, <1>2 DEF CowInv, CowTypeOK
<1>7. \A g \in Frame : ref'[g] >= Cardinality(Cow!Mappers(g)') /\ (g \in free' => ref'[g] = 0)
  <2> SUFFICES ASSUME NEW g \in Frame
               PROVE  ref'[g] >= Cardinality(Cow!Mappers(g)') /\ (g \in free' => ref'[g] = 0)
    OBVIOUS
  <2>1. Cow!Mappers(g)' \subseteq Cow!Mappers(g)
    BY <1>1, <1>3, <1>4 DEF Cow!Mappers, Cow!HasMm, Cow!Frames
  <2>2. Cardinality(Cow!Mappers(g)') <= Cardinality(Cow!Mappers(g))
           /\ Cardinality(Cow!Mappers(g)') \in Nat
    BY <2>1, Counted, MappersFinite
  <2> QED
    BY <2>2, <1>2, SharedNow, MappersFinite
<1>8. \A q \in Proc : pte[q] # NONE =>
        \A vb \in Va : (q # p \/ vb # va) => pte[q][vb].page # old
  <2>1. \A q \in Proc : pte[q] # NONE /\ q # p => \A vb \in Va : pte[q][vb].page # old
    BY <1>1, MapFacts DEF Cow!HasMm
  <2>2. \A vb \in Va : vb # va => pte[p][vb].page # old
    BY <1>1, SharedNow
  <2> QED
    BY <2>1, <2>2
<1>9. \A q, r \in Proc : pte'[q] # NONE /\ pte'[r] # NONE =>
        \A vb, vc \in Va : pte'[q][vb].page = pte'[r][vc].page =>
            IF q = r THEN vb = vc ELSE ~ pte'[q][vb].w /\ ~ pte'[r][vc].w
  <2> SUFFICES ASSUME NEW q \in Proc, NEW r \in Proc, pte'[q] # NONE, pte'[r] # NONE,
                      NEW vb \in Va, NEW vc \in Va, pte'[q][vb].page = pte'[r][vc].page
               PROVE  IF q = r THEN vb = vc ELSE ~ pte'[q][vb].w /\ ~ pte'[r][vc].w
    OBVIOUS
  <2>1. pte[q] # NONE /\ pte[r] # NONE /\ pte[q][vb].page = pte[r][vc].page
    BY <1>1, <1>3, <1>4
  <2>2. CASE (q = p /\ vb = va) \/ (r = p /\ vc = va)
    BY <2>1, <2>2, <1>8
  <2>3. CASE ~ ((q = p /\ vb = va) \/ (r = p /\ vc = va))
    <3>1. pte'[q][vb] = pte[q][vb] /\ pte'[r][vc] = pte[r][vc]
      BY <2>3, <1>3, <1>4
    <3> QED
      BY <3>1, <2>1, SharedNow
  <2> QED
    BY <2>2, <2>3
<1>10. Cow!SharedExact'
  BY <1>7, <1>9, SharedNext
<1>11. Memory' = Memory
  <2>1. Memory'[p] = Memory[p]
    BY <1>1, <1>2, <1>4, <1>5, ReadsAs
  <2>2. \A q \in Proc \ {p} : Memory'[q] = Memory[q]
    BY <1>2, <1>3, ReadsAs
  <2> QED
    BY <2>1, <2>2, MemoryIs
<1> QED
  BY <1>6, <1>10, <1>11 DEF CowInv

\* Others get a copy: the page they share loses one mapping, and the new page
\* has one.
LEMMA CopyStep ==
    ASSUME manager = "cow", manager' = "cow", CowInv,
           NEW p \in Proc, NEW va \in Va, Cow!StoreFault(p, va), ref[pte[p][va].page] # 1
    PROVE  CowInv' /\ Memory' = Memory
<1> DEFINE old == pte[p][va].page
<1>1. /\ Cow!HasMm(p) /\ pte[p] \in [Va -> Entry] /\ pte[p] # NONE /\ old \in Frame
      /\ old \notin free /\ ref[old] >= 1 /\ ref[old] \in Nat /\ ref[old] # 1
  BY MapFacts, SharedNow DEF Cow!StoreFault, Cow!HasMm
<1>2. PICK new \in free :
        /\ pte' = [pte EXCEPT ![p][va] = [page |-> new, w |-> TRUE, cow |-> FALSE]]
        /\ ref' = [[g \in Frame |-> IF g \in {old} THEN ref[g] - 1 ELSE ref[g]] EXCEPT ![new] = 1]
        /\ free' = (free \ {new}) \cup {g \in {old} : ref[g] = 1}
        /\ content' = [content EXCEPT ![new] = content[old]]
        /\ enable_cow' = enable_cow
  BY <1>1 DEF Cow!StoreFault, Cow!RefLess, Cow!Given
<1>3. /\ new \in Frame /\ new # old
      /\ ref' = [g \in Frame |-> IF g = new THEN 1 ELSE IF g = old THEN ref[g] - 1 ELSE ref[g]]
      /\ free' = free \ {new}
  BY <1>1, <1>2 DEF CowInv, CowTypeOK
<1>4. /\ pte'[p] = [pte[p] EXCEPT ![va] = [page |-> new, w |-> TRUE, cow |-> FALSE]]
      /\ \A q \in Proc \ {p} : pte'[q] = pte[q]
  BY <1>1, <1>2 DEF CowInv, CowTypeOK
<1>5. /\ pte'[p][va] \in Entry /\ pte'[p][va].page = new
      /\ \A vb \in Va \ {va} : pte'[p][vb] = pte[p][vb] /\ pte'[p][vb] \in Entry
  BY <1>1, <1>3, <1>4 DEF Entry
<1>6. pte'[p] \in [Va -> Entry] /\ pte'[p] # NONE
  BY <1>1, <1>4, <1>5, NoMm
<1>7. CowTypeOK'
  <2>1. pte' \in [Proc -> [Va -> Entry] \cup {NONE}]
    BY <1>2, <1>6, <1>4 DEF CowInv, CowTypeOK
  <2>2. ref' \in [Frame -> Nat]
    BY <1>1, <1>3 DEF CowInv, CowTypeOK
  <2>3. content' \in [Frame -> Value] /\ free' \in SUBSET Frame
    BY <1>1, <1>2, <1>3 DEF CowInv, CowTypeOK
  <2> QED
    BY <2>1, <2>2, <2>3, <1>2 DEF CowInv, CowTypeOK
<1>8. \A q \in Proc : pte[q] # NONE => \A vb \in Va : /\ pte[q][vb].page # new
                                                     /\ pte[q][vb].page \in Frame
  BY MapFacts DEF Cow!HasMm
<1>9. \A vb \in Va : vb # va => pte[p][vb].page # old
  BY <1>1, SharedNow
<1>10. \A g \in Frame : ref'[g] >= Cardinality(Cow!Mappers(g)') /\ (g \in free' => ref'[g] = 0)
  <2> SUFFICES ASSUME NEW g \in Frame
               PROVE  ref'[g] >= Cardinality(Cow!Mappers(g)') /\ (g \in free' => ref'[g] = 0)
    OBVIOUS
  <2>1. CASE g = new
    <3>1. Cow!Mappers(g)' \subseteq {p}
      BY <2>1, <1>4, <1>8 DEF Cow!Mappers, Cow!HasMm, Cow!Frames
    <3>2. Cardinality(Cow!Mappers(g)') <= 1 /\ Cardinality(Cow!Mappers(g)') \in Nat
      BY <3>1, Counted, MappersFinite
    <3> QED
      BY <3>2, <2>1, <1>3
  <2>2. CASE g = old
    <3>1. p \in Cow!Mappers(g) /\ Cow!Mappers(g)' \subseteq Cow!Mappers(g) \ {p}
      BY <2>2, <1>1, <1>3, <1>4, <1>5, <1>9 DEF Cow!Mappers, Cow!HasMm, Cow!Frames
    <3>2. Cardinality(Cow!Mappers(g)') + 1 <= Cardinality(Cow!Mappers(g))
             /\ Cardinality(Cow!Mappers(g)') \in Nat
      BY <3>1, Counted, MappersFinite
    <3> QED
      BY <3>2, <2>2, <1>1, <1>3, SharedNow, MappersFinite
  <2>3. CASE g # new /\ g # old
    <3>1. Cow!Mappers(g)' \subseteq Cow!Mappers(g)
      BY <2>3, <1>1, <1>4, <1>5 DEF Cow!Mappers, Cow!HasMm, Cow!Frames
    <3>2. Cardinality(Cow!Mappers(g)') <= Cardinality(Cow!Mappers(g))
             /\ Cardinality(Cow!Mappers(g)') \in Nat
      BY <3>1, Counted, MappersFinite
    <3> QED
      BY <3>2, <2>3, <1>3, SharedNow, MappersFinite
  <2> QED
    BY <2>1, <2>2, <2>3
<1>11. \A q, r \in Proc : pte'[q] # NONE /\ pte'[r] # NONE =>
        \A vb, vc \in Va : pte'[q][vb].page = pte'[r][vc].page =>
            IF q = r THEN vb = vc ELSE ~ pte'[q][vb].w /\ ~ pte'[r][vc].w
  <2> SUFFICES ASSUME NEW q \in Proc, NEW r \in Proc, pte'[q] # NONE, pte'[r] # NONE,
                      NEW vb \in Va, NEW vc \in Va, pte'[q][vb].page = pte'[r][vc].page
               PROVE  IF q = r THEN vb = vc ELSE ~ pte'[q][vb].w /\ ~ pte'[r][vc].w
    OBVIOUS
  <2>1. pte[q] # NONE /\ pte[r] # NONE
    BY <1>1, <1>4
  <2>2. /\ ~ (q = p /\ vb = va) => pte'[q][vb] = pte[q][vb]
        /\ ~ (r = p /\ vc = va) => pte'[r][vc] = pte[r][vc]
    BY <1>4, <1>5
  <2>3. CASE (q = p /\ vb = va) \/ (r = p /\ vc = va)
    BY <2>1, <2>2, <2>3, <1>5, <1>8
  <2>4. CASE ~ ((q = p /\ vb = va) \/ (r = p /\ vc = va))
    BY <2>1, <2>2, <2>4, SharedNow
  <2> QED
    BY <2>3, <2>4
<1>12. Cow!SharedExact'
  BY <1>10, <1>11, SharedNext
<1>13. Memory' = Memory
  <2>1. content'[new] = content[old] /\ \A g \in Frame \ {new} : content'[g] = content[g]
    BY <1>1, <1>2, <1>3 DEF CowInv, CowTypeOK
  <2>2. Memory'[p] = Memory[p]
    <3>1. ASSUME NEW vb \in Va
          PROVE  content'[pte'[p][vb].page] = content[pte[p][vb].page]
      BY <2>1, <1>1, <1>5, <1>8
    <3> QED
      BY <3>1, <1>1, <1>6, ReadsAs
  <2>3. \A q \in Proc \ {p} : Memory'[q] = Memory[q]
    <3>1. ASSUME NEW q \in Proc \ {p}, pte[q] # NONE, NEW vb \in Va
          PROVE  content'[pte[q][vb].page] = content[pte[q][vb].page]
      BY <3>1, <2>1, <1>8
    <3> QED
      BY <3>1, <1>4, ReadsAs
  <2> QED
    BY <2>2, <2>3, MemoryIs
<1> QED
  BY <1>7, <1>12, <1>13 DEF CowInv

-----------------------------------------------------------------------------
\* New pages, all different, and what they contain.
LEMMA NewPages ==
    ASSUME NEW S \in SUBSET Frame, NEW f \in Cow!Pick(S), NEW image \in [Va -> Value],
           content \in [Frame -> Value]
    PROVE  /\ f \in [Va -> S] /\ \A va \in Va : f[va] \in S /\ f[va] \in Frame
           /\ \A a, b \in Va : f[a] = f[b] => a = b
           /\ Cow!Filled(f, image) \in [Frame -> Value]
           /\ \A va \in Va : Cow!Filled(f, image)[f[va]] = image[va]
           /\ \A g \in Frame :
                ~ (\E va \in Va : f[va] = g) => Cow!Filled(f, image)[g] = content[g]
<1>1. f \in [Va -> S] /\ \A a, b \in Va : f[a] = f[b] => a = b
  BY DEF Cow!Pick, Cow!Distinct
<1>2. ASSUME NEW g \in Frame, NEW va \in Va, f[va] = g
      PROVE  Cow!At(f, g) = va
  BY <1>1, <1>2 DEF Cow!At
<1>3. \A g \in Frame :
        Cow!Filled(f, image)[g] =
          IF \E va \in Va : f[va] = g THEN image[Cow!At(f, g)] ELSE content[g]
  BY DEF Cow!Filled
<1>4. \A g \in Frame : Cow!Filled(f, image)[g] \in Value
  BY <1>2, <1>3
<1>5. Cow!Filled(f, image) \in [Frame -> Value]
  BY <1>3, <1>4 DEF Cow!Filled
<1> QED
  BY <1>1, <1>2, <1>3, <1>5

\* A fork that copies gives the child pages nobody maps.
LEMMA ForkCopiesStep ==
    ASSUME manager = "cow", manager' = "cow", CowInv,
           NEW p \in Proc, NEW c \in Proc, Cow!ForkCopies(p, c)
    PROVE  CowInv' /\ Private!Fork(p, c)
<1> DEFINE image == [va \in Va |-> content[pte[p][va].page]]
<1>1. Cow!HasMm(p) /\ ~ Cow!HasMm(c) /\ p # c /\ pte[p] \in [Va -> Entry] /\ pte[p] # NONE /\ pte[c] = NONE
  BY MapFacts DEF Cow!ForkCopies, Cow!HasMm
<1>2. PICK f \in Cow!Pick(free) :
        /\ pte' = [pte EXCEPT ![c] = [va \in Va |-> [pte[p][va] EXCEPT !.page = f[va]]]]
        /\ ref' = [g \in Frame |-> IF \E va \in Va : f[va] = g THEN 1 ELSE ref[g]]
        /\ free' = free \ {f[va] : va \in Va}
        /\ content' = Cow!Filled(f, image)
        /\ enable_cow' = enable_cow
  BY DEF Cow!ForkCopies
<1>3. image \in [Va -> Value]
  BY <1>1, MapFacts DEF CowInv, CowTypeOK
<1> HIDE DEF image
<1>4. /\ \A va \in Va : f[va] \in free /\ f[va] \in Frame
      /\ \A a, b \in Va : f[a] = f[b] => a = b
      /\ content' \in [Frame -> Value]
      /\ \A va \in Va : content'[f[va]] = image[va]
      /\ \A g \in Frame : ~ (\E va \in Va : f[va] = g) => content'[g] = content[g]
  <2>1. free \in SUBSET Frame /\ content \in [Frame -> Value]
    BY DEF CowInv, CowTypeOK
  <2> QED
    BY <2>1, <1>2, <1>3, NewPages
<1>5. /\ pte'[c] = [va \in Va |-> [pte[p][va] EXCEPT !.page = f[va]]]
      /\ \A q \in Proc \ {c} : pte'[q] = pte[q]
  BY <1>1, <1>2 DEF CowInv, CowTypeOK
<1>6. \A va \in Va : pte'[c][va] \in Entry /\ pte'[c][va].page = f[va]
  <2> SUFFICES ASSUME NEW va \in Va
               PROVE  pte'[c][va] \in Entry /\ pte'[c][va].page = f[va]
    OBVIOUS
  <2>1. pte'[c][va] = [pte[p][va] EXCEPT !.page = f[va]] /\ pte[p][va] \in Entry
    BY <1>1, <1>5
  <2> QED
    BY <2>1, <1>4 DEF Entry
<1>7. pte'[c] \in [Va -> Entry] /\ pte'[c] # NONE
  BY <1>5, <1>6, NoMm
<1>8. CowTypeOK'
  <2>1. pte' \in [Proc -> [Va -> Entry] \cup {NONE}]
    BY <1>2, <1>7, <1>5 DEF CowInv, CowTypeOK
  <2>2. ref' \in [Frame -> Nat]
    BY <1>2 DEF CowInv, CowTypeOK
  <2>3. free' \in SUBSET Frame
    BY <1>2 DEF CowInv, CowTypeOK
  <2> QED
    BY <2>1, <2>2, <2>3, <1>2, <1>4 DEF CowInv, CowTypeOK
<1>9. \A q \in Proc : pte[q] # NONE =>
        \A va \in Va : /\ pte[q][va].page \in Frame
                       /\ \A vb \in Va : pte[q][va].page # f[vb]
  BY <1>4, MapFacts DEF Cow!HasMm
<1>10. \A g \in Frame : ref'[g] >= Cardinality(Cow!Mappers(g)') /\ (g \in free' => ref'[g] = 0)
  <2> SUFFICES ASSUME NEW g \in Frame
               PROVE  ref'[g] >= Cardinality(Cow!Mappers(g)') /\ (g \in free' => ref'[g] = 0)
    OBVIOUS
  <2>1. CASE \E va \in Va : f[va] = g
    <3>1. Cow!Mappers(g)' \subseteq {c}
      BY <2>1, <1>5, <1>9 DEF Cow!Mappers, Cow!HasMm, Cow!Frames
    <3>2. Cardinality(Cow!Mappers(g)') <= 1 /\ Cardinality(Cow!Mappers(g)') \in Nat
      BY <3>1, Counted, MappersFinite
    <3>3. ref'[g] = 1 /\ g \notin free'
      BY <2>1, <1>2
    <3> QED
      BY <3>2, <3>3
  <2>2. CASE ~ \E va \in Va : f[va] = g
    <3>1. Cow!Mappers(g)' \subseteq Cow!Mappers(g)
      BY <2>2, <1>1, <1>5, <1>6 DEF Cow!Mappers, Cow!HasMm, Cow!Frames
    <3>2. Cardinality(Cow!Mappers(g)') <= Cardinality(Cow!Mappers(g))
             /\ Cardinality(Cow!Mappers(g)') \in Nat
      BY <3>1, Counted, MappersFinite
    <3>3. ref'[g] = ref[g] /\ (g \in free' => g \in free)
      BY <2>2, <1>2
    <3> QED
      BY <3>2, <3>3, SharedNow, MappersFinite
  <2> QED
    BY <2>1, <2>2
<1>11. \A q, r \in Proc : pte'[q] # NONE /\ pte'[r] # NONE =>
        \A vb, vc \in Va : pte'[q][vb].page = pte'[r][vc].page =>
            IF q = r THEN vb = vc ELSE ~ pte'[q][vb].w /\ ~ pte'[r][vc].w
  <2> SUFFICES ASSUME NEW q \in Proc, NEW r \in Proc, pte'[q] # NONE, pte'[r] # NONE,
                      NEW vb \in Va, NEW vc \in Va, pte'[q][vb].page = pte'[r][vc].page
               PROVE  IF q = r THEN vb = vc ELSE ~ pte'[q][vb].w /\ ~ pte'[r][vc].w
    OBVIOUS
  <2>1. CASE q = c /\ r = c
    BY <2>1, <1>4, <1>6
  <2>2. CASE q # c /\ r # c
    BY <2>2, <1>5, SharedNow
  <2>3. CASE (q = c /\ r # c) \/ (q # c /\ r = c)
    BY <2>3, <1>5, <1>6, <1>9
  <2> QED
    BY <2>1, <2>2, <2>3
<1>12. Cow!SharedExact'
  BY <1>10, <1>11, SharedNext
<1>13. Private!Fork(p, c)
  <2>1. Memory'[c] = Memory[p]
    <3>1. ASSUME NEW va \in Va
          PROVE  content'[pte'[c][va].page] = content[pte[p][va].page]
      BY <1>4, <1>6 DEF image
    <3> QED
      BY <3>1, <1>1, <1>7, ReadsAs
  <2>2. \A q \in Proc \ {c} : Memory'[q] = Memory[q]
    <3>1. ASSUME NEW q \in Proc \ {c}, pte[q] # NONE, NEW va \in Va
          PROVE  content'[pte[q][va].page] = content[pte[q][va].page]
      BY <3>1, <1>4, <1>9
    <3> QED
      BY <3>1, <1>5, ReadsAs
  <2>3. Private!Has(p) /\ ~ Private!Has(c)
    BY <1>1, HasIs
  <2> QED
    BY <2>1, <2>2, <2>3, MemoryIs DEF Private!Fork
<1> QED
  BY <1>8, <1>12, <1>13 DEF CowInv

\* The pages of a new program are free, or were this process's alone.
LEMMA ExecStep ==
    ASSUME manager = "cow", manager' = "cow", CowInv,
           NEW p \in Proc, NEW image \in [Va -> Value], Cow!Exec(p, image)
    PROVE  CowInv' /\ Private!Exec(p)
<1> DEFINE left == free \cup {g \in Cow!Frames(p) : ref[g] = 1}
<1>1. Cow!HasMm(p) /\ pte[p] \in [Va -> Entry] /\ pte[p] # NONE
  BY MapFacts DEF Cow!Exec, Cow!HasMm
<1>2. PICK f \in Cow!Pick(left) :
        /\ pte' = [pte EXCEPT ![p] = Cow!Loaded(f)]
        /\ ref' = [g \in Frame |-> IF \E va \in Va : f[va] = g THEN 1
                                   ELSE Cow!RefLess(Cow!Frames(p))[g]]
        /\ free' = left \ {f[va] : va \in Va}
        /\ content' = Cow!Filled(f, image)
        /\ enable_cow' = enable_cow
  BY DEF Cow!Exec, Cow!Given
<1>3. \A g \in Cow!Frames(p) : g \in Frame /\ ref[g] >= 1 /\ ref[g] \in Nat /\ g \notin free
  BY <1>1, MapFacts, SharedNow DEF Cow!Frames
<1>4. left \in SUBSET Frame
  BY <1>3 DEF CowInv, CowTypeOK
<1>5. \A q \in Proc \ {p} : pte[q] # NONE =>
        \A va \in Va : pte[q][va].page \in Frame /\ pte[q][va].page \notin left
  <2> SUFFICES ASSUME NEW q \in Proc \ {p}, pte[q] # NONE, NEW va \in Va
               PROVE  pte[q][va].page \in Frame /\ pte[q][va].page \notin left
    OBVIOUS
  <2>1. pte[q][va].page \in Frame /\ pte[q][va].page \notin free
    BY MapFacts DEF Cow!HasMm
  <2>2. pte[q][va].page \in Cow!Frames(p) => ref[pte[q][va].page] >= 2
    BY <1>1, MapFacts DEF Cow!HasMm, Cow!Frames
  <2>3. pte[q][va].page \in Cow!Frames(p) => ref[pte[q][va].page] # 1
    BY <2>2, <1>3
  <2> QED
    BY <2>1, <2>3
<1>6. /\ \A va \in Va : f[va] \in left /\ f[va] \in Frame
      /\ \A a, b \in Va : f[a] = f[b] => a = b
      /\ content' \in [Frame -> Value]
      /\ \A va \in Va : content'[f[va]] = image[va]
      /\ \A g \in Frame : ~ (\E va \in Va : f[va] = g) => content'[g] = content[g]
  <2>1. content \in [Frame -> Value]
    BY DEF CowInv, CowTypeOK
  <2> HIDE DEF left
  <2> QED
    BY <2>1, <1>2, <1>4, NewPages
<1>7. pte'[p] = Cow!Loaded(f) /\ \A q \in Proc \ {p} : pte'[q] = pte[q]
  BY <1>1, <1>2 DEF CowInv, CowTypeOK
<1>8. \A va \in Va : pte'[p][va] \in Entry /\ pte'[p][va].page = f[va]
  BY <1>6, <1>7 DEF Cow!Loaded, Entry
<1>9. pte'[p] \in [Va -> Entry] /\ pte'[p] # NONE
  BY <1>7, <1>8, NoMm DEF Cow!Loaded
<1>10. \A g \in Frame : ref'[g] = IF \E va \in Va : f[va] = g THEN 1
                                  ELSE IF g \in Cow!Frames(p) THEN ref[g] - 1 ELSE ref[g]
  BY <1>2 DEF Cow!RefLess
<1>11. CowTypeOK'
  <2>1. pte' \in [Proc -> [Va -> Entry] \cup {NONE}]
    BY <1>2, <1>9, <1>7 DEF CowInv, CowTypeOK
  <2>2. ref' \in [Frame -> Nat]
    <3>1. ref' = [g \in Frame |-> ref'[g]]
      BY <1>2
    <3>2. \A g \in Frame : ref'[g] \in Nat
      BY <1>10, <1>3, SharedNow
    <3> QED
      BY <3>1, <3>2
  <2>3. free' \in SUBSET Frame
    BY <1>2, <1>4
  <2> QED
    BY <2>1, <2>2, <2>3, <1>2, <1>6 DEF CowInv, CowTypeOK
<1>12. \A g \in Frame : ref'[g] >= Cardinality(Cow!Mappers(g)') /\ (g \in free' => ref'[g] = 0)
  <2> SUFFICES ASSUME NEW g \in Frame
               PROVE  ref'[g] >= Cardinality(Cow!Mappers(g)') /\ (g \in free' => ref'[g] = 0)
    OBVIOUS
  <2>1. CASE \E va \in Va : f[va] = g
    <3>1. Cow!Mappers(g)' \subseteq {p}
      BY <2>1, <1>5, <1>6, <1>7 DEF Cow!Mappers, Cow!HasMm, Cow!Frames
    <3>2. Cardinality(Cow!Mappers(g)') <= 1 /\ Cardinality(Cow!Mappers(g)') \in Nat
      BY <3>1, Counted, MappersFinite
    <3>3. ref'[g] = 1 /\ g \notin free'
      BY <2>1, <1>2, <1>10
    <3> QED
      BY <3>2, <3>3
  <2>2. ASSUME ~ \E va \in Va : f[va] = g
        PROVE  Cow!Mappers(g)' \subseteq Cow!Mappers(g) \ {p}
    BY <2>2, <1>1, <1>7, <1>8 DEF Cow!Mappers, Cow!HasMm, Cow!Frames
  <2>3. CASE (~ \E va \in Va : f[va] = g) /\ g \in Cow!Frames(p)
    <3>1. p \in Cow!Mappers(g)
      BY <1>1, <2>3 DEF Cow!Mappers
    <3>2. Cardinality(Cow!Mappers(g)') + 1 <= Cardinality(Cow!Mappers(g))
             /\ Cardinality(Cow!Mappers(g)') \in Nat
      BY <3>1, <2>2, <2>3, Counted, MappersFinite
    <3>3. ref'[g] = ref[g] - 1 /\ (g \in free' => ref[g] = 1)
      BY <2>3, <1>2, <1>3, <1>10
    <3> QED
      BY <3>2, <3>3, <1>3, <2>3, SharedNow, MappersFinite
  <2>4. CASE (~ \E va \in Va : f[va] = g) /\ g \notin Cow!Frames(p)
    <3>1. Cow!Mappers(g)' \subseteq Cow!Mappers(g)
      BY <2>2, <2>4
    <3>2. Cardinality(Cow!Mappers(g)') <= Cardinality(Cow!Mappers(g))
             /\ Cardinality(Cow!Mappers(g)') \in Nat
      BY <3>1, Counted, MappersFinite
    <3>3. ref'[g] = ref[g] /\ (g \in free' => g \in free)
      BY <2>4, <1>2, <1>10
    <3> QED
      BY <3>2, <3>3, SharedNow, MappersFinite
  <2> QED
    BY <2>1, <2>3, <2>4
<1>13. \A q, r \in Proc : pte'[q] # NONE /\ pte'[r] # NONE =>
        \A vb, vc \in Va : pte'[q][vb].page = pte'[r][vc].page =>
            IF q = r THEN vb = vc ELSE ~ pte'[q][vb].w /\ ~ pte'[r][vc].w
  <2> SUFFICES ASSUME NEW q \in Proc, NEW r \in Proc, pte'[q] # NONE, pte'[r] # NONE,
                      NEW vb \in Va, NEW vc \in Va, pte'[q][vb].page = pte'[r][vc].page
               PROVE  IF q = r THEN vb = vc ELSE ~ pte'[q][vb].w /\ ~ pte'[r][vc].w
    OBVIOUS
  <2> HIDE DEF left
  <2>1. CASE q = p /\ r = p
    BY <2>1, <1>6, <1>8
  <2>2. CASE q # p /\ r # p
    BY <2>2, <1>7, SharedNow
  <2>3. CASE (q = p /\ r # p) \/ (q # p /\ r = p)
    BY <2>3, <1>5, <1>6, <1>7, <1>8
  <2> QED
    BY <2>1, <2>2, <2>3
<1>14. Cow!SharedExact'
  BY <1>12, <1>13, SharedNext
<1>15. Private!Exec(p)
  <2> HIDE DEF left
  <2>1. Memory'[p] = image
    <3>1. Memory'[p] = [va \in Va |-> content'[pte'[p][va].page]]
      BY <1>9, MemoryIs
    <3>2. \A va \in Va : content'[pte'[p][va].page] = image[va]
      BY <1>6, <1>8
    <3> QED
      BY <3>1, <3>2
  <2>2. \A q \in Proc \ {p} : Memory'[q] = Memory[q]
    <3>1. ASSUME NEW q \in Proc \ {p}, pte[q] # NONE, NEW va \in Va
          PROVE  content'[pte[q][va].page] = content[pte[q][va].page]
      BY <3>1, <1>5, <1>6
    <3> QED
      BY <3>1, <1>7, ReadsAs
  <2>3. Private!Has(p)
    BY <1>1, HasIs
  <2>4. Memory' = [Memory EXCEPT ![p] = image]
    BY <2>1, <2>2, MemoryIs
  <2> QED
    BY <2>3, <2>4 DEF Private!Exec
<1> QED
  BY <1>11, <1>14, <1>15 DEF CowInv

-----------------------------------------------------------------------------
\* The first process has pages of its own, all different.
LEMMA CowInit ==
    ASSUME manager = "cow", Cow!Init
    PROVE  CowInv /\ Private!Init
<1>1. enable_cow \in BOOLEAN
  BY DEF Cow!Init
<1>2. PICK p \in Proc, f \in Cow!Pick(Frame), image \in [Va -> Value], rest \in Value :
        /\ pte = [q \in Proc |-> IF q = p THEN Cow!Loaded(f) ELSE NONE]
        /\ ref = [g \in Frame |-> IF \E va \in Va : f[va] = g THEN 1 ELSE 0]
        /\ free = Frame \ {f[va] : va \in Va}
        /\ content = [g \in Frame |-> IF \E va \in Va : f[va] = g
                                      THEN image[Cow!At(f, g)] ELSE rest]
  BY DEF Cow!Init
<1>3. f \in [Va -> Frame] /\ \A a, b \in Va : f[a] = f[b] => a = b
  BY <1>2 DEF Cow!Pick, Cow!Distinct
<1>4. pte[p] = Cow!Loaded(f) /\ \A q \in Proc \ {p} : pte[q] = NONE
  BY <1>2
<1>5. \A va \in Va : pte[p][va] \in Entry /\ pte[p][va].page = f[va]
  BY <1>3, <1>4 DEF Cow!Loaded, Entry
<1>6. pte[p] \in [Va -> Entry]
  BY <1>4, <1>5 DEF Cow!Loaded
<1>7. content \in [Frame -> Value]
  <2>1. ASSUME NEW g \in Frame, NEW va \in Va, f[va] = g PROVE Cow!At(f, g) = va
    BY <1>3, <2>1 DEF Cow!At
  <2>2. \A g \in Frame : content[g] \in Value
    BY <1>2, <2>1
  <2> QED
    BY <1>2, <2>2
<1>8. CowTypeOK
  <2>1. pte \in [Proc -> [Va -> Entry] \cup {NONE}]
    BY <1>2, <1>4, <1>6
  <2> QED
    BY <1>1, <1>2, <1>7, <2>1 DEF CowTypeOK
<1>9. \A g \in Frame : ref[g] >= Cardinality(Cow!Mappers(g)) /\ (g \in free => ref[g] = 0)
  <2> SUFFICES ASSUME NEW g \in Frame
               PROVE  ref[g] >= Cardinality(Cow!Mappers(g)) /\ (g \in free => ref[g] = 0)
    OBVIOUS
  <2>1. Cow!Mappers(g) \subseteq {p}
    BY <1>4 DEF Cow!Mappers, Cow!HasMm
  <2>2. CASE \E va \in Va : f[va] = g
    <3>1. Cardinality(Cow!Mappers(g)) <= 1 /\ Cardinality(Cow!Mappers(g)) \in Nat
      BY <2>1, Counted, MappersFinite
    <3> QED
      BY <3>1, <2>2, <1>2
  <2>3. CASE ~ \E va \in Va : f[va] = g
    <3>1. Cow!Mappers(g) = {}
      BY <2>1, <2>3, <1>5 DEF Cow!Mappers, Cow!Frames
    <3> QED
      BY <3>1, <2>3, <1>2, FS_EmptySet
  <2> QED
    BY <2>2, <2>3
<1>10. \A q, r \in Proc : pte[q] # NONE /\ pte[r] # NONE =>
         \A va, vb \in Va : pte[q][va].page = pte[r][vb].page =>
             IF q = r THEN va = vb ELSE ~ pte[q][va].w /\ ~ pte[r][vb].w
  BY <1>3, <1>4, <1>5
<1>11. Cow!SharedExact
  BY <1>9, <1>10, SameCardinality DEF Cow!SharedExact, Cow!HasMm
<1>12. CowInv
  BY <1>8, <1>11 DEF CowInv
<1>13. Private!Init
  <2>1. \A q \in Proc : Cow!Memory[q] \in [Va -> Value] \cup {NONE}
    BY <1>12, MapFacts DEF Cow!Memory, Cow!HasMm, CowInv, CowTypeOK
  <2>2. Memory = [q \in Proc |-> Cow!Memory[q]]
    BY DEF Memory, Cow!Memory
  <2> QED
    BY <2>1, <2>2 DEF Private!Init
<1> QED
  BY <1>12, <1>13

\* A behaviour that is not about address spaces has no memory to keep.
LEMMA NoMemory ==
    ASSUME manager # "cow" PROVE Memory = [p \in Proc |-> NONE]
BY DEF Memory

\* Every step of Cow keeps the invariant, and is a step of PrivateMemory or
\* none.
LEMMA CowStep ==
    ASSUME manager = "cow", manager' = "cow", CowInv, Cow!Next
    PROVE  CowInv' /\ (Private!Next \/ Memory' = Memory)
<1> PICK p \in Proc :
        \/ \E c \in Proc : Cow!Fork(p, c) \/ Cow!ForkCopies(p, c)
        \/ \E S \in SUBSET Va : S # Va /\ Cow!ForkFails(p, S)
        \/ Cow!Exit(p)
        \/ \E image \in [Va -> Value] : Cow!Exec(p, image)
        \/ \E va \in Va : Cow!StoreFault(p, va) \/ \E v \in Value : Cow!Store(p, va, v)
  BY DEF Cow!Next
<1>1. ASSUME NEW c \in Proc, Cow!Fork(p, c) \/ Cow!ForkCopies(p, c)
      PROVE  CowInv' /\ Private!Fork(p, c)
  BY <1>1, ForkStep, ForkCopiesStep
<1>2. ASSUME NEW S \in SUBSET Va, Cow!ForkFails(p, S)
      PROVE  CowInv' /\ Memory' = Memory
  BY <1>2, ForkFailsStep
<1>3. ASSUME Cow!Exit(p)
      PROVE  CowInv' /\ Private!Exit(p)
  BY <1>3, ExitStep
<1>4. ASSUME NEW image \in [Va -> Value], Cow!Exec(p, image)
      PROVE  CowInv' /\ Private!Exec(p)
  BY <1>4, ExecStep
<1>5. ASSUME NEW va \in Va, Cow!StoreFault(p, va)
      PROVE  CowInv' /\ Memory' = Memory
  BY <1>5, ReuseStep, CopyStep
<1>6. ASSUME NEW va \in Va, NEW v \in Value, Cow!Store(p, va, v)
      PROVE  CowInv' /\ Private!Store(p)
  BY <1>6, StoreStep
<1> QED
  BY <1>1, <1>2, <1>3, <1>4, <1>5, <1>6 DEF Private!Next

-----------------------------------------------------------------------------

\* The constants, and the sizes of blocks.
LEMMA BuddySizes ==
    /\ MAX_ORDER \in Nat \ {0} /\ PAGES \in Nat \ {0} /\ Firsts \subseteq 0..(PAGES - 1)
    /\ Buddy!Orders = 0..(MAX_ORDER - 1) /\ Buddy!Page = 0..(PAGES - 1) /\ NONE \notin Buddy!Orders
    /\ Buddy!Size \in [Buddy!Orders -> Nat \ {0}] /\ Buddy!Size[0] = 1
    /\ \A o \in Buddy!Orders : o + 1 \in Buddy!Orders => Buddy!Size[o + 1] = 2 * Buddy!Size[o]
<1>1. /\ MAX_ORDER \in Nat \ {0} /\ PAGES \in Nat \ {0} /\ Firsts \subseteq 0..(PAGES - 1)
      /\ Buddy!Orders = 0..(MAX_ORDER - 1) /\ Buddy!Page = 0..(PAGES - 1) /\ NONE \notin Buddy!Orders
  BY BuddyArea DEF Buddy!BuddyAssumption, Buddy!Orders, Buddy!Page
<1> DEFINE M == MAX_ORDER - 1
           X == Nat \ {0}
           step == [n \in Nat |-> [x \in X |-> 2 * x]]
           Body(f) == [o \in 0..M |-> IF o = 0 THEN 1 ELSE 2 * f[o - 1]]
           f == CHOOSE f : f = Body(f)
<1>2. M \in Nat
  BY <1>1
<1>3. Buddy!Size = f
  BY <1>1 DEF Buddy!Size
<1> HIDE DEF M
<1>4. PICK g : Follows(g, X, 1, step, M)
  <2>1. step \in [Nat -> [X -> X]] /\ 1 \in X
    OBVIOUS
  <2> HIDE DEF step, X
  <2> QED
    BY <1>2, <2>1, FiniteRecursion
<1>5. g \in [0..M -> X] /\ g[0] = 1 /\ \A n \in 0..M - 1 : g[n + 1] = 2 * g[n]
  <2>1. g \in [0..M -> X] /\ g[0] = 1 /\ \A n \in 0..M - 1 : g[n + 1] = step[n][g[n]]
    BY <1>4 DEF Follows
  <2>2. \A n \in 0..M - 1 : n \in Nat /\ g[n] \in X
    BY <1>2, <2>1
  <2> QED
    BY <2>1, <2>2
<1>6. g = Body(g)
  <2> HIDE DEF X
  <2>1. \A o \in 0..M : o # 0 => o - 1 \in 0..M - 1 /\ (o - 1) + 1 = o
    BY <1>2
  <2>2. \A o \in 0..M : g[o] = IF o = 0 THEN 1 ELSE 2 * g[o - 1]
    BY <1>5, <2>1
  <2> QED
    BY <1>5, <2>2
<1>7. f = Body(f)
  BY <1>6
<1> HIDE DEF f
<1>8. f[0] = 1 /\ \A n \in 0..M - 1 : f[n + 1] = 2 * f[n]
  BY <1>2, <1>7
<1> DEFINE I == {n \in Nat : n <= M => f[n] \in X}
<1>9. 0 \in I
  BY <1>8
<1>10. ASSUME NEW n \in Nat, n \in I PROVE n + 1 \in I
  <2> SUFFICES ASSUME n + 1 <= M PROVE f[n + 1] \in X
    OBVIOUS
  <2>1. n \in 0..M - 1 /\ f[n] \in X
    BY <1>2, <1>10
  <2> QED
    BY <1>8, <2>1
<1>11. Nat \subseteq I
  <2> HIDE DEF I
  <2> QED
    BY <1>9, <1>10, NatInd
<1>12. f \in [0..M -> X]
  <2>1. \A o \in 0..M : f[o] \in X
    BY <1>2, <1>11
  <2> QED
    BY <1>7, <2>1
<1>13. \A o \in 0..M : o + 1 \in 0..M => o \in 0..M - 1
  BY <1>2
<1> QED
  BY <1>1, <1>3, <1>8, <1>12, <1>13 DEF M

\* A larger order is at least twice as large.
LEMMA LargerOrders ==
    \A o, l \in Buddy!Orders : o < l => 2 * Buddy!Size[o] <= Buddy!Size[l]
<1> DEFINE S == Buddy!Size
           M == MAX_ORDER - 1
<1>1. /\ M \in Nat /\ Buddy!Orders = 0..M /\ S \in [0..M -> Nat \ {0}]
      /\ \A o \in 0..M : o + 1 \in 0..M => S[o + 1] = 2 * S[o]
  BY BuddySizes
<1> HIDE DEF S, M
<1> SUFFICES ASSUME NEW o \in 0..M PROVE \A l \in 0..M : o < l => 2 * S[o] <= S[l]
  BY <1>1 DEF S
<1> DEFINE I == {l \in Nat : o < l /\ l <= M => 2 * S[o] <= S[l]}
<1>2. 0 \in I
  BY <1>1
<1>3. ASSUME NEW l \in Nat, l \in I PROVE l + 1 \in I
  <2> SUFFICES ASSUME o < l + 1, l + 1 <= M PROVE 2 * S[o] <= S[l + 1]
    OBVIOUS
  <2>1. l \in 0..M /\ l + 1 \in 0..M /\ S[l + 1] = 2 * S[l] /\ S[l] \in Nat \ {0} /\ S[o] \in Nat \ {0}
    BY <1>1
  <2>2. l = o \/ 2 * S[o] <= S[l]
    BY <1>1, <1>3, <2>1
  <2> QED
    BY <2>1, <2>2
<1>4. Nat \subseteq I
  <2> HIDE DEF I
  <2> QED
    BY <1>2, <1>3, NatInd
<1> QED
  BY <1>1, <1>4

-----------------------------------------------------------------------------
\* The free blocks
FreeTiles == {t \in Buddy!Page \X Buddy!Orders : property[t[1]] = t[2]}

BuddyTypeOK ==
    /\ first \in Firsts
    /\ free_list \in [Buddy!Orders -> Seq(Buddy!Page)] /\ nr_free \in [Buddy!Orders -> Nat]
    /\ property \in [Buddy!Page -> Buddy!Orders \cup {NONE}]
    /\ blocks \in SUBSET (Buddy!Page \X Buddy!Orders)

\* The lists are those of the blocks that say they are free.
BuddyLists ==
    \A o \in Buddy!Orders :
        /\ Distinct(free_list[o]) /\ nr_free[o] = Len(free_list[o])
        /\ Elems(free_list[o]) = {p \in Buddy!Page : property[p] = o}

\* What is free and what is handed out cut the area into blocks.
BuddyTiles ==
    /\ FreeTiles \cap blocks = {}
    /\ Tiles(FreeTiles \cup blocks, first, PAGES, Buddy!Orders, Buddy!Size)

\* Nothing is left to merge.
BuddyMerged ==
    \A p \in Buddy!Page : \A o \in Buddy!Orders : property[p] = o => ~ Buddy!Merges(p, o)

BuddyInv == BuddyTypeOK /\ BuddyLists /\ BuddyTiles /\ BuddyMerged

\* The constants and sizes, as the lemmas above want them.
LEMMA BuddyFacts ==
    /\ MAX_ORDER - 1 \in Nat /\ PAGES \in Nat \ {0} /\ Firsts \subseteq Buddy!Page
    /\ Buddy!Orders = 0..(MAX_ORDER - 1) /\ Buddy!Page = 0..(PAGES - 1) /\ NONE \notin Buddy!Orders
    /\ Doubling(Buddy!Size, MAX_ORDER - 1)
    /\ \A o \in Buddy!Orders : o \in Nat /\ Buddy!Size[o] \in Nat \ {0}
    /\ \A o, l \in Buddy!Orders : o < l => 2 * Buddy!Size[o] <= Buddy!Size[l]
    /\ \A o, l \in Buddy!Orders : o < l => Buddy!Size[o] < Buddy!Size[l]
    /\ \A o, l \in Buddy!Orders : Buddy!Size[o] = Buddy!Size[l] => o = l
<1>1. /\ MAX_ORDER - 1 \in Nat /\ PAGES \in Nat \ {0} /\ Firsts \subseteq Buddy!Page
      /\ Buddy!Orders = 0..(MAX_ORDER - 1) /\ Buddy!Page = 0..(PAGES - 1) /\ NONE \notin Buddy!Orders
      /\ \A o \in Buddy!Orders : o \in Nat /\ Buddy!Size[o] \in Nat \ {0}
  BY BuddySizes
<1>2. Doubling(Buddy!Size, MAX_ORDER - 1)
  BY BuddySizes DEF Doubling
<1>3. ASSUME NEW o \in Buddy!Orders, NEW l \in Buddy!Orders, o < l
      PROVE  2 * Buddy!Size[o] <= Buddy!Size[l] /\ Buddy!Size[o] < Buddy!Size[l]
  <2>1. 2 * Buddy!Size[o] <= Buddy!Size[l]
    BY <1>3, LargerOrders
  <2>2. Buddy!Size[o] \in Nat \ {0} /\ Buddy!Size[l] \in Nat \ {0}
    BY <1>1
  <2> QED
    BY <2>1, <2>2
<1>4. ASSUME NEW o \in Buddy!Orders, NEW l \in Buddy!Orders, Buddy!Size[o] = Buddy!Size[l]
      PROVE  o = l
  <2>1. o \in Nat /\ l \in Nat /\ Buddy!Size[o] \in Nat
    BY <1>1
  <2>2. ~ (o < l) /\ ~ (l < o)
    BY <1>3, <1>4, <2>1
  <2> QED
    BY <2>1, <2>2
<1> QED
  BY <1>1, <1>2, <1>3, <1>4

\* A block that begins where a free one does is that one, and none begins
\* inside it.
LEMMA FreeBlock ==
    ASSUME BuddyInv, NEW p \in Buddy!Page, NEW o \in Buddy!Orders, property[p] = o
    PROVE  /\ <<p, o>> \in FreeTiles /\ <<p, o>> \notin blocks
           /\ \A q \in Buddy!Page : \A k \in Buddy!Orders :
                <<q, k>> \in FreeTiles \cup blocks /\ ~ (q = p /\ k = o)
                  => Beside(q, Buddy!Size[k], p, Buddy!Size[o])
<1>1. <<p, o>> \in FreeTiles
  BY DEF FreeTiles
<1>2. Buddy!Page \subseteq Nat
  BY BuddyFacts
<1> QED
  BY <1>1, <1>2 DEF BuddyInv, BuddyTiles, Tiles

\* get_buddy is as above.
LEMMA BuddyIs ==
    ASSUME NEW p \in Nat, NEW o \in Buddy!Orders
    PROVE  LET q == Buddy!Buddy(p, o)
               s == Buddy!Size[o]
           IN  /\ q \in Nat /\ q # p /\ (q = p + s \/ p = q + s)
               /\ (IF q < p THEN q ELSE p) = (IF q = p + s THEN p ELSE q)
               /\ Buddy!Buddy(q, o) = p
<1> DEFINE q == Buddy!Buddy(p, o)
           s == Buddy!Size[o]
<1>1. p \in Nat /\ s \in Nat \ {0}
  BY BuddyFacts
<1>2. q = BuddyAt(p, s) /\ \A x : Buddy!Buddy(x, o) = BuddyAt(x, s)
  BY DEF Buddy!Buddy, BuddyAt
<1> HIDE DEF q, s
<1>3. q \in Nat /\ (q = p + s \/ p = q + s) /\ BuddyAt(q, s) = p
  BY <1>1, <1>2, Buddies
<1>4. q # p /\ (IF q < p THEN q ELSE p) = (IF q = p + s THEN p ELSE q)
  BY <1>1, <1>3
<1> QED
  BY <1>2, <1>3, <1>4 DEF q, s

-----------------------------------------------------------------------------
\* What buddy_alloc_pages hands out and what it cuts.
LEMMA BuddyAllocIs ==
    ASSUME BuddyInv, NEW n \in 1..Buddy!Size[MAX_ORDER - 1], Buddy!Alloc(n)
    PROVE  \E order, from \in Buddy!Orders : \E page \in Buddy!Page :
             /\ order <= from /\ property[page] = from
             /\ \A o \in order..(from - 1) : o \in Buddy!Orders /\ free_list[o] = <<>>
             /\ free_list[from] # <<>> /\ page = Head(free_list[from])
             /\ first' = first /\ blocks' = blocks \cup {<<page, order>>}
             /\ free_list' = [o \in Buddy!Orders |->
                    IF o = from THEN Tail(free_list[o])
                    ELSE IF o \in order..(from - 1) THEN <<page + Buddy!Size[o]>> \o free_list[o]
                    ELSE free_list[o]]
             /\ nr_free' = [o \in Buddy!Orders |->
                    IF o = from THEN nr_free[o] - 1
                    ELSE IF o \in order..(from - 1) THEN nr_free[o] + 1 ELSE nr_free[o]]
             /\ property' = [p \in Buddy!Page |->
                    IF p = page THEN NONE
                    ELSE IF \E o \in order..(from - 1) : p = page + Buddy!Size[o]
                    THEN CHOOSE o \in order..(from - 1) : p = page + Buddy!Size[o]
                    ELSE property[p]]
<1> DEFINE order == Buddy!log2(n)
           from == CHOOSE o \in Buddy!Available(order) :
                        \A other \in Buddy!Available(order) : o <= other
           page == Head(free_list[from])
<1>1. order \in Buddy!Orders
  <2> DEFINE M == MAX_ORDER - 1
             F == {o \in Buddy!Orders : Buddy!Size[o] >= n}
  <2>1. M \in Nat /\ Buddy!Orders = 0..M /\ F \in SUBSET Nat /\ M \in F
    BY BuddyFacts
  <2>2. PICK o \in F : \A l \in F : o <= l
    BY <2>1, LeastNatural
  <2>3. \A l \in 0..(o - 1) : Buddy!Size[l] < n
    <3> SUFFICES ASSUME NEW l \in 0..(o - 1) PROVE Buddy!Size[l] < n
      OBVIOUS
    <3>1. l \in Buddy!Orders /\ ~ (o <= l)
      BY <2>1
    <3>2. ~ (Buddy!Size[l] >= n) /\ Buddy!Size[l] \in Nat
      BY <2>2, <3>1, BuddyFacts
    <3> QED
      BY <3>2
  <2> QED
    BY <2>3 DEF Buddy!log2
<1>2. Buddy!Available(order) # {} /\ Buddy!Available(order) \in SUBSET Nat
  BY BuddyFacts DEF Buddy!Alloc, Buddy!Available
<1>3. from \in Buddy!Available(order) /\ \A other \in Buddy!Available(order) : from <= other
  <2>1. \E o \in Buddy!Available(order) : \A other \in Buddy!Available(order) : o <= other
    BY <1>2, LeastNatural
  <2> QED
    BY <2>1
<1>4. /\ first' = first /\ blocks' = blocks \cup {<<page, order>>}
      /\ free_list' = [o \in Buddy!Orders |->
                    IF o = from THEN Tail(free_list[o])
                    ELSE IF o \in order..(from - 1) THEN <<page + Buddy!Size[o]>> \o free_list[o]
                    ELSE free_list[o]]
      /\ nr_free' = [o \in Buddy!Orders |->
                    IF o = from THEN nr_free[o] - 1
                    ELSE IF o \in order..(from - 1) THEN nr_free[o] + 1 ELSE nr_free[o]]
      /\ property' = [p \in Buddy!Page |->
                    IF p = page THEN NONE
                    ELSE IF \E o \in order..(from - 1) : p = page + Buddy!Size[o]
                    THEN CHOOSE o \in order..(from - 1) : p = page + Buddy!Size[o]
                    ELSE property[p]]
  BY DEF Buddy!Alloc
<1> HIDE DEF order, from, page
<1>5. from \in Buddy!Orders /\ order <= from /\ free_list[from] # <<>>
  BY <1>3 DEF Buddy!Available
<1>6. \A o \in order..(from - 1) : o \in Buddy!Orders /\ free_list[o] = <<>>
  <2> SUFFICES ASSUME NEW o \in order..(from - 1) PROVE o \in Buddy!Orders /\ free_list[o] = <<>>
    OBVIOUS
  <2>1. o \in Buddy!Orders /\ order <= o /\ ~ (from <= o)
    BY <1>1, <1>5, BuddyFacts
  <2> QED
    BY <1>3, <2>1 DEF Buddy!Available
<1>7. page = Head(free_list[from]) /\ page \in Buddy!Page /\ property[page] = from
  <2>1. free_list[from] \in Seq(Buddy!Page) /\ Elems(free_list[from]) = {p \in Buddy!Page : property[p] = from}
    BY <1>5 DEF BuddyInv, BuddyTypeOK, BuddyLists
  <2>2. Head(free_list[from]) \in Elems(free_list[from])
    BY <1>5, <2>1, TailList
  <2> QED
    BY <2>1, <2>2 DEF page
<1> QED
  BY <1>1, <1>4, <1>5, <1>6, <1>7

\* The list of an order gains or loses what the blocks of that order do.
LEMMA BuddyAllocInv ==
    ASSUME BuddyInv, NEW n \in 1..Buddy!Size[MAX_ORDER - 1], Buddy!Alloc(n)
    PROVE  BuddyInv'
<1>1. PICK order, from \in Buddy!Orders, page \in Buddy!Page :
             /\ order <= from /\ property[page] = from
             /\ \A o \in order..(from - 1) : o \in Buddy!Orders /\ free_list[o] = <<>>
             /\ free_list[from] # <<>> /\ page = Head(free_list[from])
             /\ first' = first /\ blocks' = blocks \cup {<<page, order>>}
             /\ free_list' = [o \in Buddy!Orders |->
                    IF o = from THEN Tail(free_list[o])
                    ELSE IF o \in order..(from - 1) THEN <<page + Buddy!Size[o]>> \o free_list[o]
                    ELSE free_list[o]]
             /\ nr_free' = [o \in Buddy!Orders |->
                    IF o = from THEN nr_free[o] - 1
                    ELSE IF o \in order..(from - 1) THEN nr_free[o] + 1 ELSE nr_free[o]]
             /\ property' = [p \in Buddy!Page |->
                    IF p = page THEN NONE
                    ELSE IF \E o \in order..(from - 1) : p = page + Buddy!Size[o]
                    THEN CHOOSE o \in order..(from - 1) : p = page + Buddy!Size[o]
                    ELSE property[p]]
  BY BuddyAllocIs
<1> DEFINE split == order..(from - 1)
           half(j) == page + Buddy!Size[j]
           T == FreeTiles \cup blocks
           upper == {<<page + Buddy!Size[j], j>> : j \in split}
<1>2. /\ \A j \in split : j \in Buddy!Orders /\ j < from /\ j # from /\ free_list[j] = <<>>
      /\ order \in Nat /\ from \in Nat /\ page \in Nat /\ Buddy!Page = 0..(PAGES - 1)
      /\ PAGES \in Nat
  BY <1>1, BuddyFacts
<1>3. /\ Tiles(((T \ {<<page, from>>}) \cup {<<page, order>>}) \cup upper,
               first, PAGES, Buddy!Orders, Buddy!Size)
      /\ \A j \in split : half(j) \in Nat /\ half(j) < PAGES /\ <<half(j), j>> \notin T
  <2> DEFINE O == 0..(MAX_ORDER - 1)
             S == Buddy!Size
  <2>1. /\ MAX_ORDER - 1 \in Nat /\ Doubling(S, MAX_ORDER - 1) /\ from \in O
        /\ order \in 0..from /\ Buddy!Orders = O
    BY <1>1, <1>2, BuddyFacts
  <2>2. Tiles(T, first, PAGES, O, S) /\ <<page, from>> \in T
    BY <1>1, <2>1, FreeBlock DEF BuddyInv, BuddyTiles
  <2> HIDE DEF T, S
  <2>3. /\ Tiles(((T \ {<<page, from>>}) \cup {<<page, order>>})
                    \cup {<<page + S[j], j>> : j \in order..(from - 1)}, first, PAGES, O, S)
        /\ \A j \in order..(from - 1) :
             page + S[j] \in Nat /\ page + S[j] < PAGES /\ <<page + S[j], j>> \notin T
    BY <1>2, <2>1, <2>2, SplitDown
  <2> QED
    BY <2>1, <2>3 DEF S
<1>4. /\ \A j \in split : half(j) \in Buddy!Page /\ half(j) # page
      /\ \A i, j \in split : half(i) = half(j) => i = j
  <2>1. \A j \in split : Buddy!Size[j] \in Nat \ {0}
    BY <1>2, BuddyFacts
  <2>2. \A i, j \in split : half(i) = half(j) => Buddy!Size[i] = Buddy!Size[j]
    BY <1>2, <2>1
  <2>3. \A i, j \in split : half(i) = half(j) => i = j
    <3> HIDE DEF split, half
    <3> QED
      BY <1>2, <2>2, BuddyFacts
  <2>4. \A j \in split : half(j) \in Buddy!Page
    <3> SUFFICES ASSUME NEW j \in split PROVE half(j) \in Buddy!Page
      OBVIOUS
    <3>1. half(j) \in Nat /\ half(j) < PAGES
      BY <1>3
    <3> DEFINE h == half(j)
    <3> HIDE DEF h
    <3>2. h \in Nat /\ h < PAGES => h \in 0..(PAGES - 1)
      BY <1>2
    <3> QED
      BY <1>2, <3>1, <3>2 DEF h
  <2>5. \A j \in split : half(j) # page
    BY <1>2, <2>1
  <2> QED
    BY <2>3, <2>4, <2>5
<1>5. \A j \in split : property[half(j)] = NONE
  <2> SUFFICES ASSUME NEW j \in split, property[half(j)] # NONE PROVE FALSE
    OBVIOUS
  <2>1. half(j) \in Buddy!Page /\ half(j) # page /\ property[half(j)] \in Buddy!Orders
    BY <1>4 DEF BuddyInv, BuddyTypeOK
  <2> DEFINE k == property[half(j)]
             h == half(j)
  <2>2. Beside(h, Buddy!Size[k], page, Buddy!Size[from])
    <3>1. <<h, k>> \in FreeTiles
      BY <2>1 DEF FreeTiles
    <3> HIDE DEF k, h
    <3> QED
      BY <1>1, <2>1, <3>1, FreeBlock DEF k, h
  <2>3. Buddy!Size[k] \in Nat \ {0} /\ Buddy!Size[j] \in Nat \ {0} /\ Buddy!Size[from] \in Nat
        /\ Buddy!Size[j] < Buddy!Size[from] /\ h = page + Buddy!Size[j]
    BY <1>2, <2>1, BuddyFacts
  <2> DEFINE sk == Buddy!Size[k]
             sj == Buddy!Size[j]
             sf == Buddy!Size[from]
  <2>4. /\ sk \in Nat \ {0} /\ sj \in Nat \ {0} /\ sf \in Nat /\ sj < sf /\ h = page + sj
        /\ page \in Nat /\ (h + sk <= page \/ page + sf <= h)
    BY <1>2, <2>2, <2>3 DEF Beside
  <2> HIDE DEF k, h, sk, sj, sf
  <2> QED
    BY <2>4
<1> HIDE DEF split, half
<1>6. /\ property' \in [Buddy!Page -> Buddy!Orders \cup {NONE}] /\ property'[page] = NONE
      /\ \A j \in split : property'[half(j)] = j
      /\ \A p \in Buddy!Page : p # page /\ (\A j \in split : p # half(j)) => property'[p] = property[p]
  <2>1. property' = [p \in Buddy!Page |->
                    IF p = page THEN NONE
                    ELSE IF \E o \in split : p = half(o)
                    THEN CHOOSE o \in split : p = half(o)
                    ELSE property[p]]
    BY <1>1 DEF split, half
  <2>2. \A j \in split : (CHOOSE o \in split : half(j) = half(o)) = j
    BY <1>4
  <2>3. \A j \in split : property'[half(j)] = j
    BY <1>4, <2>1, <2>2
  <2>4. \A p \in Buddy!Page : p # page /\ (\A j \in split : p # half(j)) => property'[p] = property[p]
    BY <2>1
  <2>5. property'[page] = NONE
    BY <2>1
  <2>6. ASSUME NEW p \in Buddy!Page PROVE property'[p] \in Buddy!Orders \cup {NONE}
    <3>1. CASE p = page
      BY <2>5, <3>1
    <3>2. CASE \E j \in split : p = half(j)
      BY <1>2, <2>3, <3>2
    <3>3. CASE p # page /\ ~ \E j \in split : p = half(j)
      <4>1. property'[p] = property[p]
        BY <2>4, <3>3
      <4> QED
        BY <4>1 DEF BuddyInv, BuddyTypeOK
    <3> QED
      BY <3>1, <3>2, <3>3
  <2>7. property' \in [Buddy!Page -> Buddy!Orders \cup {NONE}]
    <3>1. property' = [p \in Buddy!Page |-> property'[p]]
      BY <2>1
    <3> QED
      BY <2>6, <3>1
  <2> QED
    BY <2>3, <2>4, <2>5, <2>7
<1>7. \A p \in Buddy!Page : \A o \in Buddy!Orders :
        property'[p] = o <=> \/ property[p] = o /\ p # page
                             \/ o \in split /\ p = half(o)
  <2>1. NONE \notin Buddy!Orders
    BY BuddyFacts
  <2> QED
    BY <1>2, <1>4, <1>5, <1>6, <2>1
<1>8. FreeTiles' = (FreeTiles \ {<<page, from>>}) \cup upper
  <2>1. \A p \in Buddy!Page : \A o \in Buddy!Orders :
            <<p, o>> \in FreeTiles' <=> <<p, o>> \in (FreeTiles \ {<<page, from>>}) \cup upper
    <3> SUFFICES ASSUME NEW p \in Buddy!Page, NEW o \in Buddy!Orders
                 PROVE  <<p, o>> \in FreeTiles' <=> <<p, o>> \in (FreeTiles \ {<<page, from>>}) \cup upper
      OBVIOUS
    <3>1. <<p, o>> \in FreeTiles' <=> property'[p] = o
      BY DEF FreeTiles
    <3>2. <<p, o>> \in FreeTiles \ {<<page, from>>} <=> property[p] = o /\ p # page
      BY <1>1 DEF FreeTiles
    <3>3. <<p, o>> \in upper <=> o \in split /\ p = half(o)
      BY DEF half
    <3> QED
      BY <1>7, <3>1, <3>2, <3>3
  <2>2. \A t \in FreeTiles' : t[1] \in Buddy!Page /\ t[2] \in Buddy!Orders /\ t = <<t[1], t[2]>>
    BY DEF FreeTiles
  <2>3. \A t \in (FreeTiles \ {<<page, from>>}) \cup upper :
           t[1] \in Buddy!Page /\ t[2] \in Buddy!Orders /\ t = <<t[1], t[2]>>
    BY <1>2, <1>4 DEF FreeTiles, split, half
  <2> HIDE DEF upper
  <2> QED
    BY <2>1, <2>2, <2>3
<1>9. BuddyTypeOK'
  <2>1. free_list \in [Buddy!Orders -> Seq(Buddy!Page)] /\ nr_free \in [Buddy!Orders -> Nat]
        /\ \A o \in Buddy!Orders : nr_free[o] = Len(free_list[o])
    BY DEF BuddyInv, BuddyTypeOK, BuddyLists
  <2>2. \A o \in Buddy!Orders : free_list'[o] \in Seq(Buddy!Page)
    <3> SUFFICES ASSUME NEW o \in Buddy!Orders PROVE free_list'[o] \in Seq(Buddy!Page)
      OBVIOUS
    <3>1. CASE o = from
      BY <1>1, <2>1, <3>1, TailList
    <3>2. CASE o # from /\ o \in split
      <4>1. <<half(o)>> \in Seq(Buddy!Page)
        BY <1>4, <3>2
      <4>2. free_list'[o] = <<half(o)>> \o free_list[o]
        BY <1>1, <3>2 DEF split, half
      <4> QED
        BY <2>1, <4>1, <4>2, ConcatList
    <3>3. CASE o # from /\ o \notin split
      BY <1>1, <2>1, <3>3 DEF split
    <3> QED
      BY <3>1, <3>2, <3>3
  <2>3. nr_free[from] # 0
    <3>1. free_list[from] \in Seq(Buddy!Page) /\ nr_free[from] = Len(free_list[from])
      BY <2>1
    <3> QED
      BY <1>1, <3>1
  <2>4. nr_free' \in [Buddy!Orders -> Nat]
    BY <1>1, <2>1, <2>3
  <2>5. free_list' \in [Buddy!Orders -> Seq(Buddy!Page)]
    BY <1>1, <2>2
  <2>6. blocks' \in SUBSET (Buddy!Page \X Buddy!Orders)
    BY <1>1 DEF BuddyInv, BuddyTypeOK
  <2> QED
    BY <1>1, <1>6, <2>4, <2>5, <2>6 DEF BuddyInv, BuddyTypeOK
<1>10. BuddyLists'
  <2> SUFFICES ASSUME NEW o \in Buddy!Orders
               PROVE  /\ Distinct(free_list'[o]) /\ nr_free'[o] = Len(free_list'[o])
                      /\ Elems(free_list'[o]) = {p \in Buddy!Page : property'[p] = o}
    BY DEF BuddyLists
  <2> DEFINE l == free_list[o]
             E == {p \in Buddy!Page : property[p] = o}
             N1 == {p \in Buddy!Page : property'[p] = o}
  <2>1. l \in Seq(Buddy!Page) /\ Distinct(l) /\ nr_free[o] = Len(l) /\ Elems(l) = E
    BY DEF BuddyInv, BuddyTypeOK, BuddyLists
  <2>2. CASE o = from
    <3>1. l # <<>> /\ free_list'[o] = Tail(l) /\ nr_free'[o] = nr_free[o] - 1 /\ page = Head(l)
      BY <1>1, <2>2
    <3>2. N1 = E \ {page}
      BY <1>2, <1>7, <2>2
    <3> HIDE DEF l, E, N1
    <3>3. Distinct(Tail(l)) /\ Elems(Tail(l)) = Elems(l) \ {Head(l)} /\ Len(Tail(l)) = Len(l) - 1
      BY <2>1, <3>1, TailList
    <3> QED
      BY <2>1, <3>1, <3>2, <3>3 DEF N1
  <2>3. CASE o # from /\ o \in split
    <3>1. free_list'[o] = <<half(o)>> \o l /\ nr_free'[o] = nr_free[o] + 1 /\ l = <<>>
      BY <1>1, <2>3 DEF split, half
    <3>2. N1 = {half(o)}
      <4>1. E = {}
        BY <2>1, <3>1, EmptyList
      <4> QED
        BY <1>4, <1>7, <2>3, <4>1
    <3>3. <<half(o)>> \o l = <<half(o)>>
      BY <3>1
    <3>4. Len(<<half(o)>>) = 1 /\ Len(l) = 0
      BY <3>1
    <3> HIDE DEF l, E, N1
    <3> QED
      BY <2>1, <3>1, <3>2, <3>3, <3>4, SingletonList DEF N1
  <2>4. CASE o # from /\ o \notin split
    <3>1. free_list'[o] = l /\ nr_free'[o] = nr_free[o]
      BY <1>1, <2>4 DEF split
    <3>2. N1 = E
      BY <1>1, <1>7, <2>4
    <3> HIDE DEF l, E, N1
    <3> QED
      BY <2>1, <3>1, <3>2 DEF N1
  <2> QED
    BY <2>2, <2>3, <2>4
<1>11. BuddyTiles'
  <2>1. FreeTiles \cap blocks = {} /\ <<page, from>> \in FreeTiles /\ <<page, from>> \notin blocks
    BY <1>1, FreeBlock DEF BuddyInv, BuddyTiles
  <2>2. FreeTiles' \cup blocks' = ((T \ {<<page, from>>}) \cup {<<page, order>>}) \cup upper
    <3> HIDE DEF upper
    <3> QED
      BY <1>1, <1>8, <2>1
  <2>3. <<page, order>> \notin FreeTiles'
    BY <1>6, BuddyFacts DEF FreeTiles
  <2>4. upper \cap blocks = {}
    BY <1>3 DEF half, split
  <2>5. FreeTiles' \cap blocks' = {}
    <3> HIDE DEF upper
    <3> QED
      BY <1>1, <1>8, <2>1, <2>3, <2>4
  <2>6. Tiles(FreeTiles' \cup blocks', first', PAGES, Buddy!Orders, Buddy!Size)
    <3> HIDE DEF upper, T
    <3> QED
      BY <1>1, <1>3, <2>2
  <2> QED
    BY <2>5, <2>6 DEF BuddyTiles
<1>12. BuddyMerged'
  <2> SUFFICES ASSUME NEW p \in Buddy!Page, NEW o \in Buddy!Orders, property'[p] = o,
                      Buddy!Merges(p, o)'
               PROVE  FALSE
    BY DEF BuddyMerged
  <2> DEFINE q == Buddy!Buddy(p, o)
  <2>2. o < MAX_ORDER - 1 /\ q \in Buddy!Page /\ property'[q] = o
    BY DEF Buddy!Merges
  <2>3. q # p /\ Buddy!Buddy(q, o) = p
    BY <1>2, <2>2, BuddyIs
  <2> HIDE DEF q
  <2>4. ASSUME property[p] = o, property[q] = o PROVE FALSE
    <3>1. Buddy!Merges(p, o)
      BY <2>2, <2>4 DEF Buddy!Merges, q
    <3> QED
      BY <2>4, <3>1 DEF BuddyInv, BuddyMerged
  <2>5. \A x \in Buddy!Page : property[x] = o => o \notin split
    <3> SUFFICES ASSUME NEW x \in Buddy!Page, property[x] = o, o \in split PROVE FALSE
      OBVIOUS
    <3>1. x \in Elems(free_list[o])
      BY DEF BuddyInv, BuddyLists
    <3>2. Elems(free_list[o]) = {}
      BY <1>2, EmptyList
    <3> QED
      BY <3>1, <3>2
  <2> QED
    BY <1>7, <2>2, <2>3, <2>4, <2>5
<1> QED
  BY <1>9, <1>10, <1>11, <1>12 DEF BuddyInv

-----------------------------------------------------------------------------
\* Where a freed block begins, order by order.
LEMMA ReachedIs ==
    ASSUME NEW base \in Buddy!Page, NEW order \in Buddy!Orders
    PROVE  LET at == Buddy!Reached(base, order)
           IN  /\ at \in [order..(MAX_ORDER - 1) -> Nat] /\ at[order] = base
               /\ \A o \in order..(MAX_ORDER - 1) : o + 1 <= MAX_ORDER - 1 =>
                    LET q == Buddy!Buddy(at[o], o)
                    IN  at[o + 1] = IF q < at[o] THEN q ELSE at[o]
<1> DEFINE M == MAX_ORDER - 1
           low(x, o) == IF Buddy!Buddy(x, o) < x THEN Buddy!Buddy(x, o) ELSE x
           step == [k \in Nat |-> [x \in Nat |-> IF order + k \in Buddy!Orders THEN low(x, order + k) ELSE x]]
           Body(f) == [o \in order..M |-> IF o = order THEN base ELSE low(f[o - 1], o - 1)]
           f == CHOOSE f : f = Body(f)
<1>1. M \in Nat /\ Buddy!Orders = 0..M /\ order \in Nat /\ order <= M /\ base \in Nat
  BY BuddyFacts
<1>2. Buddy!Reached(base, order) = f
  BY DEF Buddy!Reached
<1>3. \A x \in Nat : \A o \in Buddy!Orders : low(x, o) \in Nat
  BY BuddyIs
<1> HIDE DEF low
<1>4. step \in [Nat -> [Nat -> Nat]]
  BY <1>3
<1>5. PICK g : Follows(g, Nat, base, step, M - order)
  <2>1. M - order \in Nat
    BY <1>1
  <2> HIDE DEF step, M
  <2> QED
    BY <1>1, <1>4, <2>1, FiniteRecursion
<1> HIDE DEF M
<1>6. /\ g \in [0..(M - order) -> Nat] /\ g[0] = base
      /\ \A n \in 0..(M - order) - 1 : g[n + 1] = low(g[n], order + n)
  <2>1. /\ g \in [0..(M - order) -> Nat] /\ g[0] = base
        /\ \A n \in 0..(M - order) - 1 : g[n + 1] = step[n][g[n]]
    BY <1>5 DEF Follows
  <2>2. \A n \in 0..(M - order) - 1 : n \in Nat /\ g[n] \in Nat /\ order + n \in Buddy!Orders
    BY <1>1, <2>1
  <2> QED
    BY <2>1, <2>2
<1> DEFINE h == [o \in order..M |-> g[o - order]]
<1>7. h = Body(h) /\ h \in [order..M -> Nat]
  <2>1. h \in [order..M -> Nat]
    BY <1>1, <1>6
  <2>2. ASSUME NEW o \in order..M PROVE h[o] = IF o = order THEN base ELSE low(h[o - 1], o - 1)
    <3>1. CASE o = order
      <4>1. o - order = 0
        BY <1>1, <3>1
      <4> QED
        BY <1>6, <3>1, <4>1
    <3>2. CASE o # order
      <4> DEFINE n == o - order - 1
      <4>1. /\ n \in 0..(M - order) - 1 /\ n + 1 = o - order /\ order + n = o - 1
            /\ o - 1 \in order..M /\ n = (o - 1) - order
        BY <1>1, <3>2
      <4>2. h[o] = g[n + 1] /\ h[o - 1] = g[n]
        BY <4>1
      <4> HIDE DEF n, h
      <4>3. g[n + 1] = low(g[n], order + n)
        BY <1>6, <4>1
      <4> QED
        BY <3>2, <4>1, <4>2, <4>3
    <3> QED
      BY <3>1, <3>2
  <2> HIDE DEF h
  <2>3. h = [o \in order..M |-> h[o]]
    BY <2>1
  <2> QED
    BY <2>1, <2>2, <2>3
<1>8. f = Body(f)
  BY <1>7
<1> HIDE DEF f
<1>9. f = h
  <2>0. DOMAIN f = order..M /\ \A o \in order..M : f[o] = IF o = order THEN base ELSE low(f[o - 1], o - 1)
    BY <1>8
  <2>1. \A o \in order..M : h[o] = IF o = order THEN base ELSE low(h[o - 1], o - 1)
    BY <1>7
  <2> DEFINE I == {k \in Nat : k <= M - order => f[order + k] = h[order + k]}
  <2> HIDE DEF h
  <2>2. 0 \in I
    <3>1. order + 0 = order /\ order \in order..M
      BY <1>1
    <3> QED
      BY <2>0, <2>1, <3>1
  <2>3. ASSUME NEW k \in Nat, k \in I PROVE k + 1 \in I
    <3> SUFFICES ASSUME k + 1 <= M - order PROVE f[order + (k + 1)] = h[order + (k + 1)]
      OBVIOUS
    <3> DEFINE o == order + (k + 1)
    <3>1. o \in order..M /\ o # order /\ o - 1 = order + k /\ k <= M - order
      BY <1>1
    <3>2. f[o - 1] = h[o - 1]
      BY <2>3, <3>1
    <3> HIDE DEF o
    <3>3. f[o] = h[o]
      BY <2>0, <2>1, <3>1, <3>2
    <3> QED
      BY <3>3 DEF o
  <2>4. \A o \in order..M : f[o] = h[o]
    <3> SUFFICES ASSUME NEW o \in order..M PROVE f[o] = h[o]
      OBVIOUS
    <3>1. o - order \in Nat /\ o - order <= M - order /\ order + (o - order) = o
      BY <1>1
    <3>2. o - order \in I
      <4> HIDE DEF I
      <4> QED
        BY <2>2, <2>3, <3>1, NatInd
    <3> QED
      BY <3>1, <3>2
  <2>5. DOMAIN h = order..M /\ h = [o \in order..M |-> h[o]]
    BY <1>7
  <2>6. f = [o \in order..M |-> f[o]]
    BY <1>8
  <2> QED
    BY <2>4, <2>5, <2>6
<1>10. f \in [order..M -> Nat] /\ \A o \in order..M : f[o] = IF o = order THEN base ELSE low(f[o - 1], o - 1)
  <2> HIDE DEF h
  <2> QED
    BY <1>7, <1>8, <1>9
<1>11. f[order] = base
  BY <1>1, <1>10
<1>12. ASSUME NEW o \in order..M, o + 1 <= M PROVE f[o + 1] = low(f[o], o)
  <2>1. o + 1 \in order..M /\ o + 1 # order /\ (o + 1) - 1 = o
    BY <1>1, <1>12
  <2> QED
    BY <1>10, <2>1
<1> QED
  BY <1>2, <1>10, <1>11, <1>12 DEF M, low

\* How far buddy_free_pages merges, and what it changes.
LEMMA BuddyFreeIs ==
    ASSUME BuddyInv, NEW base \in Buddy!Page, NEW order \in Buddy!Orders, Buddy!Free(base, order)
    PROVE  \E at \in [order..(MAX_ORDER - 1) -> Nat] : \E top \in order..(MAX_ORDER - 1) :
             LET taken == {Buddy!Buddy(at[o], o) : o \in order..(top - 1)}
             IN  /\ at[order] = base
                 /\ \A o \in order..(MAX_ORDER - 1) : o + 1 <= MAX_ORDER - 1 =>
                        LET q == Buddy!Buddy(at[o], o)
                        IN  at[o + 1] = IF q < at[o] THEN q ELSE at[o]
                 /\ ~ Buddy!Merges(at[top], top)
                 /\ \A l \in order..(top - 1) : Buddy!Merges(at[l], l)
                 /\ <<base, order>> \in blocks
                 /\ first' = first /\ blocks' = blocks \ {<<base, order>>}
                 /\ free_list' = [o \in Buddy!Orders |->
                        IF o = top THEN <<at[top]>> \o Buddy!Keep(free_list[o], Buddy!Page \ taken)
                        ELSE Buddy!Keep(free_list[o], Buddy!Page \ taken)]
                 /\ nr_free' = [o \in Buddy!Orders |->
                        IF o = top THEN nr_free[o] + 1
                        ELSE IF o \in order..(top - 1) THEN nr_free[o] - 1 ELSE nr_free[o]]
                 /\ property' = [p \in Buddy!Page |->
                        IF p = at[top] THEN top ELSE IF p \in taken THEN NONE ELSE property[p]]
<1> DEFINE M == MAX_ORDER - 1
           at == Buddy!Reached(base, order)
           F == {o \in order..M : ~ Buddy!Merges(at[o], o)}
           top == CHOOSE o \in order..M :
                    ~ Buddy!Merges(at[o], o) /\ \A l \in order..(o - 1) : Buddy!Merges(at[l], l)
           taken == {Buddy!Buddy(at[o], o) : o \in order..(top - 1)}
<1>1. /\ M \in Nat /\ order \in 0..M
  BY BuddyFacts
<1>2. /\ at \in [order..M -> Nat] /\ at[order] = base
      /\ \A o \in order..M : o + 1 <= M =>
            LET q == Buddy!Buddy(at[o], o) IN at[o + 1] = IF q < at[o] THEN q ELSE at[o]
  BY ReachedIs
<1>3. top \in order..M /\ ~ Buddy!Merges(at[top], top) /\ \A l \in order..(top - 1) : Buddy!Merges(at[l], l)
  <2>1. F \in SUBSET Nat /\ M \in F
    <3>1. \A o \in order..M : o \in Nat
      BY <1>1
    <3>2. ~ Buddy!Merges(at[M], M) /\ M \in order..M
      BY <1>1 DEF Buddy!Merges
    <3> QED
      BY <3>1, <3>2
  <2>2. PICK o \in F : \A l \in F : o <= l
    <3> HIDE DEF F
    <3> QED
      BY <2>1, LeastNatural
  <2>3. \A l \in order..(o - 1) : Buddy!Merges(at[l], l)
    <3> SUFFICES ASSUME NEW l \in order..(o - 1), ~ Buddy!Merges(at[l], l) PROVE FALSE
      OBVIOUS
    <3>1. l \in order..M /\ ~ (o <= l)
      BY <1>1
    <3> QED
      BY <2>2, <3>1
  <2>4. o \in order..M /\ ~ Buddy!Merges(at[o], o)
    OBVIOUS
  <2> HIDE DEF at, F, M
  <2> QED
    BY <2>3, <2>4
<1>4. /\ <<base, order>> \in blocks
      /\ first' = first /\ blocks' = blocks \ {<<base, order>>}
      /\ free_list' = [o \in Buddy!Orders |->
                        IF o = top THEN <<at[top]>> \o Buddy!Keep(free_list[o], Buddy!Page \ taken)
                        ELSE Buddy!Keep(free_list[o], Buddy!Page \ taken)]
      /\ nr_free' = [o \in Buddy!Orders |->
                        IF o = top THEN nr_free[o] + 1
                        ELSE IF o \in order..(top - 1) THEN nr_free[o] - 1 ELSE nr_free[o]]
      /\ property' = [p \in Buddy!Page |->
                        IF p = at[top] THEN top ELSE IF p \in taken THEN NONE ELSE property[p]]
  BY DEF Buddy!Free
<1> HIDE DEF at, top
<1> QED
  BY <1>2, <1>3, <1>4

\* A list without one of its elements is one shorter.
LEMMA KeepButOne ==
    ASSUME NEW S, NEW s \in Seq(S), Distinct(s), NEW T, NEW x, x \in Elems(s), Elems(s) \cap T = Elems(s) \ {x}
    PROVE  Len(Keep(s, T)) = Len(s) - 1
<1> DEFINE k == Keep(s, T)
<1>1. k \in Seq(S) /\ Elems(k) = Elems(s) \ {x} /\ Distinct(k)
  BY KeepList
<1> HIDE DEF k
<1>2. Cardinality(Elems(k)) = Len(k) /\ Cardinality(Elems(s)) = Len(s)
  BY <1>1, DistinctLength
<1>3. IsFiniteSet(Elems(s))
  <2>1. Len(s) \in Nat /\ s \in [1..Len(s) -> Elems(s)]
    BY DEF Elems
  <2>2. s \in Surjection(1..Len(s), Elems(s))
    BY <2>1 DEF Surjection, Elems
  <2>3. IsFiniteSet(1..Len(s))
    BY <2>1, FS_Interval
  <2> QED
    BY <2>2, <2>3, FS_Surjection
<1>4. Cardinality(Elems(s) \ {x}) = Cardinality(Elems(s)) - 1
  BY <1>3, FS_RemoveElement
<1>5. Len(k) = Len(s) - 1
  BY <1>1, <1>2, <1>4
<1> QED
  BY <1>5 DEF k

\* The step of buddy_free_pages.
LEMMA BuddyFreeInv ==
    ASSUME BuddyInv, NEW base \in Buddy!Page, NEW order \in Buddy!Orders, Buddy!Free(base, order)
    PROVE  BuddyInv'
<1> DEFINE M == MAX_ORDER - 1
<1>1. PICK at \in [order..M -> Nat], top \in order..M :
             LET taken == {Buddy!Buddy(at[o], o) : o \in order..(top - 1)}
             IN  /\ at[order] = base
                 /\ \A o \in order..M : o + 1 <= M =>
                        LET q == Buddy!Buddy(at[o], o)
                        IN  at[o + 1] = IF q < at[o] THEN q ELSE at[o]
                 /\ ~ Buddy!Merges(at[top], top)
                 /\ \A l \in order..(top - 1) : Buddy!Merges(at[l], l)
                 /\ <<base, order>> \in blocks
                 /\ first' = first /\ blocks' = blocks \ {<<base, order>>}
                 /\ free_list' = [o \in Buddy!Orders |->
                        IF o = top THEN <<at[top]>> \o Buddy!Keep(free_list[o], Buddy!Page \ taken)
                        ELSE Buddy!Keep(free_list[o], Buddy!Page \ taken)]
                 /\ nr_free' = [o \in Buddy!Orders |->
                        IF o = top THEN nr_free[o] + 1
                        ELSE IF o \in order..(top - 1) THEN nr_free[o] - 1 ELSE nr_free[o]]
                 /\ property' = [p \in Buddy!Page |->
                        IF p = at[top] THEN top ELSE IF p \in taken THEN NONE ELSE property[p]]
  BY BuddyFreeIs
<1> DEFINE joined == order..(top - 1)
           bud == [o \in joined |-> Buddy!Buddy(at[o], o)]
           taken == {bud[o] : o \in joined}
           tiles == {<<bud[j], j>> : j \in joined}
           T == FreeTiles \cup blocks
           b == at[top]
<1>2. /\ M \in Nat /\ order \in 0..M /\ Buddy!Orders = 0..M /\ top \in Buddy!Orders
      /\ \A o \in joined : o \in Buddy!Orders /\ o \in order..M /\ o + 1 <= M /\ o < top /\ o # top
  BY BuddyFacts
<1>3. ASSUME NEW o \in joined
      PROVE  /\ bud[o] \in Buddy!Page /\ bud[o] \in Nat /\ property[bud[o]] = o
             /\ <<bud[o], o>> \in T
             /\ \/ bud[o] = at[o] + Buddy!Size[o] /\ at[o + 1] = at[o]
                \/ at[o] = bud[o] + Buddy!Size[o] /\ at[o + 1] = bud[o]
  <2> DEFINE q == Buddy!Buddy(at[o], o)
  <2>1. Buddy!Merges(at[o], o) /\ bud[o] = q /\ o \in Buddy!Orders /\ at[o] \in Nat
        /\ at[o + 1] = IF q < at[o] THEN q ELSE at[o]
    BY <1>1, <1>2
  <2>2. q \in Buddy!Page /\ property[q] = o
    BY <2>1 DEF Buddy!Merges
  <2>3. /\ q \in Nat /\ (q = at[o] + Buddy!Size[o] \/ at[o] = q + Buddy!Size[o])
        /\ at[o + 1] = IF q = at[o] + Buddy!Size[o] THEN at[o] ELSE q
    BY <2>1, BuddyIs
  <2>4. <<q, o>> \in T
    BY <2>1, <2>2, FreeBlock
  <2> HIDE DEF q
  <2> QED
    BY <2>1, <2>2, <2>3, <2>4
<1>4. /\ at[order] = base /\ ~ Buddy!Merges(b, top) /\ <<base, order>> \in blocks
      /\ first' = first /\ blocks' = blocks \ {<<base, order>>}
      /\ free_list' = [o \in Buddy!Orders |->
             IF o = top THEN <<b>> \o Keep(free_list[o], Buddy!Page \ taken)
             ELSE Keep(free_list[o], Buddy!Page \ taken)]
      /\ nr_free' = [o \in Buddy!Orders |->
             IF o = top THEN nr_free[o] + 1
             ELSE IF o \in joined THEN nr_free[o] - 1 ELSE nr_free[o]]
      /\ property' = [p \in Buddy!Page |->
             IF p = b THEN top ELSE IF p \in taken THEN NONE ELSE property[p]]
  <2>1. taken = {Buddy!Buddy(at[o], o) : o \in order..(top - 1)}
    OBVIOUS
  <2>2. \A s, U : Buddy!Keep(s, U) = Keep(s, U)
    BY DEF Buddy!Keep, Keep
  <2> HIDE DEF taken
  <2> QED
    BY <1>1, <2>1, <2>2
<1> HIDE DEF bud
<1>5. /\ Tiles(((T \ {<<base, order>>}) \ tiles) \cup {<<b, top>>}, first, PAGES, Buddy!Orders, Buddy!Size)
      /\ b = base \/ b \in taken
      /\ top # order => <<b, top>> \notin T
  <2> DEFINE O == 0..M
             S == Buddy!Size
  <2>1. M \in Nat /\ Doubling(S, M) /\ Buddy!Orders = O
    BY BuddyFacts
  <2>2. Tiles(T, first, PAGES, O, S)
    BY <2>1 DEF BuddyInv, BuddyTiles
  <2>3. at[order] \in Nat /\ <<at[order], order>> \in T
    BY <1>2, <1>4, BuddyFacts
  <2>4. \A o \in order..(top - 1) :
              /\ bud[o] \in Nat /\ <<bud[o], o>> \in T
              /\ \/ bud[o] = at[o] + S[o] /\ at[o + 1] = at[o]
                 \/ at[o] = bud[o] + S[o] /\ at[o + 1] = bud[o]
    BY <1>3
  <2>5. order \in 0..M /\ top \in order..M
    BY <1>2
  <2>7. Climbs(at, bud, T, S, order, top)
    BY <2>3, <2>4 DEF Climbs
  <2>8. M \in Nat /\ Doubling(S, M) /\ Tiles(T, first, PAGES, 0..M, S)
    BY <2>1, <2>2
  <2> HIDE DEF T, S, M, O, joined, taken, tiles, b
  <2>6. Tiles(Joined(at, bud, T, order, top), first, PAGES, 0..M, S) /\ Climbed(at, bud, T, order, top)
    BY <2>5, <2>7, <2>8, JoinUp
  <2> QED
    BY <1>4, <2>1, <2>6 DEF S, O, joined, taken, tiles, b, Joined, Climbed
<1>6. property[base] = NONE
  <2> SUFFICES ASSUME property[base] # NONE PROVE FALSE
    OBVIOUS
  <2> DEFINE k == property[base]
  <2>1. k \in Buddy!Orders
    BY DEF BuddyInv, BuddyTypeOK
  <2>2. <<base, k>> \in FreeTiles /\ <<base, k>> \notin blocks
    BY <2>1, FreeBlock
  <2>3. k # order
    BY <1>4, <2>2
  <2>4. Beside(base, Buddy!Size[order], base, Buddy!Size[k])
    <3> HIDE DEF k
    <3> QED
      BY <1>4, <2>1, <2>3, FreeBlock DEF k
  <2>5. base \in Nat /\ Buddy!Size[order] \in Nat \ {0} /\ Buddy!Size[k] \in Nat \ {0}
    BY <2>1, BuddyFacts
  <2> QED
    BY <2>4, <2>5 DEF Beside
<1>7. b \in Buddy!Page /\ b \in Nat
  <2>1. \A p \in Buddy!Page : p \in Nat
    BY BuddyFacts
  <2>2. CASE b \in taken
    <3>1. PICK j \in joined : b = bud[j]
      BY <2>2
    <3> QED
      BY <1>3, <3>1
  <2>3. CASE b = base
    BY <2>1, <2>3
  <2> QED
    BY <1>5, <2>2, <2>3
<1> HIDE DEF b, joined
<1>8. \A p \in Buddy!Page : \A o \in Buddy!Orders :
        property'[p] = o <=> \/ p = b /\ o = top
                             \/ property[p] = o /\ p \notin taken
  <2>1. NONE \notin Buddy!Orders
    BY BuddyFacts
  <2> QED
    BY <1>2, <1>4, <1>5, <1>6, <2>1
<1>9. FreeTiles' = (FreeTiles \ tiles) \cup {<<b, top>>}
  <2>1. \A p \in Buddy!Page : \A o \in Buddy!Orders :
            <<p, o>> \in FreeTiles' <=> <<p, o>> \in (FreeTiles \ tiles) \cup {<<b, top>>}
    <3> SUFFICES ASSUME NEW p \in Buddy!Page, NEW o \in Buddy!Orders
                 PROVE  <<p, o>> \in FreeTiles' <=> <<p, o>> \in (FreeTiles \ tiles) \cup {<<b, top>>}
      OBVIOUS
    <3>1. (<<p, o>> \in FreeTiles' <=> property'[p] = o) /\ (<<p, o>> \in FreeTiles <=> property[p] = o)
      BY DEF FreeTiles
    <3>2. property[p] = o => (<<p, o>> \in tiles <=> p \in taken)
      <4>1. ASSUME <<p, o>> \in tiles PROVE p \in taken
        <5>1. PICK j \in joined : <<p, o>> = <<bud[j], j>>
          BY <4>1
        <5>2. p = bud[j]
          BY <5>1
        <5> QED
          BY <5>2
      <4>2. ASSUME property[p] = o, p \in taken PROVE <<p, o>> \in tiles
        <5>1. PICK j \in joined : p = bud[j]
          BY <4>2
        <5>2. property[bud[j]] = j
          BY <1>3
        <5>3. o = j
          BY <4>2, <5>1, <5>2
        <5> QED
          BY <5>1, <5>3
      <4> QED
        BY <4>1, <4>2
    <3>3. property'[p] = o <=> \/ p = b /\ o = top
                               \/ property[p] = o /\ p \notin taken
      BY <1>8
    <3>4. <<p, o>> = <<b, top>> <=> p = b /\ o = top
      OBVIOUS
    <3> HIDE DEF tiles, taken
    <3>5. <<p, o>> \in (FreeTiles \ tiles) \cup {<<b, top>>} <=>
             (<<p, o>> \in FreeTiles /\ <<p, o>> \notin tiles) \/ (p = b /\ o = top)
      BY <3>4
    <3> QED
      BY <3>1, <3>2, <3>3, <3>5
  <2>2. \A t \in FreeTiles' : t[1] \in Buddy!Page /\ t[2] \in Buddy!Orders /\ t = <<t[1], t[2]>>
    BY DEF FreeTiles
  <2>3. \A t \in (FreeTiles \ tiles) \cup {<<b, top>>} :
           t[1] \in Buddy!Page /\ t[2] \in Buddy!Orders /\ t = <<t[1], t[2]>>
    BY <1>2, <1>7 DEF FreeTiles
  <2> HIDE DEF tiles
  <2> QED
    BY <2>1, <2>2, <2>3
<1>10. ASSUME NEW o \in Buddy!Orders
       PROVE  /\ free_list'[o] \in Seq(Buddy!Page) /\ Distinct(free_list'[o])
              /\ nr_free'[o] = Len(free_list'[o])
              /\ Elems(free_list'[o]) = {p \in Buddy!Page : property'[p] = o}
  <2> DEFINE l == free_list[o]
             E == {p \in Buddy!Page : property[p] = o}
             N1 == {p \in Buddy!Page : property'[p] = o}
             kept == Keep(l, Buddy!Page \ taken)
  <2>1. l \in Seq(Buddy!Page) /\ Distinct(l) /\ nr_free[o] = Len(l) /\ Elems(l) = E
    BY DEF BuddyInv, BuddyTypeOK, BuddyLists
  <2>2. E \subseteq Buddy!Page /\ E \cap (Buddy!Page \ taken) = E \ taken
    OBVIOUS
  <2>3. /\ free_list'[o] = IF o = top THEN <<b>> \o kept ELSE kept
        /\ nr_free'[o] = IF o = top THEN nr_free[o] + 1
                         ELSE IF o \in joined THEN nr_free[o] - 1 ELSE nr_free[o]
    BY <1>4
  <2>4. N1 = (IF o = top THEN {b} ELSE {}) \cup (E \ taken)
    <3> HIDE DEF taken
    <3> QED
      BY <1>2, <1>7, <1>8
  <2>5. ASSUME o \in joined PROVE bud[o] \in E /\ E \ taken = E \ {bud[o]}
    <3>1. bud[o] \in E /\ bud[o] \in taken
      BY <1>3, <2>5
    <3>2. \A x \in taken : x \in E => x = bud[o]
      <4> SUFFICES ASSUME NEW j \in joined, bud[j] \in E PROVE bud[j] = bud[o]
        OBVIOUS
      <4>1. property[bud[j]] = j
        BY <1>3
      <4>2. property[bud[j]] = o
        OBVIOUS
      <4> QED
        BY <4>1, <4>2
    <3> HIDE DEF E, taken
    <3> QED
      BY <3>1, <3>2
  <2>6. o \notin joined => E \ taken = E
    BY <1>3
  <2>7. o = top => o \notin joined /\ b \notin E \ taken
    BY <1>2, <1>5, <1>6, BuddyFacts
  <2> HIDE DEF l, E, N1, taken
  <2>8. kept \in Seq(Buddy!Page) /\ Elems(kept) = E \ taken /\ Distinct(kept)
    BY <2>1, <2>2, KeepList
  <2>9. Len(kept) = IF o \in joined THEN Len(l) - 1 ELSE Len(l)
    <3>1. CASE o \in joined
      <4>1. bud[o] \in Elems(l) /\ Elems(l) \cap (Buddy!Page \ taken) = Elems(l) \ {bud[o]}
        BY <2>1, <2>2, <2>5, <3>1
      <4> QED
        BY <2>1, <3>1, <4>1, KeepButOne
    <3>2. CASE o \notin joined
      <4>1. Elems(l) \subseteq Buddy!Page \ taken
        BY <2>1, <2>2, <2>6, <3>2
      <4> QED
        BY <2>1, <3>2, <4>1, KeepList
    <3> QED
      BY <3>1, <3>2
  <2> HIDE DEF kept
  <2>10. CASE o = top
    <3>1. <<b>> \in Seq(Buddy!Page) /\ Distinct(<<b>>) /\ Elems(<<b>>) = {b} /\ Len(<<b>>) = 1
      BY <1>7, SingletonList
    <3>2. {b} \cap (E \ taken) = {}
      BY <2>7, <2>10
    <3>5. Elems(<<b>>) \cap Elems(kept) = {}
      BY <2>8, <3>1, <3>2
    <3>3. /\ <<b>> \o kept \in Seq(Buddy!Page) /\ Elems(<<b>> \o kept) = {b} \cup (E \ taken)
          /\ Distinct(<<b>> \o kept)
      <4> DEFINE u == <<b>>
                 Q == Buddy!Page
      <4>1. u \in Seq(Q) /\ Distinct(u) /\ Elems(u) = {b}
        BY <3>1
      <4>2. kept \in Seq(Q) /\ Elems(kept) = E \ taken /\ Distinct(kept) /\ Elems(u) \cap Elems(kept) = {}
        BY <2>8, <3>5
      <4> HIDE DEF u, Q
      <4>3. /\ u \o kept \in Seq(Q) /\ Elems(u \o kept) = Elems(u) \cup Elems(kept)
            /\ Distinct(u \o kept)
        BY <4>1, <4>2, ConcatList
      <4> QED
        BY <4>1, <4>2, <4>3 DEF u, Q
    <3>4. Len(<<b>> \o kept) = 1 + Len(kept) /\ Len(kept) = Len(l) /\ Len(l) \in Nat
      BY <2>1, <2>7, <2>8, <2>9, <2>10, <3>1
    <3> QED
      BY <2>1, <2>3, <2>4, <2>10, <3>3, <3>4 DEF N1
  <2>11. CASE o # top
    BY <2>1, <2>3, <2>4, <2>8, <2>9, <2>11 DEF N1
  <2> QED
    BY <2>10, <2>11
<1>11. BuddyTypeOK'
  <2>1. free_list' \in [Buddy!Orders -> Seq(Buddy!Page)]
    BY <1>4, <1>10
  <2>2. nr_free' \in [Buddy!Orders -> Nat]
    <3>1. \A o \in Buddy!Orders : nr_free'[o] \in Nat
      BY <1>10
    <3> QED
      BY <1>4, <3>1
  <2>3. property' \in [Buddy!Page -> Buddy!Orders \cup {NONE}]
    BY <1>2, <1>4 DEF BuddyInv, BuddyTypeOK
  <2>4. blocks' \in SUBSET (Buddy!Page \X Buddy!Orders) /\ first' \in Firsts
    BY <1>4 DEF BuddyInv, BuddyTypeOK
  <2> QED
    BY <2>1, <2>2, <2>3, <2>4 DEF BuddyTypeOK
<1>12. BuddyLists'
  BY <1>10 DEF BuddyLists
<1>13. BuddyTiles'
  <2>1. FreeTiles \cap blocks = {} /\ <<base, order>> \in blocks
    BY <1>4 DEF BuddyInv, BuddyTiles
  <2>2. tiles \subseteq FreeTiles
    <3> SUFFICES ASSUME NEW j \in joined PROVE <<bud[j], j>> \in FreeTiles
      OBVIOUS
    <3>1. bud[j] \in Buddy!Page /\ j \in Buddy!Orders /\ property[bud[j]] = j
      BY <1>2, <1>3
    <3> QED
      BY <3>1 DEF FreeTiles
  <2>3. <<b, top>> \notin blocks'
    <3>1. CASE top # order
      BY <1>4, <1>5, <3>1
    <3>2. CASE top = order
      <4>1. b = base
        BY <1>4, <3>2 DEF b
      <4> QED
        BY <1>4, <3>2, <4>1
    <3> QED
      BY <3>1, <3>2
  <2> HIDE DEF tiles
  <2>4. FreeTiles' \cup blocks' = ((T \ {<<base, order>>}) \ tiles) \cup {<<b, top>>}
    BY <1>4, <1>9, <2>1, <2>2
  <2>5. FreeTiles' \cap blocks' = {}
    BY <1>4, <1>9, <2>1, <2>3
  <2>6. Tiles(FreeTiles' \cup blocks', first', PAGES, Buddy!Orders, Buddy!Size)
    <3> HIDE DEF T
    <3> QED
      BY <1>4, <1>5, <2>4
  <2> QED
    BY <2>5, <2>6 DEF BuddyTiles
<1>14. BuddyMerged'
  <2> SUFFICES ASSUME NEW p \in Buddy!Page, NEW o \in Buddy!Orders, property'[p] = o,
                      Buddy!Merges(p, o)'
               PROVE  FALSE
    BY DEF BuddyMerged
  <2> DEFINE q == Buddy!Buddy(p, o)
  <2>1. o < M /\ q \in Buddy!Page /\ property'[q] = o
    BY DEF Buddy!Merges
  <2>2. q # p /\ Buddy!Buddy(q, o) = p
    BY BuddyFacts, BuddyIs
  <2> HIDE DEF q
  <2>3. ASSUME property[p] = o, property[q] = o PROVE FALSE
    <3>1. Buddy!Merges(p, o)
      BY <2>1, <2>3 DEF Buddy!Merges, q
    <3> QED
      BY <2>3, <3>1 DEF BuddyInv, BuddyMerged
  <2>4. ASSUME p = b, o = top, property[q] = o PROVE FALSE
    BY <1>4, <2>1, <2>4 DEF Buddy!Merges, q
  <2>5. ASSUME q = b, o = top, property[p] = o PROVE FALSE
    <3>1. Buddy!Merges(q, o)
      BY <2>1, <2>2, <2>5 DEF Buddy!Merges
    <3> QED
      BY <1>4, <2>5, <3>1
  <2> QED
    BY <1>8, <2>1, <2>2, <2>3, <2>4, <2>5
<1> QED
  BY <1>11, <1>12, <1>13, <1>14 DEF BuddyInv

-----------------------------------------------------------------------------
\* The largest block that n pages have room for.
LEMMA LargestIs ==
    ASSUME NEW n \in Nat \ {0}
    PROVE  LET o == Buddy!Largest(n)
           IN  /\ o \in Buddy!Orders /\ Buddy!Size[o] <= n
               /\ \A h \in Buddy!Orders : Buddy!Size[h] <= n => h <= o
<1> DEFINE S == Buddy!Size
           M == MAX_ORDER - 1
           Is(o, m) == S[o] <= n /\ \A h \in 0..m : S[h] <= n => h <= o
           I == {m \in Nat : m <= M => \E o \in 0..m : Is(o, m)}
<1>1. /\ M \in Nat /\ Buddy!Orders = 0..M /\ S \in [0..M -> Nat \ {0}] /\ S[0] = 1
  BY BuddySizes
<1> HIDE DEF S, M
<1>2. 0 \in I
  <2>1. Is(0, 0)
    BY <1>1
  <2> HIDE DEF Is
  <2> QED
    BY <2>1
<1>3. ASSUME NEW m \in Nat, m \in I PROVE m + 1 \in I
  <2> SUFFICES ASSUME m + 1 <= M PROVE \E o \in 0..(m + 1) : Is(o, m + 1)
    OBVIOUS
  <2>1. m + 1 \in 0..(m + 1) /\ 0..(m + 1) = 0..m \cup {m + 1} /\ m <= M /\ m + 1 \in 0..M
    BY <1>1
  <2>2. PICK o \in 0..m : Is(o, m)
    BY <1>3, <2>1
  <2>3. CASE S[m + 1] <= n
    <3>1. Is(m + 1, m + 1)
      BY <2>3
    <3> HIDE DEF Is
    <3> QED
      BY <2>1, <3>1
  <2>4. CASE ~ (S[m + 1] <= n)
    <3>1. Is(o, m + 1)
      BY <2>1, <2>2, <2>4
    <3> HIDE DEF Is
    <3> QED
      BY <2>1, <3>1
  <2> QED
    BY <2>3, <2>4
<1>4. M \in I
  <2> HIDE DEF I
  <2> QED
    BY <1>1, <1>2, <1>3, NatInd
<1>5. PICK o \in Buddy!Orders : Is(o, M)
  BY <1>1, <1>4
<1>6. Buddy!Largest(n) = CHOOSE l \in Buddy!Orders : Is(l, M)
  BY <1>1 DEF Buddy!Largest, S
<1>7. Buddy!Largest(n) \in Buddy!Orders /\ Is(Buddy!Largest(n), M)
  <2> HIDE DEF Is
  <2> QED
    BY <1>5, <1>6
<1> QED
  BY <1>1, <1>7 DEF S

\* Where the loop of buddy_init_mmp is after k blocks.
LEMMA AfterIs ==
    ASSUME NEW base \in Buddy!Page
    PROVE  LET cur == Buddy!After(base)
           IN  /\ cur \in [0..PAGES -> 0..PAGES] /\ cur[0] = base
               /\ \A k \in 0..PAGES - 1 :
                    cur[k + 1] = IF cur[k] = PAGES THEN PAGES
                                 ELSE cur[k] + Buddy!Size[Buddy!Largest(PAGES - cur[k])]
<1> DEFINE X == 0..PAGES
           next0(x) == IF x = PAGES THEN PAGES ELSE x + Buddy!Size[Buddy!Largest(PAGES - x)]
           step == [k \in Nat |-> [x \in X |-> next0(x)]]
           Body(f) == [k \in 0..PAGES |-> IF k = 0 THEN base ELSE next0(f[k - 1])]
           f == CHOOSE f : f = Body(f)
<1>1. PAGES \in Nat \ {0} /\ base \in X /\ base \in Nat
  BY BuddyFacts
<1>2. Buddy!After(base) = f
  BY DEF Buddy!After
<1>3. \A x \in X : next0(x) \in X
  <2> SUFFICES ASSUME NEW x \in X, x # PAGES
               PROVE  x + Buddy!Size[Buddy!Largest(PAGES - x)] \in X
    BY <1>1
  <2> DEFINE o == Buddy!Largest(PAGES - x)
             s == Buddy!Size[o]
  <2>1. PAGES - x \in Nat \ {0}
    BY <1>1
  <2>2. o \in Buddy!Orders /\ s <= PAGES - x
    BY <2>1, LargestIs
  <2>3. s \in Nat
    BY <2>2, BuddyFacts
  <2> HIDE DEF s
  <2>4. x + s \in X
    BY <1>1, <2>2, <2>3
  <2> QED
    BY <2>4 DEF s
<1> HIDE DEF next0
<1>4. step \in [Nat -> [X -> X]]
  BY <1>3
<1>5. PICK g : Follows(g, X, base, step, PAGES)
  <2> HIDE DEF step, X
  <2> QED
    BY <1>1, <1>4, FiniteRecursion
<1>6. g \in [0..PAGES -> X] /\ g[0] = base /\ \A n \in 0..PAGES - 1 : g[n + 1] = next0(g[n])
  <2>1. g \in [0..PAGES -> X] /\ g[0] = base /\ \A n \in 0..PAGES - 1 : g[n + 1] = step[n][g[n]]
    BY <1>5 DEF Follows
  <2>2. \A n \in 0..PAGES - 1 : n \in Nat /\ g[n] \in X
    BY <1>1, <2>1
  <2> QED
    BY <2>1, <2>2
<1>7. g = Body(g)
  <2> HIDE DEF X
  <2>1. \A k \in 0..PAGES : k # 0 => k - 1 \in 0..PAGES - 1 /\ (k - 1) + 1 = k
    BY <1>1
  <2>2. \A k \in 0..PAGES : g[k] = IF k = 0 THEN base ELSE next0(g[k - 1])
    BY <1>6, <2>1
  <2> QED
    BY <1>6, <2>2
<1>8. f = Body(f)
  BY <1>7
<1> HIDE DEF f
<1>9. f[0] = base /\ \A k \in 0..PAGES - 1 : f[k + 1] = next0(f[k])
  <2>1. \A k \in 0..PAGES - 1 : k + 1 \in 0..PAGES /\ k + 1 # 0 /\ (k + 1) - 1 = k
    BY <1>1
  <2> QED
    BY <1>1, <1>8, <2>1
<1> DEFINE I == {k \in Nat : k <= PAGES => f[k] \in X}
<1>10. Nat \subseteq I
  <2>1. 0 \in I
    BY <1>1, <1>9
  <2>2. ASSUME NEW k \in Nat, k \in I PROVE k + 1 \in I
    <3> SUFFICES ASSUME k + 1 <= PAGES PROVE f[k + 1] \in X
      OBVIOUS
    <3>1. k \in 0..PAGES - 1 /\ f[k] \in X
      BY <1>1, <2>2
    <3> HIDE DEF X
    <3> QED
      BY <1>3, <1>9, <3>1
  <2> HIDE DEF I
  <2> QED
    BY <2>1, <2>2, NatInd
<1>11. f \in [0..PAGES -> X]
  <2>1. \A k \in 0..PAGES : f[k] \in X
    BY <1>10
  <2> HIDE DEF X
  <2> QED
    BY <1>8, <2>1
<1> QED
  BY <1>2, <1>9, <1>11 DEF next0

\* A block put behind the others.
LEMMA AddBlock ==
    ASSUME NEW lo \in Nat, NEW hi \in Nat, NEW O, NEW S \in [O -> Nat \ {0}],
           NEW T, Tiles(T, lo, hi, O, S), NEW o \in O, lo <= hi
    PROVE  Tiles(T \cup {<<hi, o>>}, lo, hi + S[o], O, S)
<1> DEFINE U == T \cup {<<hi, o>>}
           top == hi + S[o]
<1>1. /\ \A t \in T : t = <<t[1], t[2]>> /\ t[1] \in Nat /\ t[2] \in O
      /\ \A d \in Nat, l \in O : <<d, l>> \in T => lo <= d /\ d + S[l] <= hi
      /\ \A d, e \in Nat, k, l \in O :
          <<d, k>> \in T /\ <<e, l>> \in T /\ ~ (d = e /\ k = l) => Beside(d, S[k], e, S[l])
      /\ \A x \in Nat : lo <= x /\ x < hi =>
          \E d \in Nat, l \in O : <<d, l>> \in T /\ d <= x /\ x < d + S[l]
  BY DEF Tiles
<1>2. S[o] \in Nat \ {0} /\ \A l \in O : S[l] \in Nat \ {0}
  OBVIOUS
<1>3. top \in Nat /\ hi < top
  BY <1>2
<1>4. \A d \in Nat, l \in O : <<d, l>> \in U <=> <<d, l>> \in T \/ (d = hi /\ l = o)
  OBVIOUS
<1>5. \A t \in U : t = <<t[1], t[2]>> /\ t[1] \in Nat /\ t[2] \in O
  BY <1>1
<1> HIDE DEF U
<1>6. \A d \in Nat, l \in O : <<d, l>> \in U => lo <= d /\ d + S[l] <= top
  BY <1>1, <1>2, <1>4
<1>7. ASSUME NEW d \in Nat, NEW e \in Nat, NEW k \in O, NEW l \in O,
             <<d, k>> \in U, <<e, l>> \in U, ~ (d = e /\ k = l)
      PROVE  Beside(d, S[k], e, S[l])
  <2>1. CASE <<d, k>> \in T /\ <<e, l>> \in T
    BY <1>1, <1>7, <2>1
  <2>2. CASE <<d, k>> \in T /\ e = hi
    BY <1>1, <2>2 DEF Beside
  <2>3. CASE <<e, l>> \in T /\ d = hi
    BY <1>1, <2>3 DEF Beside
  <2> QED
    BY <1>4, <1>7, <2>1, <2>2, <2>3
<1>8. ASSUME NEW x \in Nat, lo <= x, x < top
      PROVE  \E d \in Nat, l \in O : <<d, l>> \in U /\ d <= x /\ x < d + S[l]
  <2>1. CASE x < hi
    <3>1. PICK d \in Nat, l \in O : <<d, l>> \in T /\ d <= x /\ x < d + S[l]
      BY <1>1, <1>8, <2>1
    <3> QED
      BY <1>4, <3>1
  <2>2. CASE hi <= x
    <3>1. <<hi, o>> \in U
      BY <1>4
    <3>2. x < hi + S[o]
      BY <1>8
    <3> QED
      BY <2>2, <3>1, <3>2
  <2>3. x < hi \/ hi <= x
    OBVIOUS
  <2> QED
    BY <2>1, <2>2, <2>3
<1>9. Tiles(U, lo, top, O, S)
  <2> HIDE DEF top
  <2> QED
    BY <1>3, <1>5, <1>6, <1>7, <1>8 DEF Tiles
<1> QED
  BY <1>9 DEF U, top

\* The blocks buddy_init_mmp begins with cut the area.
CutTiles(base) == {<<b, Buddy!Largest(PAGES - b)>> : b \in Buddy!Cuts(base)}

\* The blocks buddy_init_memmap makes cut the pages from base on.
LEMMA CutsTile ==
    ASSUME NEW base \in Buddy!Page
    PROVE  Tiles(CutTiles(base), base, PAGES, Buddy!Orders, Buddy!Size)
<1> DEFINE cur == Buddy!After(base)
           O == Buddy!Orders
           S == Buddy!Size
           L(b) == Buddy!Largest(PAGES - b)
           V(k) == {b \in 0..PAGES : b # PAGES /\ \E j \in 0..(k - 1) : b = cur[j]}
           T(k) == {<<b, L(b)>> : b \in V(k)}
           P(k) == /\ base <= cur[k] /\ Tiles(T(k), base, cur[k], O, S)
                   /\ cur[k] = PAGES \/ base + k <= cur[k]
           I == {k \in Nat : k <= PAGES => P(k)}
<1>1. /\ PAGES \in Nat \ {0} /\ base \in Nat /\ base < PAGES
      /\ S \in [O -> Nat \ {0}] /\ \A o \in O : S[o] \in Nat \ {0}
  BY BuddyFacts DEF Doubling
<1>2. /\ cur \in [0..PAGES -> 0..PAGES] /\ cur[0] = base
      /\ \A k \in 0..PAGES - 1 :
            cur[k + 1] = IF cur[k] = PAGES THEN PAGES ELSE cur[k] + S[L(cur[k])]
  BY AfterIs
<1>3. Buddy!Cuts(base) = {cur[k] : k \in 0..PAGES} \ {PAGES}
  BY DEF Buddy!Cuts
<1>4. \A b \in 0..PAGES : b # PAGES => L(b) \in O
  <2> SUFFICES ASSUME NEW b \in 0..PAGES, b # PAGES PROVE L(b) \in O
    OBVIOUS
  <2>1. PAGES - b \in Nat \ {0}
    BY <1>1
  <2> QED
    BY <2>1, LargestIs
<1> HIDE DEF cur, O, S, L
<1>5. 0 \in I
  <2>1. V(0) = {}
    OBVIOUS
  <2>2. T(0) = {}
    BY <2>1
  <2>3. Tiles({}, base, base, O, S)
    BY <1>1 DEF Tiles
  <2>4. base <= cur[0] /\ base + 0 <= cur[0]
    BY <1>1, <1>2
  <2> HIDE DEF T
  <2>5. Tiles(T(0), base, cur[0], O, S)
    BY <1>2, <2>2, <2>3
  <2>6. P(0)
    BY <2>4, <2>5
  <2> HIDE DEF P
  <2> QED
    BY <2>6
<1>6. ASSUME NEW k \in Nat, k \in I PROVE k + 1 \in I
  <2> SUFFICES ASSUME k + 1 <= PAGES PROVE P(k + 1)
    OBVIOUS
  <2> DEFINE c == cur[k]
             d == cur[k + 1]
  <2>1. /\ k \in 0..PAGES - 1 /\ k \in 0..PAGES /\ k + 1 \in 0..PAGES /\ k <= PAGES
        /\ 0..((k + 1) - 1) = 0..(k - 1) \cup {k}
    BY <1>1
  <2>2. /\ c \in 0..PAGES /\ c \in Nat /\ d = IF c = PAGES THEN PAGES ELSE c + S[L(c)]
        /\ base <= c /\ Tiles(T(k), base, c, O, S) /\ (c = PAGES \/ base + k <= c)
    <3>1. P(k)
      <4> HIDE DEF P
      <4> QED
        BY <1>6, <2>1
    <3>4. \A x \in 0..PAGES : x \in Nat
      BY <1>1
    <3>5. cur[k] \in 0..PAGES
      BY <1>2, <2>1
    <3>2. c \in 0..PAGES /\ c \in Nat
      BY <3>4, <3>5
    <3>3. d = IF c = PAGES THEN PAGES ELSE c + S[L(c)]
      BY <1>2, <2>1
    <3> HIDE DEF T, d
    <3> QED
      BY <3>1, <3>2, <3>3
  <2> HIDE DEF d
  <2>3. V(k + 1) = IF c = PAGES THEN V(k) ELSE V(k) \cup {c}
    BY <2>1, <2>2
  <2> HIDE DEF c, V
  <2>4. CASE c = PAGES
    <3>1. T(k + 1) = T(k) /\ d = c
      BY <2>2, <2>3, <2>4
    <3> HIDE DEF T
    <3> QED
      BY <2>2, <2>4, <3>1 DEF d
  <2>5. CASE c # PAGES
    <3>1. T(k + 1) = T(k) \cup {<<c, L(c)>>}
      BY <2>3, <2>5
    <3>2. d = c + S[L(c)] /\ L(c) \in O /\ S[L(c)] \in Nat \ {0}
      BY <1>1, <1>4, <2>2, <2>5
    <3> HIDE DEF T
    <3>3. Tiles(T(k + 1), base, d, O, S)
      <4> DEFINE l == L(c)
                 W == T(k)
      <4>1. l \in O /\ Tiles(W, base, c, O, S)
        BY <2>2, <3>2
      <4> HIDE DEF l, W
      <4>2. Tiles(W \cup {<<c, l>>}, base, c + S[l], O, S)
        BY <1>1, <2>2, <4>1, AddBlock
      <4> QED
        BY <3>1, <3>2, <4>2 DEF l, W
    <3>4. base <= d /\ base + (k + 1) <= d
      <4> DEFINE s == S[L(c)]
      <4> HIDE DEF s
      <4> QED
        BY <1>1, <2>2, <2>5, <3>2 DEF s
    <3> QED
      BY <3>3, <3>4 DEF d
  <2> QED
    BY <2>4, <2>5
<1>7. P(PAGES)
  <2> HIDE DEF P
  <2>1. Nat \subseteq I
    <3> HIDE DEF I
    <3> QED
      BY <1>5, <1>6, NatInd
  <2> QED
    BY <1>1, <2>1
<1>8. cur[PAGES] = PAGES
  <2>1. cur[PAGES] \in 0..PAGES
    BY <1>1, <1>2
  <2> HIDE DEF T
  <2> QED
    BY <1>1, <1>7, <2>1
<1>9. V(PAGES) = Buddy!Cuts(base)
  <2>1. 0..PAGES = 0..(PAGES - 1) \cup {PAGES}
    BY <1>1
  <2>2. \A j \in 0..PAGES : cur[j] \in 0..PAGES
    BY <1>2
  <2> QED
    BY <1>3, <1>8, <2>1, <2>2
<1>10. T(PAGES) = CutTiles(base)
  BY <1>9 DEF CutTiles, L
<1> HIDE DEF T
<1> QED
  BY <1>7, <1>8, <1>10 DEF O, S

\* The cardinality of the buddy allocator is the one of this module.
LEMMA BuddyCardinality ==
    ASSUME NEW S
    PROVE  Buddy!Cardinality(S) = Cardinality(S)
BY Zenon DEF Buddy!Cardinality, Cardinality

\* The list of some pages, from the last one on.
LEMMA DescendingIs ==
    ASSUME NEW S, S \subseteq Buddy!Page
    PROVE  /\ Buddy!Descending(S) \in Seq(Buddy!Page) /\ Distinct(Buddy!Descending(S))
           /\ Elems(Buddy!Descending(S)) = S /\ Cardinality(S) = Len(Buddy!Descending(S))
           /\ Cardinality(S) \in Nat
<1> DEFINE l == [i \in 1..PAGES |-> PAGES - i]
<1>1. PAGES \in Nat \ {0} /\ Buddy!Page = 0..(PAGES - 1)
  BY BuddyFacts
<1>2. \A i \in 1..PAGES : PAGES - i \in Buddy!Page
  BY <1>1
<1>3. l \in Seq(Buddy!Page) /\ Len(l) = PAGES
  BY <1>1, <1>2
<1>4. Distinct(l) /\ Elems(l) = Buddy!Page
  <2>1. \A i \in 1..PAGES : l[i] = PAGES - i
    OBVIOUS
  <2> HIDE DEF l
  <2>2. Distinct(l)
    BY <1>1, <1>3, <2>1 DEF Distinct
  <2>3. Elems(l) \subseteq Buddy!Page
    BY <1>2, <1>3, <2>1 DEF Elems
  <2>4. ASSUME NEW p \in Buddy!Page PROVE p \in Elems(l)
    <3>1. PAGES - p \in 1..PAGES /\ PAGES - (PAGES - p) = p
      BY <1>1
    <3> QED
      BY <1>3, <2>1, <3>1 DEF Elems
  <2> QED
    BY <2>2, <2>3, <2>4
<1>5. Buddy!Descending(S) = Keep(l, S)
  BY DEF Buddy!Descending, Buddy!Keep, Keep
<1> HIDE DEF l
<1> DEFINE k == Keep(l, S)
<1>6. k \in Seq(Buddy!Page) /\ Elems(k) = Buddy!Page \cap S /\ Distinct(k)
  BY <1>3, <1>4, KeepList
<1> HIDE DEF k
<1>7. Cardinality(Elems(k)) = Len(k) /\ Len(k) \in Nat
  <2>1. Cardinality(Elems(k)) = Len(k)
    BY <1>6, DistinctLength
  <2>2. Len(k) \in Nat
    BY <1>6
  <2> QED
    BY <2>1, <2>2
<1>8. Elems(k) = S
  BY <1>6
<1> QED
  BY <1>5, <1>6, <1>7, <1>8 DEF k

\* The state buddy_init_mmp leaves.
LEMMA BuddyInit ==
    ASSUME Buddy!Init PROVE BuddyInv
<1> DEFINE L(b) == Buddy!Largest(PAGES - b)
           O == Buddy!Orders
           S == Buddy!Size
           C == Buddy!Cuts(first)
<1>1. /\ first \in Firsts /\ first \in Buddy!Page
      /\ free_list = [o \in O |-> Buddy!Descending(Buddy!Cut(first, o))]
      /\ nr_free = [o \in O |-> Buddy!Cardinality(Buddy!Cut(first, o))]
      /\ property = [p \in Buddy!Page |-> IF p \in C THEN L(p) ELSE NONE]
      /\ blocks = {}
  BY BuddyFacts DEF Buddy!Init
<1>2. /\ PAGES \in Nat \ {0} /\ Buddy!Page = 0..(PAGES - 1) /\ NONE \notin O
      /\ MAX_ORDER - 1 \in Nat /\ O = 0..(MAX_ORDER - 1)
      /\ \A p \in Buddy!Page : p \in Nat
      /\ \A o \in O : o \in Nat /\ S[o] \in Nat \ {0}
      /\ \A o \in O : o + 1 \in O => S[o + 1] = 2 * S[o]
  BY BuddyFacts, BuddySizes
<1>3. C \subseteq Buddy!Page
  <2>1. Buddy!After(first) \in [0..PAGES -> 0..PAGES]
    BY <1>1, AfterIs
  <2>2. \A x \in 0..PAGES : x # PAGES => x \in Buddy!Page
    BY <1>2
  <2> QED
    BY <2>1, <2>2 DEF Buddy!Cuts
<1>4. \A p \in Buddy!Page : /\ L(p) \in O /\ S[L(p)] <= PAGES - p
                            /\ \A h \in O : S[h] <= PAGES - p => h <= L(p)
  <2> SUFFICES ASSUME NEW p \in Buddy!Page
               PROVE  /\ L(p) \in O /\ S[L(p)] <= PAGES - p
                      /\ \A h \in O : S[h] <= PAGES - p => h <= L(p)
    OBVIOUS
  <2>1. PAGES - p \in Nat \ {0}
    BY <1>2
  <2> QED
    BY <2>1, LargestIs
<1> HIDE DEF L
<1>5. \A p \in Buddy!Page : \A o \in O : property[p] = o <=> p \in C /\ L(p) = o
  BY <1>1, <1>2
<1>6. \A o \in O : Buddy!Cut(first, o) = {p \in Buddy!Page : property[p] = o}
  <2>1. \A o \in O : Buddy!Cut(first, o) = {b \in C : L(b) = o}
    BY DEF Buddy!Cut, L
  <2> QED
    BY <1>3, <1>5, <2>1
<1>7. ASSUME NEW o \in O
      PROVE  /\ free_list[o] \in Seq(Buddy!Page) /\ Distinct(free_list[o])
             /\ nr_free[o] = Len(free_list[o]) /\ nr_free[o] \in Nat
             /\ Elems(free_list[o]) = {p \in Buddy!Page : property[p] = o}
  <2> DEFINE X == {p \in Buddy!Page : property[p] = o}
  <2>1. free_list[o] = Buddy!Descending(X) /\ nr_free[o] = Cardinality(X)
    BY <1>1, <1>6, BuddyCardinality
  <2>2. X \subseteq Buddy!Page
    OBVIOUS
  <2> HIDE DEF X
  <2>3. /\ Buddy!Descending(X) \in Seq(Buddy!Page) /\ Distinct(Buddy!Descending(X))
        /\ Elems(Buddy!Descending(X)) = X /\ Cardinality(X) = Len(Buddy!Descending(X))
        /\ Cardinality(X) \in Nat
    BY <2>2, DescendingIs
  <2> QED
    BY <2>1, <2>3 DEF X
<1>8. FreeTiles = CutTiles(first)
  <2>1. \A t \in FreeTiles : t = <<t[1], t[2]>> /\ t[1] \in C /\ t[2] = L(t[1])
    BY <1>5 DEF FreeTiles
  <2>2. CutTiles(first) = {<<b, L(b)>> : b \in C}
    BY DEF CutTiles, L
  <2>3. \A b \in C : <<b, L(b)>> \in FreeTiles
    <3> SUFFICES ASSUME NEW b \in C PROVE <<b, L(b)>> \in FreeTiles
      OBVIOUS
    <3>1. b \in Buddy!Page /\ L(b) \in O /\ property[b] = L(b)
      BY <1>3, <1>4, <1>5
    <3> QED
      BY <3>1 DEF FreeTiles
  <2> QED
    BY <2>1, <2>2, <2>3
<1>9. BuddyTypeOK
  <2>1. free_list \in [O -> Seq(Buddy!Page)] /\ nr_free \in [O -> Nat]
    BY <1>1, <1>7
  <2>2. property \in [Buddy!Page -> O \cup {NONE}]
    BY <1>1, <1>4
  <2> QED
    BY <1>1, <2>1, <2>2 DEF BuddyTypeOK
<1>10. BuddyLists
  BY <1>7 DEF BuddyLists
<1>11. BuddyTiles
  BY <1>1, <1>8, CutsTile DEF BuddyTiles
<1>12. BuddyMerged
  <2> SUFFICES ASSUME NEW p \in Buddy!Page, NEW o \in O, property[p] = o, Buddy!Merges(p, o)
               PROVE  FALSE
    BY DEF BuddyMerged
  <2> DEFINE q == Buddy!Buddy(p, o)
             s == S[o]
  <2>1. o < MAX_ORDER - 1 /\ q \in Buddy!Page /\ property[q] = o /\ q # p
    BY <1>2, BuddyIs DEF Buddy!Merges
  <2> HIDE DEF q
  <2>2. o + 1 \in O /\ S[o + 1] = 2 * s /\ s \in Nat \ {0}
    BY <1>2, <2>1
  <2>3. p \in C /\ q \in C /\ L(p) = o /\ L(q) = o
    BY <1>5, <2>1
  <2>4. ~ (S[o + 1] <= PAGES - p) /\ ~ (S[o + 1] <= PAGES - q)
    <3>1. ~ (o + 1 <= o)
      BY <1>2
    <3> QED
      BY <1>4, <2>1, <2>2, <2>3, <3>1
  <2>5. s <= PAGES - p /\ s <= PAGES - q
    BY <1>4, <2>1, <2>3
  <2>6. Beside(p, s, q, s)
    <3>1. <<p, o>> \in FreeTiles /\ <<q, o>> \in FreeTiles
      BY <2>1 DEF FreeTiles
    <3> QED
      BY <1>2, <1>11, <2>1, <3>1 DEF BuddyTiles, Tiles
  <2> HIDE DEF s
  <2> QED
    BY <1>2, <2>1, <2>2, <2>4, <2>5, <2>6 DEF Beside
<1> QED
  BY <1>9, <1>10, <1>11, <1>12 DEF BuddyInv

\* A step of the buddy allocator, or of nobody.
LEMMA BuddyStep ==
    ASSUME BuddyInv, Buddy!Next PROVE BuddyInv'
<1>1. ASSUME NEW n \in 1..Buddy!Size[MAX_ORDER - 1], Buddy!Alloc(n) PROVE BuddyInv'
  BY <1>1, BuddyAllocInv
<1>2. ASSUME NEW b \in blocks, Buddy!Free(b[1], b[2]) PROVE BuddyInv'
  <2>1. b[1] \in Buddy!Page /\ b[2] \in Buddy!Orders
    BY DEF BuddyInv, BuddyTypeOK
  <2> QED
    BY <1>2, <2>1, BuddyFreeInv
<1> QED
  BY <1>1, <1>2 DEF Buddy!Next

\* The pages of a block are those from its first one on.
LEMMA BuddyPages ==
    ASSUME NEW b \in Nat, NEW o \in Buddy!Orders
    PROVE  \A x : x \in Buddy!Block(b, o) <=> x \in Nat /\ b <= x /\ x < b + Buddy!Size[o]
<1>1. Buddy!Size[o] \in Nat
  BY BuddyFacts
<1> QED
  BY <1>1 DEF Buddy!Block

\* What the invariant says of the area and its pages.
LEMMA BuddyIsExact ==
    ASSUME BuddyInv PROVE Buddy!BuddyExact
<1> DEFINE O == Buddy!Orders
           S == Buddy!Size
           H == Buddy!Heads
           T == FreeTiles \cup blocks
<1>1. /\ \A p \in Buddy!Page : p \in Nat
      /\ \A o \in O : o \in Nat /\ S[o] \in Nat \ {0}
      /\ NONE \notin O /\ PAGES \in Nat /\ first \in Nat
  BY BuddyFacts DEF BuddyInv, BuddyTypeOK
<1>2. \A p \in H : p \in Buddy!Page /\ property[p] \in O /\ <<p, property[p]>> \in FreeTiles
  BY DEF Buddy!Heads, BuddyInv, BuddyTypeOK, FreeTiles
<1>3. \A t \in FreeTiles : t = <<t[1], property[t[1]]>> /\ t[1] \in H
  BY <1>1 DEF Buddy!Heads, FreeTiles
<1>4. \A t \in blocks : t = <<t[1], t[2]>> /\ t[1] \in Nat /\ t[2] \in O
  BY <1>1 DEF BuddyInv, BuddyTypeOK
<1>5. FreeTiles \cap blocks = {} /\ Tiles(T, first, PAGES, O, S)
  BY DEF BuddyInv, BuddyTiles
<1>6. \A o \in O : /\ Buddy!Distinct(free_list[o]) /\ nr_free[o] = Len(free_list[o])
                   /\ Buddy!Elems(free_list[o]) = {p \in Buddy!Page : property[p] = o}
  BY DEF BuddyInv, BuddyLists, Buddy!Distinct, Buddy!Elems, Distinct, Elems
<1>7. ASSUME NEW p \in H, NEW q \in H, p # q
      PROVE  Buddy!Block(p, property[p]) \cap Buddy!Block(q, property[q]) = {}
  <2>1. Beside(p, S[property[p]], q, S[property[q]])
    BY <1>1, <1>2, <1>5, <1>7 DEF Tiles
  <2> SUFFICES ASSUME NEW x \in Buddy!Block(p, property[p]), x \in Buddy!Block(q, property[q]) PROVE FALSE
    OBVIOUS
  <2>2. /\ x \in Nat /\ p <= x /\ x < p + S[property[p]] /\ q <= x /\ x < q + S[property[q]]
        /\ p \in Nat /\ q \in Nat /\ S[property[p]] \in Nat /\ S[property[q]] \in Nat
    BY <1>1, <1>2, BuddyPages
  <2> QED
    BY <2>1, <2>2 DEF Beside
<1>8. ASSUME NEW x
      PROVE  x \in UNION {Buddy!Block(p, property[p]) : p \in H}
               <=> x \in (first..(PAGES - 1)) \ Buddy!Owned
  <2>1. x \in UNION {Buddy!Block(p, property[p]) : p \in H} <=> \E p \in H : x \in Buddy!Block(p, property[p])
    OBVIOUS
  <2>2. x \in Buddy!Owned <=> \E t \in blocks : x \in Buddy!Block(t[1], t[2])
    BY DEF Buddy!Owned
  <2>3. ASSUME NEW p \in H, x \in Buddy!Block(p, property[p])
        PROVE  x \in first..(PAGES - 1) /\ x \notin Buddy!Owned
    <3> DEFINE o == property[p]
    <3>1. p \in Nat /\ o \in O /\ <<p, o>> \in FreeTiles /\ S[o] \in Nat
      BY <1>1, <1>2
    <3> HIDE DEF o
    <3>2. x \in Nat /\ p <= x /\ x < p + S[o]
      BY <2>3, <3>1, BuddyPages DEF o
    <3>3. first <= p /\ p + S[o] <= PAGES
      BY <1>5, <3>1 DEF Tiles
    <3>4. ASSUME NEW t \in blocks, x \in Buddy!Block(t[1], t[2]) PROVE FALSE
      <4> DEFINE c == t[1]
                 l == t[2]
      <4>1. c \in Nat /\ l \in O /\ <<c, l>> \in blocks /\ S[l] \in Nat
        BY <1>1, <1>4
      <4>2. x \in Buddy!Block(c, l)
        BY <3>4
      <4> HIDE DEF c, l
      <4>3. c <= x /\ x < c + S[l]
        BY <4>1, <4>2, BuddyPages
      <4>4. <<c, l>> # <<p, o>>
        BY <1>5, <3>1, <4>1
      <4>5. Beside(c, S[l], p, S[o])
        BY <1>5, <3>1, <4>1, <4>4 DEF Tiles
      <4> QED
        BY <3>1, <3>2, <4>1, <4>3, <4>5 DEF Beside
    <3>5. x \in first..(PAGES - 1)
      BY <1>1, <3>1, <3>2, <3>3
    <3> QED
      BY <2>2, <3>4, <3>5
  <2>4. ASSUME x \in first..(PAGES - 1), x \notin Buddy!Owned
        PROVE  \E p \in H : x \in Buddy!Block(p, property[p])
    <3>1. x \in Nat /\ first <= x /\ x < PAGES
      BY <1>1, <2>4
    <3>2. PICK b \in Nat, o \in O : <<b, o>> \in T /\ b <= x /\ x < b + S[o]
      BY <1>5, <3>1 DEF Tiles
    <3>3. x \in Buddy!Block(b, o)
      BY <3>1, <3>2, BuddyPages
    <3>4. <<b, o>> \notin blocks
      BY <2>2, <2>4, <3>3
    <3>5. b \in H /\ property[b] = o
      BY <1>3, <3>2, <3>4
    <3> QED
      BY <3>3, <3>5
  <2> QED
    BY <2>1, <2>3, <2>4
<1>9. \A p \in H : ~ Buddy!Merges(p, property[p])
  BY <1>2 DEF BuddyInv, BuddyMerged
<1> HIDE DEF H
<1>10. UNION {Buddy!Block(p, property[p]) : p \in H} = (first..(PAGES - 1)) \ Buddy!Owned
  BY <1>8
<1> QED
  BY <1>6, <1>7, <1>9, <1>10 DEF Buddy!BuddyExact, H

-----------------------------------------------------------------------------
\* The cardinality of the pool is the one of this module.
LEMMA PoolCardinality ==
    ASSUME NEW S
    PROVE  Pool!Cardinality(S) = Cardinality(S)
BY Zenon DEF Pool!Cardinality, Cardinality

\* A range within a set is a run of it.
LEMMA RunIn ==
    ASSUME NEW S, IsFiniteSet(S), NEW b \in Int, NEW n \in Nat \ {0}, b..(b + n - 1) \subseteq S
    PROVE  b..(b + n - 1) \in Pool!Runs(S)
<1> DEFINE r == b..(b + n - 1)
<1>1. Cardinality(r) = n
  BY FS_Interval
<1>2. Cardinality(r) <= Cardinality(S) /\ Cardinality(S) \in Nat
  BY FS_Subset, FS_CardinalityType
<1>3. b \in S /\ n \in 1..Cardinality(S)
  <2>1. b \in r
    OBVIOUS
  <2> HIDE DEF r
  <2> QED
    BY <1>1, <1>2, <2>1
<1>4. Pool!Runs(S) = {t \in {Pool!Run(c, m) : c \in S, m \in 1..Cardinality(S)} : t \subseteq S}
  BY PoolCardinality DEF Pool!Runs
<1>5. r = Pool!Run(b, n)
  BY DEF Pool!Run
<1> HIDE DEF r
<1> QED
  BY <1>3, <1>4, <1>5 DEF r

\* A step that hands out a run of what nobody has, or gives back a run of what
\* somebody has, is a step of the pool.
LEMMA PoolStep ==
    ASSUME NEW b \in Int, NEW n \in Nat \ {0}, IsFiniteSet(Area), Area' = Area,
           \/ b..(b + n - 1) \subseteq Area \ Held /\ Held' = Held \cup b..(b + n - 1)
           \/ Held \subseteq Area /\ b..(b + n - 1) \subseteq Held /\ Held' = Held \ b..(b + n - 1)
    PROVE  Area' = Area /\ (Pool!Allocate \/ Pool!Release)
<1> DEFINE r == b..(b + n - 1)
<1>1. CASE r \subseteq Area \ Held /\ Held' = Held \cup r
  <2>1. IsFiniteSet(Area \ Held)
    BY FS_Subset
  <2>2. r \in Pool!Runs(Area \ Held)
    BY <1>1, <2>1, RunIn
  <2> QED
    BY <1>1, <2>2 DEF Pool!Allocate
<1>2. CASE Held \subseteq Area /\ r \subseteq Held /\ Held' = Held \ r
  <2>1. IsFiniteSet(Held)
    BY <1>2, FS_Subset
  <2>2. r \in Pool!Runs(Held)
    BY <1>2, <2>1, RunIn
  <2> QED
    BY <1>2, <2>2 DEF Pool!Release
<1> QED
  BY <1>1, <1>2

\* The pages of some blocks
PagesOf(B) == UNION {Buddy!Block(b[1], b[2]) : b \in B}

\* One of some blocks that cut an area has its pages to itself.
LEMMA OneBlock ==
    ASSUME NEW lo, NEW T, Tiles(T, lo, PAGES, Buddy!Orders, Buddy!Size), NEW B, B \subseteq T,
           NEW b, NEW o, <<b, o>> \in B
    PROVE  /\ b \in Nat /\ o \in Buddy!Orders
           /\ PagesOf(B) \subseteq lo..(PAGES - 1) /\ Buddy!Block(b, o) \subseteq PagesOf(B)
           /\ PagesOf(B \ {<<b, o>>}) = PagesOf(B) \ Buddy!Block(b, o)
<1> DEFINE S == Buddy!Size
           O == Buddy!Orders
           t == <<b, o>>
<1>1. \A u \in B : u = <<u[1], u[2]>> /\ u[1] \in Nat /\ u[2] \in O
  BY DEF Tiles
<1>2. b \in Nat /\ o \in O
  BY DEF Tiles
<1>3. \A l \in O : S[l] \in Nat
  BY BuddyFacts
<1>4. ASSUME NEW u \in B
      PROVE  Buddy!Block(u[1], u[2]) \subseteq lo..(PAGES - 1)
  <2> DEFINE c == u[1]
             l == u[2]
  <2>1. c \in Nat /\ l \in O /\ <<c, l>> \in T /\ S[l] \in Nat
    BY <1>1, <1>3
  <2> HIDE DEF c, l
  <2>2. lo <= c /\ c + S[l] <= PAGES /\ lo \in Nat /\ PAGES \in Nat
    BY <2>1 DEF Tiles
  <2>3. ASSUME NEW x \in Buddy!Block(c, l) PROVE x \in lo..(PAGES - 1)
    <3>1. x \in Nat /\ c <= x /\ x < c + S[l]
      BY <2>1, <2>3, BuddyPages
    <3> QED
      BY <2>1, <2>2, <3>1
  <2> QED
    BY <2>3 DEF c, l
<1>5. ASSUME NEW u \in B, u # t
      PROVE  Buddy!Block(u[1], u[2]) \cap Buddy!Block(b, o) = {}
  <2> DEFINE c == u[1]
             l == u[2]
  <2>1. c \in Nat /\ l \in O /\ <<c, l>> \in T /\ S[l] \in Nat /\ ~ (c = b /\ l = o)
    BY <1>1, <1>3, <1>5
  <2> HIDE DEF c, l
  <2>2. Beside(c, S[l], b, S[o])
    BY <1>2, <2>1 DEF Tiles
  <2>3. ASSUME NEW x \in Buddy!Block(c, l), x \in Buddy!Block(b, o) PROVE FALSE
    <3>1. x \in Nat /\ c <= x /\ x < c + S[l]
      BY <2>1, <2>3, BuddyPages
    <3>2. b <= x /\ x < b + S[o]
      BY <1>2, <2>3, BuddyPages
    <3>3. S[o] \in Nat
      BY <1>2, <1>3
    <3> HIDE DEF S
    <3> QED
      BY <1>2, <2>1, <2>2, <3>1, <3>2, <3>3 DEF Beside
  <2> QED
    BY <2>3 DEF c, l
<1>6. PagesOf(B) \subseteq lo..(PAGES - 1)
  BY <1>4 DEF PagesOf
<1>7. Buddy!Block(b, o) \subseteq PagesOf(B)
  BY DEF PagesOf
<1>8. PagesOf(B \ {<<b, o>>}) = PagesOf(B) \ Buddy!Block(b, o)
  <2>1. t[1] = b /\ t[2] = o
    OBVIOUS
  <2> QED
    BY <1>5, <2>1 DEF PagesOf
<1> QED
  BY <1>2, <1>6, <1>7, <1>8

\* A step of the buddy allocator is one of the pool.
LEMMA BuddyPool ==
    ASSUME manager = "buddy", manager' = "buddy", BuddyInv, BuddyInv', Buddy!Next
    PROVE  Area' = Area /\ (Pool!Allocate \/ Pool!Release)
<1> DEFINE A == first..(PAGES - 1)
<1>1. /\ Area = A /\ Area' = first'..(PAGES - 1)
      /\ Held = PagesOf(blocks) /\ Held' = PagesOf(blocks')
  BY DEF Area, Held, IsFit, Buddy!Owned, PagesOf
<1>2. IsFiniteSet(A)
  <2>1. first \in Int /\ PAGES - 1 \in Int
    BY BuddyFacts DEF BuddyInv, BuddyTypeOK
  <2> QED
    BY <2>1, FS_Interval
<1>3. /\ Tiles(FreeTiles \cup blocks, first, PAGES, Buddy!Orders, Buddy!Size)
      /\ Tiles(FreeTiles' \cup blocks', first', PAGES, Buddy!Orders, Buddy!Size)
  BY DEF BuddyInv, BuddyTiles
<1>4. \A o \in Buddy!Orders : Buddy!Size[o] \in Nat \ {0}
  BY BuddyFacts
<1> HIDE DEF A
<1>5. ASSUME NEW n \in 1..Buddy!Size[MAX_ORDER - 1], Buddy!Alloc(n)
      PROVE  Area' = Area /\ (Pool!Allocate \/ Pool!Release)
  <2>1. PICK order \in Buddy!Orders, page \in Buddy!Page :
           /\ first' = first /\ blocks' = blocks \cup {<<page, order>>} /\ <<page, order>> \notin blocks
    <3>1. PICK order \in Buddy!Orders, from \in Buddy!Orders, page \in Buddy!Page :
             /\ property[page] = from /\ order <= from /\ first' = first
             /\ blocks' = blocks \cup {<<page, order>>}
      BY <1>5, BuddyAllocIs
    <3>2. <<page, order>> \notin blocks
      <4> SUFFICES ASSUME <<page, order>> \in blocks PROVE FALSE
        OBVIOUS
      <4>1. <<page, from>> \notin blocks
        BY <3>1, FreeBlock
      <4>2. ~ (page = page /\ order = from)
        BY <4>1
      <4>3. Beside(page, Buddy!Size[order], page, Buddy!Size[from])
        BY <3>1, <4>2, FreeBlock
      <4>4. page \in Nat /\ Buddy!Size[order] \in Nat \ {0} /\ Buddy!Size[from] \in Nat \ {0}
        BY BuddyFacts
      <4> QED
        BY <4>3, <4>4 DEF Beside
    <3> QED
      BY <3>1, <3>2
  <2> DEFINE r == Buddy!Block(page, order)
             s == Buddy!Size[order]
  <2>2. /\ page \in Nat /\ PagesOf(blocks') \subseteq first..(PAGES - 1) /\ r \subseteq PagesOf(blocks')
        /\ PagesOf(blocks' \ {<<page, order>>}) = PagesOf(blocks') \ r
    BY <1>3, <2>1, OneBlock
  <2>3. blocks' \ {<<page, order>>} = blocks
    BY <2>1
  <2>4. r = page..(page + s - 1) /\ s \in Nat \ {0} /\ page \in Int
    BY <1>4, <2>2 DEF Buddy!Block
  <2> HIDE DEF r, s
  <2>5. r \subseteq Area \ Held /\ Held' = Held \cup r
    BY <1>1, <2>2, <2>3 DEF A
  <2> QED
    BY <1>1, <1>2, <2>1, <2>4, <2>5, PoolStep DEF A
<1>6. ASSUME NEW b \in blocks, Buddy!Free(b[1], b[2])
      PROVE  Area' = Area /\ (Pool!Allocate \/ Pool!Release)
  <2> DEFINE page == b[1]
             order == b[2]
             r == Buddy!Block(page, order)
             s == Buddy!Size[order]
  <2>1. /\ <<page, order>> \in blocks /\ order \in Buddy!Orders /\ first' = first
        /\ blocks' = blocks \ {<<page, order>>}
    BY <1>6 DEF Buddy!Free, BuddyInv, BuddyTypeOK
  <2> HIDE DEF page, order
  <2>2. /\ page \in Nat /\ PagesOf(blocks) \subseteq first..(PAGES - 1) /\ r \subseteq PagesOf(blocks)
        /\ PagesOf(blocks \ {<<page, order>>}) = PagesOf(blocks) \ r
    BY <1>3, <2>1, OneBlock
  <2>4. r = page..(page + s - 1) /\ s \in Nat \ {0} /\ page \in Int
    BY <1>4, <2>1, <2>2 DEF Buddy!Block
  <2> HIDE DEF r, s
  <2>5. Held \subseteq Area /\ r \subseteq Held /\ Held' = Held \ r
    BY <1>1, <2>1, <2>2 DEF A
  <2> QED
    BY <1>1, <1>2, <2>1, <2>4, <2>5, PoolStep DEF A
<1> QED
  BY <1>5, <1>6 DEF Buddy!Next

-----------------------------------------------------------------------------

\* As the start of a range, the head of the list is below all pages.
From(e) == IF e = N THEN -1 ELSE e

\* The links of the blocks that begin at H, from the head through them in order
\* of addresses and back
Linked(l, H) ==
    /\ H \subseteq 0..(N - 1) /\ N \in Nat \ {0}
    /\ l.next \in [0..N -> 0..N] /\ l.prev \in [0..N -> 0..N]
    /\ \A e \in H \cup {N} : /\ l.next[e] \in H \cup {N} /\ From(e) < l.next[e]
                             /\ \A h \in H : ~ (From(e) < h /\ h < l.next[e])
    /\ \A e \in H \cup {N} : /\ l.prev[e] \in H \cup {N} /\ From(l.prev[e]) < e
                             /\ \A h \in H : ~ (From(l.prev[e]) < h /\ h < e)

\* The members of such a list
LEMMA Members ==
    ASSUME NEW l, NEW H, Linked(l, H)
    PROVE  /\ N \in Nat \ {0} /\ \A e \in H \cup {N} : e \in 0..N /\ From(e) \in Int /\ -1 <= From(e)
           /\ \A h \in H : h \in 0..(N - 1) /\ h \in Nat /\ h < N /\ h # N /\ From(h) = h
           /\ From(N) = -1
           /\ \A e, f \in H \cup {N} : From(e) = From(f) => e = f
           /\ \A e \in H \cup {N} : e # N => e \in H
<1>1. H \subseteq 0..(N - 1) /\ N \in Nat \ {0}
  BY DEF Linked
<1>2. \A h \in H : h \in 0..(N - 1) /\ h \in Nat /\ h < N /\ h # N /\ h \in 0..N /\ From(h) = h
  BY <1>1 DEF From
<1>3. From(N) = -1 /\ N \in 0..N
  BY <1>1 DEF From
<1>4. \A e \in H \cup {N} : e \in 0..N /\ From(e) \in Int /\ -1 <= From(e)
  BY <1>2, <1>3
<1>5. ASSUME NEW e \in H \cup {N}, NEW f \in H \cup {N}, From(e) = From(f) PROVE e = f
  BY <1>2, <1>3, <1>5
<1> QED
  BY <1>1, <1>2, <1>3, <1>4, <1>5

\* The links of both ways agree.
LEMMA LinksAgree ==
    ASSUME NEW l, NEW H, Linked(l, H), NEW e \in H \cup {N}
    PROVE  l.next[l.prev[e]] = e /\ l.prev[l.next[e]] = e
<1>1. /\ \A x \in H \cup {N} : /\ l.next[x] \in H \cup {N} /\ From(x) < l.next[x]
                               /\ \A h \in H : ~ (From(x) < h /\ h < l.next[x])
      /\ \A x \in H \cup {N} : /\ l.prev[x] \in H \cup {N} /\ From(l.prev[x]) < x
                               /\ \A h \in H : ~ (From(l.prev[x]) < h /\ h < x)
  BY DEF Linked
<1>2. l.next[l.prev[e]] = e
  <2> DEFINE p == l.prev[e]
             n == l.next[p]
  <2>1. /\ p \in H \cup {N} /\ n \in H \cup {N} /\ From(p) < e /\ From(p) < n
        /\ \A h \in H : ~ (From(p) < h /\ h < n) /\ ~ (From(p) < h /\ h < e)
    BY <1>1
  <2> HIDE DEF p, n
  <2>2. ~ (n < e) /\ ~ (e < n)
    BY <2>1, Members
  <2>3. n = e
    BY <2>1, <2>2, Members
  <2> QED
    BY <2>3 DEF p, n
<1>3. l.prev[l.next[e]] = e
  <2> DEFINE n == l.next[e]
             q == l.prev[n]
  <2>1. /\ q \in H \cup {N} /\ n \in H \cup {N} /\ From(e) < n /\ From(q) < n
        /\ \A h \in H : ~ (From(e) < h /\ h < n) /\ ~ (From(q) < h /\ h < n)
    BY <1>1
  <2> HIDE DEF q, n
  <2>2. ~ (From(q) < From(e)) /\ ~ (From(e) < From(q))
    BY <2>1, Members
  <2>3. From(q) = From(e)
    BY <2>1, <2>2, Members
  <2>4. q = e
    BY <2>1, <2>3, Members
  <2> QED
    BY <2>4 DEF q, n
<1> QED
  BY <1>2, <1>3

\* list_del
LEMMA DelLinks ==
    ASSUME NEW l, NEW H, Linked(l, H), NEW e \in H
    PROVE  Linked(Fit!ListDel(l, e), H \ {e})
<1> DEFINE m == Fit!ListDel(l, e)
           K == H \ {e}
           p == l.prev[e]
           n == l.next[e]
<1>1. /\ H \subseteq 0..(N - 1) /\ N \in Nat \ {0}
      /\ l.next \in [0..N -> 0..N] /\ l.prev \in [0..N -> 0..N]
      /\ \A x \in H \cup {N} : /\ l.next[x] \in H \cup {N} /\ From(x) < l.next[x]
                               /\ \A h \in H : ~ (From(x) < h /\ h < l.next[x])
      /\ \A x \in H \cup {N} : /\ l.prev[x] \in H \cup {N} /\ From(l.prev[x]) < x
                               /\ \A h \in H : ~ (From(l.prev[x]) < h /\ h < x)
  BY DEF Linked
<1>2. /\ \A x \in H \cup {N} : x \in 0..N /\ From(x) \in Int
      /\ \A h \in H : h \in Nat /\ h # N /\ From(h) = h
  BY Members
<1>3. /\ p \in H \cup {N} /\ n \in H \cup {N} /\ From(p) < e /\ e < n
      /\ \A h \in H : ~ (From(p) < h /\ h < e) /\ ~ (e < h /\ h < n)
  <2>1. From(e) = e /\ e \in H \cup {N}
    BY <1>2
  <2>2. n \in H \cup {N} /\ From(e) < n /\ \A h \in H : ~ (From(e) < h /\ h < n)
    BY <1>1, <2>1
  <2>3. p \in H \cup {N} /\ From(p) < e /\ \A h \in H : ~ (From(p) < h /\ h < e)
    BY <1>1, <2>1
  <2> HIDE DEF n, p
  <2> QED
    BY <2>1, <2>2, <2>3
<1>4. p # e /\ n # e /\ p \in K \cup {N} /\ n \in K \cup {N} /\ p \in 0..N /\ n \in 0..N
  <2> HIDE DEF p, n
  <2> QED
    BY <1>2, <1>3
<1>5. m.next = [l.next EXCEPT ![p] = n] /\ m.prev = [l.prev EXCEPT ![n] = p]
  BY DEF Fit!ListDel
<1> HIDE DEF m, p, n
<1>6. m.next \in [0..N -> 0..N] /\ m.prev \in [0..N -> 0..N] /\ K \subseteq 0..(N - 1)
  <2>1. [l.next EXCEPT ![p] = n] \in [0..N -> 0..N] /\ [l.prev EXCEPT ![n] = p] \in [0..N -> 0..N]
    BY <1>1, <1>4
  <2> QED
    BY <1>1, <1>5, <2>1
<1>7. ASSUME NEW x \in K \cup {N}
      PROVE  /\ m.next[x] \in K \cup {N} /\ From(x) < m.next[x]
             /\ \A h \in K : ~ (From(x) < h /\ h < m.next[x])
  <2>1. x \in 0..N /\ x \in H \cup {N}
    BY <1>2
  <2>2. CASE x = p
    <3>1. m.next[x] = n
      BY <1>1, <1>4, <1>5, <2>2
    <3>2. From(p) < n
      BY <1>2, <1>3
    <3>3. \A h \in K : ~ (From(p) < h /\ h < n)
      BY <1>2, <1>3
    <3> QED
      BY <1>4, <2>2, <3>1, <3>2, <3>3
  <2>3. CASE x # p
    <3>1. m.next[x] = l.next[x]
      BY <1>1, <1>5, <2>1, <2>3
    <3>2. l.next[x] # e
      BY <2>1, <2>3, LinksAgree DEF p
    <3> QED
      BY <1>1, <2>1, <3>1, <3>2
  <2> QED
    BY <2>2, <2>3
<1>8. ASSUME NEW x \in K \cup {N}
      PROVE  /\ m.prev[x] \in K \cup {N} /\ From(m.prev[x]) < x
             /\ \A h \in K : ~ (From(m.prev[x]) < h /\ h < x)
  <2>1. x \in 0..N /\ x \in H \cup {N}
    BY <1>2
  <2>2. CASE x = n
    <3>1. m.prev[x] = p
      BY <1>1, <1>4, <1>5, <2>2
    <3>2. From(p) < n
      BY <1>2, <1>3
    <3>3. \A h \in K : ~ (From(p) < h /\ h < n)
      BY <1>2, <1>3
    <3> QED
      BY <1>4, <2>2, <3>1, <3>2, <3>3
  <2>3. CASE x # n
    <3>1. m.prev[x] = l.prev[x]
      BY <1>1, <1>5, <2>1, <2>3
    <3>2. l.prev[x] # e
      BY <2>1, <2>3, LinksAgree DEF n
    <3> QED
      BY <1>1, <2>1, <3>1, <3>2
  <2> QED
    BY <2>2, <2>3
<1>9. Linked(m, K)
  BY <1>1, <1>6, <1>7, <1>8 DEF Linked
<1> QED
  BY <1>9 DEF m

\* __list_add
LEMMA AddLinks ==
    ASSUME NEW l, NEW H, Linked(l, H), NEW e \in 0..(N - 1), e \notin H,
           NEW p \in H \cup {N}, NEW n \in H \cup {N}, l.next[p] = n, l.prev[n] = p,
           From(p) < e, e < n
    PROVE  Linked(Fit!AddBetween(l, e, p, n), H \cup {e})
<1> DEFINE m == Fit!AddBetween(l, e, p, n)
           K == H \cup {e}
<1>1. /\ H \subseteq 0..(N - 1) /\ N \in Nat \ {0}
      /\ l.next \in [0..N -> 0..N] /\ l.prev \in [0..N -> 0..N]
      /\ \A x \in H \cup {N} : /\ l.next[x] \in H \cup {N} /\ From(x) < l.next[x]
                               /\ \A h \in H : ~ (From(x) < h /\ h < l.next[x])
      /\ \A x \in H \cup {N} : /\ l.prev[x] \in H \cup {N} /\ From(l.prev[x]) < x
                               /\ \A h \in H : ~ (From(l.prev[x]) < h /\ h < x)
  BY DEF Linked
<1>2. /\ \A x \in H \cup {N} : x \in 0..N /\ From(x) \in Int
      /\ \A h \in H : h \in Nat /\ h # N /\ From(h) = h
      /\ \A x, y \in H \cup {N} : From(x) = From(y) => x = y
      /\ \A x \in H \cup {N} : x # N => x \in H
      /\ From(N) = -1
  BY Members
<1>3. e \in Nat /\ e # N /\ From(e) = e /\ e \in 0..N /\ p # e /\ n # e /\ p \in 0..N /\ n \in 0..N
  <2>1. e \in Nat /\ e # N /\ e \in 0..N
    BY <1>1
  <2>2. From(e) = e
    BY <2>1 DEF From
  <2> QED
    BY <1>2, <2>1, <2>2
<1>4. m.next = [l.next EXCEPT ![p] = e, ![e] = n] /\ m.prev = [l.prev EXCEPT ![n] = e, ![e] = p]
  BY DEF Fit!AddBetween
<1> HIDE DEF m
<1>5. /\ m.next \in [0..N -> 0..N] /\ m.prev \in [0..N -> 0..N] /\ K \subseteq 0..(N - 1)
      /\ \A x \in 0..N : m.next[x] = IF x = e THEN n ELSE IF x = p THEN e ELSE l.next[x]
      /\ \A x \in 0..N : m.prev[x] = IF x = e THEN p ELSE IF x = n THEN e ELSE l.prev[x]
  <2> DEFINE f == l.next
             g == l.prev
  <2>1. f \in [0..N -> 0..N] /\ g \in [0..N -> 0..N]
    BY <1>1
  <2>2. m.next = [f EXCEPT ![p] = e, ![e] = n] /\ m.prev = [g EXCEPT ![n] = e, ![e] = p]
    BY <1>4
  <2> HIDE DEF f, g
  <2>3. /\ [f EXCEPT ![p] = e, ![e] = n] \in [0..N -> 0..N]
        /\ [g EXCEPT ![n] = e, ![e] = p] \in [0..N -> 0..N]
    BY <1>3, <2>1
  <2>4. \A x \in 0..N : [f EXCEPT ![p] = e, ![e] = n][x] = IF x = e THEN n ELSE IF x = p THEN e ELSE f[x]
    BY <1>3, <2>1
  <2>5. \A x \in 0..N : [g EXCEPT ![n] = e, ![e] = p][x] = IF x = e THEN p ELSE IF x = n THEN e ELSE g[x]
    BY <1>3, <2>1
  <2>6. m.next \in [0..N -> 0..N] /\ m.prev \in [0..N -> 0..N]
    BY <2>2, <2>3
  <2>7. \A x \in 0..N : m.next[x] = IF x = e THEN n ELSE IF x = p THEN e ELSE f[x]
    BY <2>2, <2>4
  <2>8. \A x \in 0..N : m.prev[x] = IF x = e THEN p ELSE IF x = n THEN e ELSE g[x]
    BY <2>2, <2>5
  <2>9. K \subseteq 0..(N - 1)
    BY <1>1
  <2> QED
    BY <2>6, <2>7, <2>8, <2>9 DEF f, g
<1>6. \A h \in H : ~ (From(p) < h /\ h < n)
  BY <1>1
<1>7. ASSUME NEW x \in K \cup {N}
      PROVE  /\ m.next[x] \in K \cup {N} /\ From(x) < m.next[x]
             /\ \A h \in K : ~ (From(x) < h /\ h < m.next[x])
  <2>1. CASE x = e
    <3>1. m.next[x] = n
      BY <1>3, <1>5, <2>1
    <3>2. \A h \in K : ~ (e < h /\ h < n)
      BY <1>2, <1>3, <1>6
    <3> QED
      BY <1>3, <2>1, <3>1, <3>2
  <2>2. CASE x = p
    <3>1. m.next[x] = e
      BY <1>3, <1>5, <2>2
    <3>2. \A h \in K : ~ (From(p) < h /\ h < e)
      BY <1>2, <1>3, <1>6
    <3> QED
      BY <1>3, <2>2, <3>1, <3>2
  <2>3. CASE x # e /\ x # p
    <3> DEFINE y == l.next[x]
    <3>1. x \in H \cup {N} /\ x \in 0..N /\ m.next[x] = y
      BY <1>2, <1>5, <2>3
    <3>2. y \in H \cup {N} /\ From(x) < y /\ \A h \in H : ~ (From(x) < h /\ h < y)
      BY <1>1, <3>1
    <3> HIDE DEF y
    <3>3. From(x) # From(p) /\ From(x) \in Int /\ From(p) \in Int /\ y \in Int /\ n \in Int
      BY <1>2, <2>3, <3>1, <3>2
    <3>4. From(x) < From(p) => p \in H
      BY <1>2, <3>1, <3>3 DEF From
    <3>5. From(p) < From(x) => x \in H
      BY <1>2, <3>1, <3>3 DEF From
    <3>6. ~ (From(x) < e /\ e < y)
      <4> SUFFICES ASSUME From(x) < e, e < y PROVE FALSE
        OBVIOUS
      <4>1. CASE From(x) < From(p)
        <5>1. p \in H /\ From(p) = p
          BY <1>2, <3>4, <4>1
        <5> QED
          BY <1>3, <3>2, <3>3, <4>1, <5>1
      <4>2. CASE From(p) < From(x)
        <5>1. x \in H /\ From(x) = x
          BY <1>2, <3>5, <4>2
        <5> QED
          BY <1>3, <1>6, <3>3, <4>2, <5>1
      <4> QED
        BY <3>3, <4>1, <4>2
    <3> QED
      BY <3>1, <3>2, <3>6
  <2> QED
    BY <2>1, <2>2, <2>3
<1>8. ASSUME NEW x \in K \cup {N}
      PROVE  /\ m.prev[x] \in K \cup {N} /\ From(m.prev[x]) < x
             /\ \A h \in K : ~ (From(m.prev[x]) < h /\ h < x)
  <2>1. CASE x = e
    <3>1. m.prev[x] = p
      BY <1>3, <1>5, <2>1
    <3>2. \A h \in K : ~ (From(p) < h /\ h < e)
      BY <1>2, <1>3, <1>6
    <3> QED
      BY <1>3, <2>1, <3>1, <3>2
  <2>2. CASE x = n
    <3>1. m.prev[x] = e
      BY <1>3, <1>5, <2>2
    <3>2. \A h \in K : ~ (e < h /\ h < n)
      BY <1>2, <1>3, <1>6
    <3> QED
      BY <1>3, <2>2, <3>1, <3>2
  <2>3. CASE x # e /\ x # n
    <3> DEFINE y == l.prev[x]
    <3>1. x \in H \cup {N} /\ x \in 0..N /\ m.prev[x] = y
      BY <1>2, <1>5, <2>3
    <3>2. y \in H \cup {N} /\ From(y) < x /\ \A h \in H : ~ (From(y) < h /\ h < x)
      BY <1>1, <3>1
    <3> HIDE DEF y
    <3>4. \A z \in 0..N : z \in Int /\ z <= N
      BY <1>1
    <3>3. x \in Int /\ n \in Int /\ From(y) \in Int /\ From(p) \in Int /\ x <= N /\ n <= N
      BY <1>2, <1>3, <3>1, <3>2, <3>4
    <3>6. ~ (From(y) < e /\ e < x)
      <4> SUFFICES ASSUME From(y) < e, e < x PROVE FALSE
        OBVIOUS
      <4>1. CASE x < n
        <5>1. x \in H
          BY <1>1, <1>2, <3>1, <3>3, <4>1
        <5> QED
          BY <1>3, <1>6, <3>3, <4>1, <5>1
      <4>2. CASE n < x
        <5>1. n \in H
          BY <1>1, <1>2, <3>3, <4>2
        <5> QED
          BY <1>3, <3>2, <3>3, <4>2, <5>1
      <4> QED
        BY <2>3, <3>3, <4>1, <4>2
    <3> QED
      BY <3>1, <3>2, <3>6
  <2> QED
    BY <2>1, <2>2, <2>3
<1>9. Linked(m, K)
  BY <1>1, <1>5, <1>7, <1>8 DEF Linked
<1> QED
  BY <1>9 DEF m

\* The walk from free_list on meets the blocks in order, each once.
Walks(w, H, l) ==
    /\ w \in Seq(0..(N - 1)) /\ Elems(w) = H
    /\ \A i, j \in 1..Len(w) : i < j => w[i] < w[j]
    /\ \A i \in 1..Len(w) : l.prev[w[i]] = IF i = 1 THEN N ELSE w[i - 1]

\* One block more is met.
LEMMA MeetNext ==
    ASSUME NEW w \in Seq(0..(N - 1)), NEW x \in 0..(N - 1)
    PROVE  /\ Append(w, x) \in Seq(0..(N - 1)) /\ Len(Append(w, x)) = Len(w) + 1
           /\ Append(w, x)[Len(w) + 1] = x /\ \A i \in 1..Len(w) : Append(w, x)[i] = w[i]
           /\ 1..Len(Append(w, x)) = 1..Len(w) \cup {Len(w) + 1}
           /\ Elems(Append(w, x)) = Elems(w) \cup {x} /\ Len(w) \in Nat
<1> DEFINE v == Append(w, x)
<1>1. /\ v \in Seq(0..(N - 1)) /\ Len(v) = Len(w) + 1 /\ Len(w) \in Nat
      /\ v[Len(w) + 1] = x /\ \A i \in 1..Len(w) : v[i] = w[i]
  OBVIOUS
<1> HIDE DEF v
<1>2. 1..Len(v) = 1..Len(w) \cup {Len(w) + 1}
  BY <1>1
<1>3. Elems(v) = Elems(w) \cup {x}
  BY <1>1, <1>2 DEF Elems
<1> QED
  BY <1>1, <1>2, <1>3 DEF v

\* The last element of a list
LEMMA LastIn ==
    ASSUME NEW S, NEW w \in Seq(S), w # <<>>
    PROVE  w[Len(w)] \in S
<1>1. Len(w) \in 1..Len(w)
  OBVIOUS
<1> QED
  BY <1>1

\* The walk as a recursive function
LEMMA WalkSteps ==
    ASSUME NEW nx \in [0..N -> 0..N], N \in Nat \ {0}
    PROVE  \E f : /\ f \in [0..N -> Seq(0..(N - 1))] /\ f[0] = <<>> /\ Fit!WalkAlong(nx) = f[N]
                  /\ \A k \in 0..N - 1 :
                       LET w  == f[k]
                           le == IF w = <<>> THEN nx[N] ELSE nx[w[Len(w)]]
                       IN  f[k + 1] = IF Len(w) < k \/ le = N THEN w ELSE Append(w, le)
<1> DEFINE X == Seq(0..(N - 1))
           le(w) == IF w = <<>> THEN nx[N] ELSE nx[w[Len(w)]]
           go(w, k) == IF Len(w) < k \/ le(w) = N THEN w ELSE Append(w, le(w))
           step == [k \in Nat |-> [w \in X |-> go(w, k)]]
           Body(f) == [k \in 0..N |-> IF k = 0 THEN <<>> ELSE go(f[k - 1], k - 1)]
           f == CHOOSE f : f = Body(f)
<1>1. Fit!WalkAlong(nx) = f[N]
  BY DEF Fit!WalkAlong, Fit!FREE_LIST
<1>2. \A w \in X : \A k \in Nat : go(w, k) \in X
  <2> SUFFICES ASSUME NEW w \in X, NEW k \in Nat PROVE go(w, k) \in X
    OBVIOUS
  <2>1. le(w) \in 0..N
    <3>1. CASE w = <<>>
      BY <3>1
    <3>2. CASE w # <<>>
      <4>1. w[Len(w)] \in 0..(N - 1)
        BY <3>2, LastIn
      <4>3. 0..(N - 1) \subseteq 0..N
        OBVIOUS
      <4>2. w[Len(w)] \in 0..N
        BY <4>1, <4>3
      <4> QED
        BY <3>2, <4>2
    <3> QED
      BY <3>1, <3>2
  <2> HIDE DEF le
  <2>2. le(w) # N => le(w) \in 0..(N - 1)
    BY <2>1
  <2>3. \A x \in 0..(N - 1) : Append(w, x) \in X
    OBVIOUS
  <2> HIDE DEF X
  <2> QED
    BY <2>2, <2>3
<1> HIDE DEF go
<1>3. step \in [Nat -> [X -> X]] /\ <<>> \in X
  BY <1>2
<1>4. PICK g : Follows(g, X, <<>>, step, N)
  <2> HIDE DEF step, X
  <2> QED
    BY <1>3, FiniteRecursion
<1>5. g \in [0..N -> X] /\ g[0] = <<>> /\ \A k \in 0..N - 1 : g[k + 1] = go(g[k], k)
  <2>1. g \in [0..N -> X] /\ g[0] = <<>> /\ \A k \in 0..N - 1 : g[k + 1] = step[k][g[k]]
    BY <1>4 DEF Follows
  <2> HIDE DEF X
  <2>2. \A k \in 0..N - 1 : k \in Nat /\ g[k] \in X
    BY <2>1
  <2> QED
    BY <2>1, <2>2
<1>6. g = Body(g)
  <2> HIDE DEF X
  <2>1. \A k \in 0..N : k # 0 => k - 1 \in 0..N - 1 /\ (k - 1) + 1 = k
    OBVIOUS
  <2>2. \A k \in 0..N : g[k] = IF k = 0 THEN <<>> ELSE go(g[k - 1], k - 1)
    BY <1>5, <2>1
  <2> QED
    BY <1>5, <2>2
<1>7. f = Body(f)
  BY <1>6
<1> HIDE DEF f
<1>8. f[0] = <<>> /\ \A k \in 0..N - 1 : f[k + 1] = go(f[k], k)
  <2>1. \A k \in 0..N - 1 : k + 1 \in 0..N /\ k + 1 # 0 /\ (k + 1) - 1 = k
    OBVIOUS
  <2>2. \A k \in 0..N : f[k] = IF k = 0 THEN <<>> ELSE go(f[k - 1], k - 1)
    BY <1>7
  <2>3. 0 \in 0..N
    OBVIOUS
  <2> QED
    BY <2>1, <2>2, <2>3
<1> DEFINE I == {k \in Nat : k <= N => f[k] \in X}
<1>9. Nat \subseteq I
  <2>1. 0 \in I
    BY <1>3, <1>8
  <2>2. ASSUME NEW k \in Nat, k \in I PROVE k + 1 \in I
    <3> SUFFICES ASSUME k + 1 <= N PROVE f[k + 1] \in X
      OBVIOUS
    <3>1. k \in 0..N - 1 /\ f[k] \in X
      BY <2>2
    <3> HIDE DEF X
    <3> QED
      BY <1>2, <1>8, <3>1
  <2> HIDE DEF I
  <2> QED
    BY <2>1, <2>2, NatInd
<1>10. f \in [0..N -> X]
  <2>1. \A k \in 0..N : f[k] \in X
    BY <1>9
  <2> HIDE DEF X
  <2> QED
    BY <1>7, <2>1
<1>11. /\ f \in [0..N -> X] /\ f[0] = <<>> /\ Fit!WalkAlong(nx) = f[N]
       /\ \A k \in 0..N - 1 : f[k + 1] = IF Len(f[k]) < k \/ le(f[k]) = N THEN f[k] ELSE Append(f[k], le(f[k]))
  BY <1>1, <1>8, <1>10 DEF go
<1> QED
  BY <1>11

\* Following the links from the head meets what is linked, in order.
LEMMA WalkIs ==
    ASSUME NEW l, NEW H, Linked(l, H)
    PROVE  Walks(Fit!WalkAlong(l.next), H, l)
<1> DEFINE P == 0..(N - 1)
           nx == l.next
           last(w) == IF w = <<>> THEN N ELSE w[Len(w)]
           Met(w, k) ==
              /\ w \in Seq(P) /\ Elems(w) \subseteq H /\ Len(w) <= k
              /\ \A i, j \in 1..Len(w) : i < j => w[i] < w[j]
              /\ \A i \in 1..Len(w) : l.prev[w[i]] = IF i = 1 THEN N ELSE w[i - 1]
              /\ \A h \in H : h \in Elems(w) \/ From(last(w)) < h
              /\ Len(w) - 1 <= From(last(w)) /\ last(w) \in H \cup {N}
              /\ Len(w) = k \/ nx[last(w)] = N
<1>1. /\ H \subseteq P /\ N \in Nat \ {0} /\ nx \in [0..N -> 0..N]
      /\ \A e \in H \cup {N} : /\ nx[e] \in H \cup {N} /\ From(e) < nx[e]
                               /\ \A h \in H : ~ (From(e) < h /\ h < nx[e])
  BY DEF Linked
<1>2. /\ \A e \in H \cup {N} : e \in 0..N /\ From(e) \in Int /\ -1 <= From(e)
      /\ \A h \in H : h \in P /\ h \in Nat /\ h < N /\ h # N /\ From(h) = h
      /\ From(N) = -1
      /\ \A e \in H \cup {N} : e # N => e \in H
  BY Members
<1>3. PICK f : /\ f \in [0..N -> Seq(P)] /\ f[0] = <<>> /\ Fit!WalkAlong(nx) = f[N]
               /\ \A k \in 0..N - 1 :
                     LET w  == f[k]
                         le == IF w = <<>> THEN nx[N] ELSE nx[w[Len(w)]]
                     IN  f[k + 1] = IF Len(w) < k \/ le = N THEN w ELSE Append(w, le)
  BY <1>1, WalkSteps
<1>4. \A k \in 0..N - 1 : f[k + 1] = IF Len(f[k]) < k \/ nx[last(f[k])] = N THEN f[k]
                                     ELSE Append(f[k], nx[last(f[k])])
  BY <1>3
<1> DEFINE I == {k \in Nat : k <= N => Met(f[k], k)}
<1>5. 0 \in I
  <2>1. Len(<<>>) = 0 /\ Elems(<<>>) = {} /\ <<>> \in Seq(P) /\ last(<<>>) = N /\ 1..0 = {}
    BY EmptyList
  <2>2. Met(<<>>, 0)
    BY <1>2, <2>1
  <2> HIDE DEF Met
  <2> QED
    BY <1>3, <2>2
<1>6. ASSUME NEW k \in Nat, k \in I PROVE k + 1 \in I
  <2> SUFFICES ASSUME k + 1 <= N PROVE Met(f[k + 1], k + 1)
    OBVIOUS
  <2> DEFINE w == f[k]
             e == last(w)
             n == nx[e]
             v == f[k + 1]
  <2>1. k \in 0..N - 1 /\ k <= N
    BY <1>1
  <2>2. Met(w, k)
    <3> HIDE DEF Met
    <3> QED
      BY <1>6, <2>1
  <2>3. v = IF Len(w) < k \/ n = N THEN w ELSE Append(w, n)
    BY <1>4, <2>1
  <2> HIDE DEF w, v
  <2>4. Len(w) \in Nat /\ e \in H \cup {N}
    BY <2>2
  <2>5. CASE n = N \/ Len(w) < k
    <3>1. n = N /\ v = w
      BY <2>2, <2>3, <2>4, <2>5
    <3>2. Met(w, k + 1)
      BY <2>2, <2>4, <3>1
    <3> HIDE DEF Met
    <3> QED
      BY <3>1, <3>2 DEF v
  <2>6. CASE n # N /\ ~ (Len(w) < k)
    <3>1. Len(w) = k /\ v = Append(w, n)
      BY <2>2, <2>3, <2>4, <2>6
    <3>2. n \in H /\ n \in P /\ From(e) < n /\ \A h \in H : ~ (From(e) < h /\ h < n)
      BY <1>1, <1>2, <2>4, <2>6
    <3>3. l.prev[n] = e
      BY <2>4, LinksAgree
    <3> HIDE DEF n
    <3>4. /\ v \in Seq(P) /\ Len(v) = Len(w) + 1 /\ v[Len(w) + 1] = n
          /\ \A i \in 1..Len(w) : v[i] = w[i]
          /\ 1..Len(v) = 1..Len(w) \cup {Len(w) + 1} /\ Elems(v) = Elems(w) \cup {n}
      BY <2>2, <3>1, <3>2, MeetNext
    <3>5. last(v) = n
      BY <2>4, <3>4
    <3>6. \A i \in 1..Len(w) : w[i] <= From(e) /\ w[i] \in Nat
      <4> SUFFICES ASSUME NEW i \in 1..Len(w) PROVE w[i] <= From(e) /\ w[i] \in Nat
        OBVIOUS
      <4>1. w # <<>> /\ e = w[Len(w)] /\ Len(w) \in 1..Len(w)
        BY <2>4
      <4>2. w[Len(w)] \in Elems(w) /\ w[i] \in Elems(w)
        BY <4>1 DEF Elems
      <4>3. w[Len(w)] \in Nat /\ w[i] \in Nat /\ From(e) = w[Len(w)]
        BY <1>2, <2>2, <4>1, <4>2
      <4>4. i = Len(w) \/ w[i] < w[Len(w)]
        BY <2>2, <2>4, <4>1
      <4> QED
        BY <4>3, <4>4
    <3>7. \A i, j \in 1..Len(v) : i < j => v[i] < v[j]
      <4> SUFFICES ASSUME NEW i \in 1..Len(v), NEW j \in 1..Len(v), i < j PROVE v[i] < v[j]
        OBVIOUS
      <4>1. i \in 1..Len(w)
        BY <2>4, <3>4
      <4>2. CASE j \in 1..Len(w)
        BY <2>2, <3>4, <4>1, <4>2
      <4>3. CASE j = Len(w) + 1
        <5>1. From(e) \in Int /\ n \in Nat
          BY <1>2, <2>4, <3>2
        <5> QED
          BY <3>2, <3>4, <3>6, <4>1, <4>3, <5>1
      <4> QED
        BY <3>4, <4>2, <4>3
    <3>8. \A i \in 1..Len(v) : l.prev[v[i]] = IF i = 1 THEN N ELSE v[i - 1]
      <4> SUFFICES ASSUME NEW i \in 1..Len(v) PROVE l.prev[v[i]] = IF i = 1 THEN N ELSE v[i - 1]
        OBVIOUS
      <4>1. CASE i \in 1..Len(w)
        <5>1. i # 1 => i - 1 \in 1..Len(w)
          BY <2>4, <4>1
        <5> QED
          BY <2>2, <3>4, <4>1, <5>1
      <4>2. CASE i = Len(w) + 1
        <5>1. CASE Len(w) = 0
          <6>1. w = <<>>
            BY <2>2, <5>1
          <6> QED
            BY <3>3, <3>4, <4>2, <5>1, <6>1
        <5>2. CASE Len(w) # 0
          <6>1. w # <<>> /\ i - 1 = Len(w) /\ Len(w) \in 1..Len(w) /\ i # 1
            BY <2>4, <4>2, <5>2
          <6> QED
            BY <3>3, <3>4, <4>2, <6>1
        <5> QED
          BY <5>1, <5>2
      <4> QED
        BY <3>4, <4>1, <4>2
    <3>9. \A h \in H : h \in Elems(v) \/ From(n) < h
      <4> SUFFICES ASSUME NEW h \in H, h \notin Elems(v) PROVE From(n) < h
        OBVIOUS
      <4>1. From(e) < h /\ h # n
        BY <2>2, <3>4
      <4>2. h \in Nat /\ n \in Nat /\ From(n) = n
        BY <1>2, <3>2
      <4> QED
        BY <3>2, <4>1, <4>2
    <3>10. Len(v) - 1 <= From(n) /\ n \in H \cup {N} /\ Len(v) = k + 1
      <4>1. From(n) = n /\ From(e) \in Int /\ n \in Nat
        BY <1>2, <2>4, <3>2
      <4>2. Len(w) - 1 <= From(e)
        BY <2>2
      <4> QED
        BY <2>4, <3>1, <3>2, <3>4, <4>1, <4>2
    <3>11. Elems(v) \subseteq H
      BY <2>2, <3>2, <3>4
    <3>12. Met(v, k + 1)
      <4> HIDE DEF last
      <4> QED
        BY <3>4, <3>5, <3>7, <3>8, <3>9, <3>10, <3>11
    <3> HIDE DEF Met
    <3> QED
      BY <3>12 DEF v
  <2> QED
    BY <2>5, <2>6
<1>7. Met(f[N], N)
  <2> HIDE DEF Met
  <2>1. N \in I
    <3> HIDE DEF I
    <3> QED
      BY <1>1, <1>5, <1>6, NatInd
  <2> QED
    BY <1>1, <2>1
<1> DEFINE w == f[N]
           e == last(w)
<1> HIDE DEF w
<1>8. Met(w, N)
  BY <1>7 DEF w
<1>9. Elems(w) = H
  <2>1. /\ Elems(w) \subseteq H /\ \A h \in H : h \in Elems(w) \/ From(e) < h
        /\ Len(w) - 1 <= From(e) /\ e \in H \cup {N} /\ Len(w) \in Nat
        /\ Len(w) = N \/ nx[e] = N
    BY <1>8
  <2> HIDE DEF e
  <2>2. \A h \in H : ~ (From(e) < h)
    <3> SUFFICES ASSUME NEW h \in H, From(e) < h PROVE FALSE
      OBVIOUS
    <3>1. h \in Nat /\ h < N /\ From(e) \in Int
      BY <1>2, <2>1
    <3>2. nx[e] # N
      BY <1>1, <2>1, <3>1
    <3>3. Len(w) = N /\ N - 1 <= From(e)
      BY <2>1, <3>2
    <3> QED
      BY <1>1, <3>1, <3>3
  <2> QED
    BY <2>1, <2>2
<1> QED
  BY <1>3, <1>8, <1>9 DEF Walks, w

-----------------------------------------------------------------------------
\* Where the free blocks begin
Begin == {p \in 0..(N - 1) : PG_property[p]}

FitInv ==
    /\ owned \subseteq 0..(N - 1) /\ nr_free = N - Cardinality(owned)
    /\ PG_property \in [0..(N - 1) -> BOOLEAN] /\ property \in [0..(N - 1) -> Nat]
    /\ Linked([next |-> next, prev |-> prev], Begin)
    /\ Parts(property, Begin, (0..(N - 1)) \ owned, N)
    /\ \A h, k \in Begin : h + property[h] # k
    /\ manager = "default" => N - 1 \notin owned

\* What SetBlocks forgets is not on the list.
LEMMA SetIs ==
    ASSUME NEW l, NEW H, Linked(l, H), NEW length, Fit!SetBlocks(l, length)
    PROVE  /\ Linked([next |-> next', prev |-> prev'], H)
           /\ \A p \in H : property'[p] = length[p]
           /\ (\A p \in H : length[p] \in Nat) => property' \in [0..(N - 1) -> Nat]
<1> DEFINE w == Fit!WalkAlong(l.next)
           met == {w[i] : i \in 1..Len(w)} \cup {N}
<1>1. /\ next' = [le \in 0..(N - 1) \cup {N} |-> IF le \in met THEN l.next[le] ELSE N]
      /\ prev' = [le \in 0..(N - 1) \cup {N} |-> IF le \in met THEN l.prev[le] ELSE N]
      /\ property' = [p \in 0..(N - 1) |-> IF p \in met THEN length[p] ELSE 0]
  BY DEF Fit!SetBlocks, Fit!Page, Fit!FREE_LIST
<1>2. met = H \cup {N}
  BY WalkIs DEF Walks, Elems
<1> HIDE DEF met
<1>3. /\ H \subseteq 0..(N - 1) /\ N \in Nat \ {0}
      /\ l.next \in [0..N -> 0..N] /\ l.prev \in [0..N -> 0..N]
  BY DEF Linked
<1>4. 0..(N - 1) \cup {N} = 0..N /\ N \in 0..N
  <2>1. 0 <= N /\ 0 \in Int /\ N \in Int
    BY <1>3
  <2> QED
    BY <2>1, Ends
<1>5. next' \in [0..N -> 0..N] /\ prev' \in [0..N -> 0..N]
  BY <1>1, <1>3, <1>4
<1>6. \A e \in H \cup {N} : next'[e] = l.next[e] /\ prev'[e] = l.prev[e]
  BY <1>1, <1>2, <1>3, <1>4
<1>7. \A p \in H : property'[p] = length[p]
  BY <1>1, <1>2, <1>3
<1>10. ASSUME \A p \in H : length[p] \in Nat PROVE property' \in [0..(N - 1) -> Nat]
  <2>1. \A p \in 0..(N - 1) : p \in met => p \in H
    BY <1>2, <1>3
  <2> QED
    BY <1>1, <1>10, <2>1
<1> DEFINE m == [next |-> next', prev |-> prev']
<1>8. m.next = next' /\ m.prev = prev'
  OBVIOUS
<1> HIDE DEF m
<1>9. Linked(m, H)
  BY <1>3, <1>5, <1>6, <1>8 DEF Linked
<1> QED
  BY <1>7, <1>9, <1>10 DEF m

\* The block that is chosen is free and long enough.
LEMMA ChoiceIs ==
    ASSUME FitInv, NEW n, Fit!Choice(n) # Fit!NULL
    PROVE  Fit!Choice(n) \in Begin /\ property[Fit!Choice(n)] >= n
<1> DEFINE w == Fit!Walk
           I == Fit!Fits(n)
           len(i) == property[w[i]]
           Best(i) == \A j \in I : Fit!Better(i, j)
<1>1. w \in Seq(0..(N - 1)) /\ Elems(w) = Begin
  BY WalkIs DEF FitInv, Fit!Walk, Walks
<1>2. I = {i \in 1..Len(w) : len(i) >= n} /\ I # {}
  BY DEF Fit!Choice, Fit!Fits
<1>3. Fit!Choice(n) = w[CHOOSE i \in I : Best(i)]
  BY DEF Fit!Choice
<1>4. \A i, j : Fit!Better(i, j) <=> IF manager = "best_fit" /\ len(i) # len(j) THEN len(i) < len(j) ELSE i <= j
  BY DEF Fit!Better
<1>5. \A i \in 1..Len(w) : w[i] \in Begin /\ len(i) \in Nat
  BY <1>1 DEF Elems, FitInv, Parts
<1>6. \A i \in I : i \in Nat /\ len(i) \in Nat
  BY <1>2, <1>5
<1> HIDE DEF w, I, len
<1>7. \E i \in I : Best(i)
  <2> DEFINE V == {len(i) : i \in I}
  <2>5. V \in SUBSET Nat /\ V # {}
    BY <1>2, <1>6
  <2>6. \E v \in V : \A m \in V : v <= m
    <3> HIDE DEF V
    <3> QED
      BY <2>5, LeastNatural
  <2>1. PICK v \in {len(i) : i \in I} : \A m \in {len(i) : i \in I} : v <= m
    BY <2>6
  <2> HIDE DEF V
  <2> DEFINE J == IF manager = "best_fit" THEN {i \in I : len(i) = v} ELSE I
  <2>2. J # {} /\ J \subseteq Nat /\ J \subseteq I
    BY <1>2, <1>6, <2>1
  <2> HIDE DEF J
  <2>3. PICK i \in J : \A j \in J : i <= j
    BY <2>2, LeastNatural
  <2>4. ASSUME NEW j \in I PROVE Fit!Better(i, j)
    <3>1. CASE j \in J
      BY <1>4, <2>3, <3>1, <2>2 DEF J
    <3>2. CASE j \notin J
      <4>1. manager = "best_fit" /\ len(j) # v /\ len(i) = v
        BY <2>3, <3>2 DEF J
      <4>2. v <= len(j) /\ len(j) \in Nat /\ v \in Nat
        BY <1>6, <2>1
      <4>3. len(i) < len(j)
        BY <4>1, <4>2
      <4> QED
        BY <1>4, <4>1, <4>3
    <3> QED
      BY <3>1, <3>2
  <2> QED
    BY <2>2, <2>4
<1>8. PICK i \in I : Fit!Choice(n) = w[i]
  <2> HIDE DEF Best
  <2> QED
    BY <1>3, <1>7
<1> QED
  BY <1>2, <1>5, <1>8 DEF len

\* A piece, the ones after it and where it is on the list
LEMMA NextPart ==
    ASSUME NEW l, NEW K, Linked(l, K), NEW len, NEW F, Parts(len, K, F, N), NEW h \in K
    PROVE  /\ h + len[h] <= l.next[h] /\ h < h + len[h] /\ h + len[h] \in Nat
           /\ \A k \in K : h + len[h] = k => k = l.next[h]
           /\ \A k \in K : k + len[k] = h => k = l.prev[h]
<1>1. /\ h \in Nat /\ h < N /\ len[h] \in Nat \ {0} /\ h + len[h] <= N /\ N \in Nat
      /\ \A k \in K : k \in Nat /\ k # N /\ From(k) = k /\ len[k] \in Nat \ {0}
      /\ \A k, m \in K : k < m => k + len[k] <= m
  BY Members DEF Parts
<1>2. /\ l.next[h] \in K \cup {N} /\ h < l.next[h] /\ \A k \in K : ~ (h < k /\ k < l.next[h])
      /\ l.prev[h] \in K \cup {N} /\ From(l.prev[h]) < h /\ \A k \in K : ~ (From(l.prev[h]) < k /\ k < h)
      /\ l.next[h] \in Nat /\ l.next[h] <= N
  <2>1. /\ l.next[h] \in K \cup {N} /\ From(h) < l.next[h] /\ \A k \in K : ~ (From(h) < k /\ k < l.next[h])
        /\ l.prev[h] \in K \cup {N} /\ From(l.prev[h]) < h /\ \A k \in K : ~ (From(l.prev[h]) < k /\ k < h)
    BY DEF Linked
  <2>2. From(h) = h
    BY <1>1
  <2>3. l.next[h] \in 0..N
    BY <2>1, Members
  <2> QED
    BY <1>1, <2>1, <2>2, <2>3
<1>3. h + len[h] <= l.next[h]
  BY <1>1, <1>2
<1>4. ASSUME NEW k \in K, h + len[h] = k PROVE k = l.next[h]
  <2>1. k \in Nat /\ h < k /\ ~ (k < l.next[h])
    BY <1>1, <1>2, <1>4
  <2>2. l.next[h] <= k
    BY <1>1, <1>2, <2>1
  <2>3. l.next[h] \in Nat
    BY <1>1, <1>2
  <2> QED
    BY <1>3, <1>4, <2>1, <2>2, <2>3
<1>5. ASSUME NEW k \in K, k + len[k] = h PROVE k = l.prev[h]
  <2> DEFINE p == l.prev[h]
  <2>1. k \in Nat /\ len[k] \in Nat \ {0} /\ k < h /\ From(p) \in Int
    BY <1>1, <1>2, <1>5, Members
  <2>2. ~ (From(p) < k)
    BY <1>2, <2>1
  <2>3. From(p) >= 0 /\ p # N
    BY <1>1, <1>2, <2>1, <2>2, Members
  <2>4. p \in K /\ From(p) = p /\ p \in Nat
    BY <1>1, <1>2, <2>3
  <2>5. ~ (k < p)
    <3> SUFFICES ASSUME k < p PROVE FALSE
      OBVIOUS
    <3>1. h <= p
      BY <1>1, <1>5, <2>4
    <3> QED
      BY <1>1, <1>2, <2>4, <3>1
  <2> QED
    BY <2>1, <2>2, <2>4, <2>5
<1> QED
  BY <1>1, <1>3, <1>4, <1>5

\* best_fit_alloc_pages and default_alloc_pages
LEMMA FitAlloc ==
    ASSUME FitInv, NEW n \in 1..N, Fit!Alloc(n), manager' = "default" => N - 1 \notin owned'
    PROVE  /\ FitInv'
           /\ \E page \in 0..(N - 1) : /\ page..(page + n - 1) \subseteq (0..(N - 1)) \ owned
                                       /\ owned' = owned \cup page..(page + n - 1)
<1> DEFINE H == Begin
           F == (0..(N - 1)) \ owned
           page == Fit!Choice(n)
           s == property[page]
           e == page + n
           L == [next |-> next, prev |-> prev]
           l == Fit!ListDel(L, page)
           l2 == IF n < s THEN Fit!ListAdd(l, prev[page], e) ELSE l
           length == IF n < s THEN [property EXCEPT ![e] = s - n] ELSE property
           K == (H \ {page}) \cup (IF n < s THEN {e} ELSE {})
           r == page..(page + n - 1)
<1>1. N \in Nat \ {0} /\ Linked(L, H) /\ Parts(property, H, F, N) /\ Whole(property, H)
  BY DEF FitInv, Linked, Whole
<1>2. page \in H /\ s >= n /\ page \in 0..(N - 1) /\ page \in Nat /\ s \in Nat \ {0}
  <2>1. page # Fit!NULL
    BY DEF Fit!Alloc
  <2>2. page \in H /\ s >= n
    BY <2>1, ChoiceIs
  <2> HIDE DEF page
  <2> QED
    BY <1>1, <2>2 DEF Parts
<1>3. /\ Fit!SetBlocks(l2, length) /\ owned' = owned \cup r /\ nr_free' = nr_free - n
      /\ PG_property' = [p \in 0..(N - 1) |-> IF p = page THEN FALSE ELSE PG_property[p] \/ (n < s /\ p = e)]
  <2>1. Fit!Rest(page, n) = s - n
    BY DEF Fit!Rest
  <2>2. s - n > 0 <=> n < s
    <3> HIDE DEF s
    <3> QED
      BY <1>2
  <2>3. Fit!Links = L
    BY DEF Fit!Links
  <2> HIDE DEF s, L, page
  <2> QED
    BY <2>1, <2>2, <2>3 DEF Fit!Alloc, Fit!Block, Fit!Page, page
<1> HIDE DEF page, s, length
<1>4. n < s => e \in 0..(N - 1) /\ e \notin H
  BY <1>1, <1>2, SplitOne DEF s
<1>5. \A h \in K : length[h] = IF n < s /\ h = e THEN s - n ELSE property[h]
  <2>1. property \in [0..(N - 1) -> Nat]
    BY DEF FitInv
  <2>2. \A h \in K : h \in 0..(N - 1)
    BY <1>1, <1>4 DEF Parts
  <2> QED
    BY <1>4, <2>1, <2>2 DEF length
<1>6. /\ Parts(length, K, F \ r, N) /\ r \subseteq F /\ Whole(length, K)
  <2>1. \A h \in K : length[h] = IF n < property[page] /\ h = page + n THEN property[page] - n ELSE property[h]
    BY <1>5 DEF s
  <2>2. K = (H \ {page}) \cup (IF n < property[page] THEN {page + n} ELSE {})
    BY DEF s
  <2>3. n <= property[page]
    BY <1>2 DEF s
  <2>4. CutOff(property, H, page, n, length, K)
    BY <2>1, <2>2 DEF CutOff
  <2> HIDE DEF K, H, F, page, length
  <2>5. N \in Nat \ {0} /\ Parts(property, H, F, N) /\ page \in H /\ Whole(property, H)
    BY <1>1, <1>2
  <2>6. /\ Parts(length, K, F \ page..(page + n - 1), N) /\ page..(page + n - 1) \subseteq F
        /\ Whole(property, H) => Whole(length, K)
    BY <2>3, <2>4, <2>5, SplitPart
  <2> QED
    BY <2>5, <2>6
<1>7. Linked(l2, K)
  <2> DEFINE p == prev[page]
             m == next[page]
             J == H \ {page}
  <2>1. Linked(l, J)
    BY <1>1, <1>2, DelLinks
  <2>2. CASE ~ (n < s)
    BY <2>1, <2>2
  <2>3. CASE n < s
    <3>1. L.next = next /\ L.prev = prev
      OBVIOUS
    <3>2. /\ \A x \in H \cup {N} : /\ next[x] \in H \cup {N} /\ From(x) < next[x]
                                   /\ prev[x] \in H \cup {N} /\ From(prev[x]) < x
          /\ next \in [0..N -> 0..N] /\ prev \in [0..N -> 0..N]
      BY <1>1, <3>1 DEF Linked
    <3>3. /\ N \in Nat \ {0} /\ From(page) = page /\ \A x \in H \cup {N} : x \in 0..N
          /\ \A x \in H \cup {N} : x \in Int /\ From(x) \in Int
      BY <1>1, <1>2, Members
    <3>4. p \in H \cup {N} /\ m \in H \cup {N} /\ From(p) < page /\ page < m
      BY <1>2, <3>2, <3>3
    <3>5. p # page /\ m # page /\ p \in J \cup {N} /\ m \in J \cup {N} /\ p \in 0..N /\ m \in 0..N
      <4> HIDE DEF p, m
      <4> QED
        BY <1>2, <3>3, <3>4
    <3>6. l.next = [next EXCEPT ![p] = m] /\ l.prev = [prev EXCEPT ![m] = p]
      BY DEF Fit!ListDel
    <3>7. l.next[p] = m /\ l.prev[m] = p
      <4> HIDE DEF p, m, l
      <4> QED
        BY <3>2, <3>5, <3>6
    <3>8. page + s <= m
      <4>1. page + property[page] <= L.next[page]
        BY <1>1, <1>2, NextPart
      <4> QED
        BY <4>1 DEF s
    <3>9. From(p) < e /\ e < m /\ e \in 0..(N - 1) /\ e \notin J
      <4>1. From(p) \in Int /\ m \in Int
        BY <3>3, <3>4
      <4> HIDE DEF p, m
      <4> QED
        BY <1>2, <1>4, <2>3, <3>4, <3>8, <4>1
    <3>10. Fit!ListAdd(l, p, e) = Fit!AddBetween(l, e, p, m)
      BY <3>7 DEF Fit!ListAdd
    <3> HIDE DEF p, m, l, J, e
    <3>11. Linked(Fit!AddBetween(l, e, p, m), J \cup {e})
      BY <2>1, <3>5, <3>7, <3>9, AddLinks
    <3>12. K = J \cup {e} /\ l2 = Fit!ListAdd(l, p, e)
      BY <2>3 DEF J, p
    <3> QED
      BY <3>10, <3>11, <3>12
  <2> QED
    BY <2>2, <2>3
<1>8. Begin' = K
  <2>1. \A p \in 0..(N - 1) : p \in H <=> PG_property[p]
    BY DEF Begin
  <2>2. Begin' = {p \in 0..(N - 1) : PG_property'[p]}
    BY DEF Begin
  <2>3. \A p \in 0..(N - 1) : PG_property'[p] <=> p \in K
    <3> SUFFICES ASSUME NEW p \in 0..(N - 1) PROVE PG_property'[p] <=> p \in K
      OBVIOUS
    <3>1. PG_property'[p] = IF p = page THEN FALSE ELSE PG_property[p] \/ (n < s /\ p = e)
      BY <1>3
    <3>2. p \in H <=> PG_property[p]
      BY <2>1
    <3>3. p = page => ~ (n < s /\ p = e)
      BY <1>2
    <3> HIDE DEF H, e
    <3> QED
      BY <3>1, <3>2, <3>3, Zenon
  <2>4. K \subseteq 0..(N - 1)
    BY <1>6 DEF Parts
  <2> HIDE DEF K
  <2> QED
    BY <2>2, <2>3, <2>4
<1> HIDE DEF K, l2
<1>9. /\ Linked([next |-> next', prev |-> prev'], K) /\ \A p \in K : property'[p] = length[p]
      /\ property' \in [0..(N - 1) -> Nat]
  <2>1. \A p \in K : length[p] \in Nat
    BY <1>6 DEF Parts
  <2> QED
    BY <1>3, <1>7, <2>1, SetIs
<1>10. (0..(N - 1)) \ owned' = F \ r /\ owned' \subseteq 0..(N - 1)
  <2>1. owned \subseteq 0..(N - 1) /\ r \subseteq 0..(N - 1)
    BY <1>6 DEF FitInv
  <2> HIDE DEF r
  <2> QED
    BY <1>3, <2>1
<1>11. Parts(property', K, F \ r, N) /\ \A h, k \in K : h + property'[h] # k
  <2> HIDE DEF F, r
  <2>1. Parts(property', K, F \ r, N)
    BY <1>6, <1>9 DEF Parts
  <2>2. \A h, k \in K : h + property'[h] # k
    BY <1>6, <1>9 DEF Whole
  <2> QED
    BY <2>1, <2>2
<1>12. nr_free' = N - Cardinality(owned')
  <2>1. r \cap owned = {} /\ owned \in SUBSET (0..(N - 1)) /\ nr_free = N - Cardinality(owned)
    BY <1>6 DEF FitInv
  <2>5. page..(page + n - 1) \cap owned = {} /\ n \in Nat \ {0}
    BY <2>1
  <2>2. Cardinality(owned') = Cardinality(owned) + n /\ Cardinality(owned) \in Nat
    BY <1>1, <1>2, <1>3, <2>1, <2>5, PageCount
  <2> DEFINE c == Cardinality(owned)
             d == Cardinality(owned')
  <2>3. d = c + n /\ c \in Nat /\ nr_free' = (N - c) - n
    BY <1>3, <2>1, <2>2
  <2> HIDE DEF c, d
  <2>4. nr_free' = N - d
    BY <1>1, <2>3
  <2> QED
    BY <2>4 DEF d
<1>13. PG_property' \in [0..(N - 1) -> BOOLEAN]
  BY <1>3 DEF FitInv
<1>14. FitInv'
  BY <1>8, <1>9, <1>10, <1>11, <1>12, <1>13 DEF FitInv
<1> QED
  BY <1>2, <1>3, <1>6, <1>14

\* The insertion loops put a block where its address belongs.
LEMMA InsertIs ==
    ASSUME FitInv, NEW base \in 0..(N - 1), base \notin Begin,
           manager = "default" => \E h \in Begin : base < h
    PROVE  Linked(Fit!Insert(Fit!Links, base), Begin \cup {base})
<1> DEFINE H == Begin
           L == [next |-> next, prev |-> prev]
           w == Fit!Walk
           above == {i \in 1..Len(w) : base < w[i]}
<1>1. Linked(L, H) /\ L.next = next /\ L.prev = prev /\ Fit!Links = L
  BY DEF FitInv, Fit!Links
<1>2. /\ N \in Nat \ {0} /\ base \in Nat /\ From(N) = -1
      /\ \A e \in H \cup {N} : e \in 0..N /\ e \in Nat /\ From(e) \in Int /\ (e # N => e \in H)
      /\ \A h \in H : h \in Nat /\ h < N /\ h # N /\ From(h) = h
  BY <1>1, Members
<1>3. \A e \in H \cup {N} : /\ next[e] \in H \cup {N} /\ From(e) < next[e]
                            /\ prev[e] \in H \cup {N} /\ From(prev[e]) < e
                            /\ \A h \in H : ~ (From(e) < h /\ h < next[e])
                            /\ next[prev[e]] = e /\ prev[next[e]] = e
  <2> SUFFICES ASSUME NEW e \in H \cup {N}
               PROVE  /\ next[e] \in H \cup {N} /\ From(e) < next[e]
                      /\ prev[e] \in H \cup {N} /\ From(prev[e]) < e
                      /\ \A h \in H : ~ (From(e) < h /\ h < next[e])
                      /\ next[prev[e]] = e /\ prev[next[e]] = e
    OBVIOUS
  <2> HIDE DEF L, H
  <2>1. L.next[L.prev[e]] = e /\ L.prev[L.next[e]] = e
    BY <1>1, LinksAgree
  <2>2. /\ L.next[e] \in H \cup {N} /\ From(e) < L.next[e]
        /\ \A h \in H : ~ (From(e) < h /\ h < L.next[e])
        /\ L.prev[e] \in H \cup {N} /\ From(L.prev[e]) < e
    BY <1>1 DEF Linked
  <2> QED
    BY <1>1, <2>1, <2>2
<1>4. /\ w \in Seq(0..(N - 1)) /\ Elems(w) = H /\ Len(w) \in Nat
      /\ \A i, j \in 1..Len(w) : i < j => w[i] < w[j]
      /\ \A i \in 1..Len(w) : prev[w[i]] = IF i = 1 THEN N ELSE w[i - 1]
  BY <1>1, WalkIs DEF Fit!Walk, Walks
<1>5. \A i \in 1..Len(w) : w[i] \in H
  BY <1>4 DEF Elems
<1>6. Fit!Insert(L, base) =
        IF w = <<>> THEN Fit!ListAdd(L, N, base)
        ELSE IF above = {} THEN Fit!AtEnd(L, base)
        ELSE Fit!ListAddBefore(L, w[CHOOSE i \in above : \A j \in above : i <= j], base)
  BY DEF Fit!Insert, Fit!FREE_LIST
<1> HIDE DEF w
<1>7. ASSUME NEW p \in H \cup {N}, From(p) < base, base < next[p]
      PROVE  Linked(Fit!ListAdd(L, p, base), H \cup {base})
  <2>1. Fit!ListAdd(L, p, base) = Fit!AddBetween(L, base, p, next[p])
    BY <1>1 DEF Fit!ListAdd
  <2>2. next[p] \in H \cup {N} /\ L.next[p] = next[p] /\ L.prev[next[p]] = p
    BY <1>1, <1>3
  <2> HIDE DEF L, H
  <2>3. Linked(Fit!AddBetween(L, base, p, next[p]), H \cup {base})
    BY <1>1, <1>7, <2>2, AddLinks DEF H
  <2> QED
    BY <2>1, <2>3
<1>8. CASE w = <<>>
  <2>1. H = {}
    BY <1>4, <1>8, EmptyList
  <2>2. N \in H \cup {N} /\ From(N) < base /\ base < next[N]
    BY <1>2, <1>3, <2>1
  <2> HIDE DEF H, L
  <2> QED
    BY <1>1, <1>6, <1>7, <1>8, <2>2 DEF H
<1>9. CASE w # <<>> /\ above = {}
  <2> DEFINE z == w[Len(w)]
  <2>1. Len(w) \in 1..Len(w) /\ z \in H
    BY <1>4, <1>5, <1>9
  <2>2. ~ (base < z) /\ z # base
    BY <1>9, <2>1
  <2>3. manager # "default"
    <3> SUFFICES ASSUME manager = "default" PROVE FALSE
      OBVIOUS
    <3>1. PICK h \in H : base < h
      OBVIOUS
    <3>2. PICK i \in 1..Len(w) : h = w[i]
      BY <1>4, <3>1 DEF Elems
    <3> QED
      BY <1>9, <3>1, <3>2
  <2>4. Fit!AtEnd(L, base) = Fit!ListAdd(L, z, base)
    BY <2>3 DEF Fit!AtEnd, w
  <2>5. next[z] = N
    <3> SUFFICES ASSUME next[z] \in H PROVE FALSE
      BY <1>2, <1>3, <2>1
    <3>1. PICK i \in 1..Len(w) : next[z] = w[i]
      BY <1>4 DEF Elems
    <3>2. z < next[z] /\ z \in Nat /\ next[z] \in Nat
      BY <1>2, <1>3, <2>1
    <3>3. i = Len(w) \/ w[i] < z
      BY <1>4, <2>1
    <3> QED
      BY <3>1, <3>2, <3>3
  <2>6. From(z) < base /\ base < next[z] /\ z \in H \cup {N}
    <3>1. From(z) = z /\ z \in Nat
      BY <1>2, <2>1
    <3> HIDE DEF z
    <3> QED
      BY <1>2, <2>1, <2>2, <2>5, <3>1
  <2> HIDE DEF z, H, L
  <2> QED
    BY <1>1, <1>6, <1>7, <1>9, <2>4, <2>6 DEF H
<1>10. CASE w # <<>> /\ above # {}
  <2>1. above \in SUBSET Nat
    BY <1>4
  <2>2. \E i \in above : \A j \in above : i <= j
    <3> HIDE DEF above
    <3> QED
      BY <1>10, <2>1, LeastNatural
  <2> DEFINE i == CHOOSE i \in above : \A j \in above : i <= j
             q == w[i]
             p == prev[q]
  <2>3. i \in above /\ \A j \in above : i <= j
    <3> HIDE DEF above
    <3> QED
      BY <2>2
  <2> HIDE DEF i
  <2>4. i \in 1..Len(w) /\ base < q /\ q \in H /\ i \in Nat
    BY <1>4, <1>5, <2>3
  <2>5. p = (IF i = 1 THEN N ELSE w[i - 1]) /\ p \in H \cup {N}
    BY <1>3, <1>4, <2>4
  <2>6. From(p) < base
    <3>1. CASE i = 1
      BY <1>2, <2>5, <3>1
    <3>2. CASE i # 1
      <4>1. i - 1 \in 1..Len(w) /\ ~ (i <= i - 1)
        BY <1>4, <2>4, <3>2
      <4>2. p = w[i - 1] /\ p \in H /\ ~ (base < p)
        BY <1>5, <2>3, <2>5, <3>2, <4>1
      <4>3. p # base /\ From(p) = p /\ p \in Nat
        BY <1>2, <4>2
      <4> HIDE DEF p
      <4> QED
        BY <1>2, <4>2, <4>3
    <3> QED
      BY <3>1, <3>2
  <2>7. Fit!ListAddBefore(L, q, base) = Fit!AddBetween(L, base, p, q)
    BY <1>1 DEF Fit!ListAddBefore
  <2>8. L.next[p] = q /\ L.prev[q] = p /\ q \in H \cup {N}
    BY <1>1, <1>3, <2>4
  <2>9. Fit!Insert(L, base) = Fit!ListAddBefore(L, q, base)
    BY <1>6, <1>10 DEF i
  <2> HIDE DEF p, q, L, H
  <2>10. Linked(Fit!AddBetween(L, base, p, q), H \cup {base})
    BY <1>1, <2>4, <2>5, <2>6, <2>8, AddLinks DEF H
  <2> QED
    BY <1>1, <2>7, <2>9, <2>10 DEF H
<1> QED
  BY <1>8, <1>9, <1>10

-----------------------------------------------------------------------------
\* What a free is about to write back: the blocks of K on the list
Shape(s, K, F) ==
    /\ s = [property |-> s.property, flag |-> s.flag, links |-> s.links]
    /\ s.property \in [0..(N - 1) -> Nat] /\ s.flag \in [0..(N - 1) -> BOOLEAN]
    /\ \A p \in 0..(N - 1) : s.flag[p] <=> p \in K
    /\ Linked(s.links, K) /\ Parts(s.property, K, F, N)

\* A block is absorbed by the one before it.
LEMMA JoinShape ==
    ASSUME NEW s, NEW K, NEW F, Shape(s, K, F), NEW p \in K, NEW q \in K, p + s.property[p] = q
    PROVE  /\ Shape(Fit!Join(s, p, q), K \ {q}, F) /\ p # q
           /\ p + Fit!Join(s, p, q).property[p] = q + s.property[q]
           /\ \A h \in K \ {q} : h # p => Fit!Join(s, p, q).property[h] = s.property[h]
<1> DEFINE len == s.property
           g == [len EXCEPT ![p] = len[p] + len[q]]
           fl == [s.flag EXCEPT ![q] = FALSE]
           t == [property |-> g, flag |-> fl, links |-> Fit!ListDel(s.links, q)]
           J == K \ {q}
<1>1. /\ s = [property |-> len, flag |-> s.flag, links |-> s.links]
      /\ len \in [0..(N - 1) -> Nat] /\ s.flag \in [0..(N - 1) -> BOOLEAN]
      /\ \A x \in 0..(N - 1) : s.flag[x] <=> x \in K
      /\ Linked(s.links, K) /\ Parts(len, K, F, N)
  BY DEF Shape
<1>2. p \in 0..(N - 1) /\ q \in 0..(N - 1) /\ N \in Nat \ {0}
  BY <1>1, Members
<1>3. Fit!Join(s, p, q) = t
  BY DEF Fit!Join
<1>4. t.property = g /\ t.flag = fl /\ t.links = Fit!ListDel(s.links, q)
  OBVIOUS
<1>5. g \in [0..(N - 1) -> Nat] /\ g[p] = len[p] + len[q] /\ \A h \in 0..(N - 1) : h # p => g[h] = len[h]
  <2>1. len[p] + len[q] \in Nat
    BY <1>1, <1>2
  <2> HIDE DEF len
  <2> QED
    BY <1>1, <1>2, <2>1
<1>6. \A x \in J : g[x] = IF x = p THEN len[p] + len[q] ELSE len[x]
  <2>1. K \subseteq 0..(N - 1)
    BY <1>1, Members
  <2> QED
    BY <1>5, <2>1
<1> HIDE DEF g, len
<1>7. Parts(g, J, F, N) /\ p # q /\ p + g[p] = q + len[q]
  <2>1. p + len[p] = q
    BY DEF len
  <2>2. Added(len, K, p, q, g)
    BY <1>6, <2>1 DEF Added
  <2>3. Parts(len, K, F, N) /\ N \in Nat \ {0}
    BY <1>1, <1>2
  <2> QED
    BY <2>2, <2>3, JoinParts
<1>8. Linked(t.links, J)
  BY <1>1, <1>4, DelLinks
<1>9. fl \in [0..(N - 1) -> BOOLEAN] /\ \A x \in 0..(N - 1) : fl[x] <=> x \in J
  <2> DEFINE s0 == s.flag
  <2>1. s0 \in [0..(N - 1) -> BOOLEAN] /\ fl = [s0 EXCEPT ![q] = FALSE] /\ \A x \in 0..(N - 1) : s0[x] <=> x \in K
    BY <1>1
  <2> HIDE DEF s0, fl
  <2>2. fl \in [0..(N - 1) -> BOOLEAN] /\ fl[q] = FALSE /\ \A x \in 0..(N - 1) : x # q => fl[x] = s0[x]
    BY <2>1, <1>2
  <2> QED
    BY <2>1, <2>2
<1> HIDE DEF fl
<1>10. t = [property |-> t.property, flag |-> t.flag, links |-> t.links]
  BY <1>4
<1> HIDE DEF t
<1>11. Shape(t, J, F)
  BY <1>4, <1>5, <1>7, <1>8, <1>9, <1>10 DEF Shape
<1> QED
  BY <1>3, <1>4, <1>6, <1>7, <1>11 DEF len, J

\* With the two merges a freed block touches no other any more.
LEMMA MergedShape ==
    ASSUME NEW s, NEW K, NEW F, Shape(s, K, F), NEW base \in K, Around(s.property, K, base)
    PROVE  \E J : Shape(Fit!Merged(s, base), J, F) /\ Whole(Fit!Merged(s, base).property, J)
<1> DEFINE p  == s.links.prev[base]
           on == Fit!Touch(s, p, base)
           s1 == IF on THEN Fit!Join(s, p, base) ELSE s
           b  == IF on THEN p ELSE base
           K1 == IF on THEN K \ {base} ELSE K
           q  == s1.links.next[b]
           to == Fit!Touch(s1, b, q)
           s2 == IF to THEN Fit!Join(s1, b, q) ELSE s1
           K2 == IF to THEN K1 \ {q} ELSE K1
<1>1. Fit!Merged(s, base) = s2
  BY DEF Fit!Merged
<1>2. Linked(s.links, K) /\ Parts(s.property, K, F, N)
  BY DEF Shape
<1>3. p \in K \cup {N} /\ base # N /\ N \notin K /\ N \in Nat \ {0}
  BY <1>2, Members DEF Linked
<1>4. on <=> p \in K /\ p + s.property[p] = base
  BY <1>3 DEF Fit!Touch, Fit!FREE_LIST
<1>5. Shape(s1, K1, F) /\ b \in K1 /\ Ahead(s1.property, K1, b) /\ K1 \subseteq K
  <2>1. CASE on
    <3> DEFINE t == Fit!Join(s, p, base)
    <3>1. /\ Shape(t, K \ {base}, F) /\ p # base /\ p \in K
          /\ \A h \in K \ {base} : h # p => t.property[h] = s.property[h]
      <4>1. p \in K /\ p + s.property[p] = base
        BY <1>4, <2>1
      <4> HIDE DEF p
      <4> QED
        BY <4>1, JoinShape
    <3>2. s1 = t /\ b = p /\ K1 = K \ {base}
      BY <2>1
    <3> HIDE DEF t, s1, b, p, K1, on
    <3>3. Ahead(t.property, K1, p)
      BY <3>1, <3>2 DEF Ahead, Around
    <3> QED
      BY <3>1, <3>2, <3>3
  <2>2. CASE ~ on
    <3>1. Ahead(s.property, K, base)
      <4> SUFFICES ASSUME NEW h \in K, NEW k \in K, h + s.property[h] = k, h # base PROVE FALSE
        BY DEF Ahead
      <4>1. k = base
        BY DEF Around
      <4>2. h = p
        BY <1>2, <4>1, NextPart
      <4> QED
        BY <1>4, <2>2, <4>1, <4>2
    <3>2. s1 = s /\ b = base /\ K1 = K
      BY <2>2
    <3> HIDE DEF s1, b, K1
    <3> QED
      BY <3>1, <3>2
  <2> QED
    BY <2>1, <2>2
<1> HIDE DEF s1, b, K1, on, p
<1>6. Linked(s1.links, K1) /\ Parts(s1.property, K1, F, N)
  BY <1>5 DEF Shape
<1>7. q \in K1 \cup {N} /\ b # N /\ N \notin K1
  BY <1>3, <1>5, <1>6 DEF Linked
<1>8. to <=> q \in K1 /\ b + s1.property[b] = q
  BY <1>7 DEF Fit!Touch, Fit!FREE_LIST
<1>9. Shape(s2, K2, F) /\ Whole(s2.property, K2)
  <2>1. CASE to
    <3> DEFINE t == Fit!Join(s1, b, q)
    <3>0. q \in K1 /\ b + s1.property[b] = q
      BY <1>8, <2>1
    <3>1. /\ Shape(t, K1 \ {q}, F) /\ b # q
          /\ b + t.property[b] = q + s1.property[q]
          /\ \A h \in K1 \ {q} : h # b => t.property[h] = s1.property[h]
      <4> HIDE DEF q
      <4> QED
        BY <1>5, <3>0, JoinShape
    <3>2. s2 = t /\ K2 = K1 \ {q}
      BY <2>1
    <3> HIDE DEF t, s2, K2, to, q
    <3>3. Whole(t.property, K2)
      <4> SUFFICES ASSUME NEW h \in K2, NEW k \in K2, h + t.property[h] = k PROVE FALSE
        BY DEF Whole
      <4>1. h \in K1 /\ k \in K1 /\ k # q /\ h # q
        BY <3>2
      <4>2. CASE h = b
        <5>1. q + s1.property[q] = k
          BY <3>1, <4>2
        <5> QED
          BY <1>5, <3>0, <3>1, <4>1, <5>1 DEF Ahead
      <4>3. CASE h # b
        <5>1. h + s1.property[h] = k
          BY <3>1, <3>2, <4>3
        <5> QED
          BY <1>5, <4>1, <4>3, <5>1 DEF Ahead
      <4> QED
        BY <4>2, <4>3
    <3> QED
      BY <3>1, <3>2, <3>3
  <2>2. CASE ~ to
    <3>1. Whole(s1.property, K1)
      <4> SUFFICES ASSUME NEW h \in K1, NEW k \in K1, h + s1.property[h] = k PROVE FALSE
        BY DEF Whole
      <4>1. h = b
        BY <1>5 DEF Ahead
      <4>2. k = q
        BY <1>6, <4>1, NextPart
      <4> QED
        BY <1>8, <2>2, <4>1, <4>2
    <3>2. s2 = s1 /\ K2 = K1
      BY <2>2
    <3> HIDE DEF s2, K2
    <3> QED
      BY <1>5, <3>1, <3>2
  <2> QED
    BY <2>1, <2>2
<1> HIDE DEF s2, K2
<1> QED
  BY <1>1, <1>9

\* best_fit_free_pages and default_free_pages
LEMMA FitFree ==
    ASSUME FitInv, NEW n \in 1..N, NEW base \in 0..(N - 1), Fit!Free(base, n)
    PROVE  /\ FitInv' /\ base..(base + n - 1) \subseteq owned
           /\ owned' = owned \ base..(base + n - 1)
<1> DEFINE H == Begin
           F == (0..(N - 1)) \ owned
           r == base..(base + n - 1)
           L == [next |-> next, prev |-> prev]
           len == [property EXCEPT ![base] = n]
           fl == [PG_property EXCEPT ![base] = TRUE]
           ins == Fit!Insert(Fit!Links, base)
           s0 == [property |-> len, flag |-> fl, links |-> ins]
           s == Fit!Merged(s0, base)
           K == H \cup {base}
<1>1. N \in Nat \ {0} /\ Linked(L, H) /\ Parts(property, H, F, N) /\ Whole(property, H)
  BY DEF FitInv, Linked, Whole
<1>2. /\ r \subseteq owned /\ owned' = owned \ r /\ nr_free' = nr_free + n
      /\ Fit!SetBlocks(s.links, s.property) /\ PG_property' = s.flag /\ manager' = manager
  BY DEF Fit!Free, Fit!Block
<1>3. owned \subseteq 0..(N - 1) /\ r \subseteq 0..(N - 1)
  BY <1>2 DEF FitInv
<1>4. base \in Nat /\ n \in Nat \ {0} /\ base + n <= N /\ base \in r
  <2>1. base + n - 1 \in r /\ base \in r
    BY <1>1
  <2> HIDE DEF r
  <2>2. base + n - 1 \in 0..(N - 1)
    BY <1>3, <2>1
  <2> QED
    BY <1>1, <2>1, <2>2
<1>5. r \cap F = {}
  BY <1>2
<1>6. More(property, H, base, n, len)
  BY <1>1 DEF More, FitInv, Parts
<1>7. Parts(len, K, F \cup r, N) /\ base \notin H /\ Around(len, K, base)
  <2> HIDE DEF F, len, H
  <2> QED
    BY <1>1, <1>4, <1>5, <1>6, AddPart
<1>8. manager = "default" => \E h \in Begin : base < h
  <2> SUFFICES ASSUME manager = "default" PROVE \E h \in H : base < h
    OBVIOUS
  <2>1. N - 1 \in F /\ base \notin F
    <3>1. N - 1 \in 0..(N - 1)
      BY <1>1
    <3> QED
      BY <1>2, <1>4, <3>1 DEF FitInv
  <2>2. PICK h \in H : h <= N - 1 /\ N - 1 < h + property[h]
    BY <1>1, <2>1 DEF Parts
  <2>3. h \in Nat /\ property[h] \in Nat /\ \A x \in Nat : h <= x /\ x < h + property[h] => x \in F
    BY <1>1 DEF Parts
  <2>4. ~ (h <= base)
    BY <1>1, <1>4, <2>1, <2>2, <2>3
  <2> QED
    BY <1>4, <2>3, <2>4
<1>9. Linked(ins, K)
  <2> HIDE DEF ins
  <2> QED
    BY <1>7, <1>8, InsertIs DEF ins
<1>10. len \in [0..(N - 1) -> Nat] /\ fl \in [0..(N - 1) -> BOOLEAN]
  BY <1>4 DEF FitInv
<1>11. \A x \in 0..(N - 1) : fl[x] <=> x \in K
  <2> SUFFICES ASSUME NEW x \in 0..(N - 1) PROVE fl[x] <=> x \in K
    OBVIOUS
  <2>1. x \in H <=> PG_property[x]
    BY DEF Begin
  <2>2. fl[x] = IF x = base THEN TRUE ELSE PG_property[x]
    BY DEF FitInv
  <2>3. x \in K <=> x \in H \/ x = base
    OBVIOUS
  <2> HIDE DEF H, K, fl
  <2> QED
    BY <2>1, <2>2, <2>3, Zenon
<1>12. s0.property = len /\ s0.flag = fl /\ s0.links = ins
  OBVIOUS
<1>13. s0 = [property |-> s0.property, flag |-> s0.flag, links |-> s0.links]
  OBVIOUS
<1> HIDE DEF s0, len, fl, ins
<1>14. Shape(s0, K, F \cup r)
  <2> HIDE DEF F, r, K
  <2> QED
    BY <1>7, <1>9, <1>10, <1>11, <1>12, <1>13 DEF Shape
<1>15. PICK J : Shape(s, J, F \cup r) /\ Whole(s.property, J)
  <2> HIDE DEF F, r
  <2>1. Around(s0.property, K, base) /\ base \in K
    BY <1>7, <1>12
  <2> HIDE DEF K
  <2> QED
    BY <1>14, <2>1, MergedShape
<1> HIDE DEF s
<1>16. /\ s.property \in [0..(N - 1) -> Nat] /\ s.flag \in [0..(N - 1) -> BOOLEAN]
       /\ \A p \in 0..(N - 1) : s.flag[p] <=> p \in J
       /\ Linked(s.links, J) /\ Parts(s.property, J, F \cup r, N) /\ J \subseteq 0..(N - 1)
  <2> HIDE DEF F, r
  <2> QED
    BY <1>15 DEF Shape, Linked
<1>17. Begin' = J
  <2>1. Begin' = {p \in 0..(N - 1) : PG_property'[p]}
    BY DEF Begin
  <2> QED
    BY <1>2, <1>16, <2>1
<1>18. /\ Linked([next |-> next', prev |-> prev'], J) /\ \A p \in J : property'[p] = s.property[p]
       /\ property' \in [0..(N - 1) -> Nat]
  <2>1. \A p \in J : s.property[p] \in Nat
    BY <1>16
  <2> QED
    BY <1>2, <1>16, <2>1, SetIs
<1>19. (0..(N - 1)) \ owned' = F \cup r /\ owned' \subseteq 0..(N - 1)
  <2> HIDE DEF r
  <2> QED
    BY <1>2, <1>3
<1>20. Parts(property', J, F \cup r, N) /\ \A h, k \in J : h + property'[h] # k
  <2> HIDE DEF F, r
  <2>1. Parts(property', J, F \cup r, N)
    BY <1>16, <1>18 DEF Parts
  <2>2. \A h, k \in J : h + property'[h] # k
    BY <1>15, <1>18 DEF Whole
  <2> QED
    BY <2>1, <2>2
<1>21. nr_free' = N - Cardinality(owned')
  <2>1. owned \in SUBSET (0..(N - 1)) /\ nr_free = N - Cardinality(owned) /\ base..(base + n - 1) \subseteq owned
    BY <1>2 DEF FitInv
  <2>2. Cardinality(owned') = Cardinality(owned) - n /\ Cardinality(owned) \in Nat
    BY <1>1, <1>2, <1>4, <2>1, PageCount
  <2> DEFINE c == Cardinality(owned)
             d == Cardinality(owned')
  <2>3. d = c - n /\ c \in Nat /\ nr_free' = (N - c) + n
    BY <1>2, <2>1, <2>2
  <2> HIDE DEF c, d
  <2>4. nr_free' = N - d
    BY <1>1, <2>3
  <2> QED
    BY <2>4 DEF d
<1>22. manager' = "default" => N - 1 \notin owned'
  BY <1>2 DEF FitInv
<1>23. FitInv'
  BY <1>2, <1>16, <1>17, <1>18, <1>19, <1>20, <1>21, <1>22 DEF FitInv
<1> QED
  BY <1>2, <1>23

\* best_fit_init_memmap and default_init_memmap, of the whole area
LEMMA FitInit ==
    ASSUME N \in Nat \ {0}, Fit!Init
    PROVE  FitInv
<1>1. /\ next = [le \in 0..(N - 1) \cup {N} |-> IF le = N THEN 0 ELSE N]
      /\ prev = [le \in 0..(N - 1) \cup {N} |-> IF le = N THEN 0 ELSE N]
      /\ property = [p \in 0..(N - 1) |-> IF p = 0 THEN N ELSE 0]
      /\ PG_property = [p \in 0..(N - 1) |-> p = 0] /\ nr_free = N /\ owned = {}
  BY DEF Fit!Init, Fit!Page, Fit!FREE_LIST
<1>2. 0..(N - 1) \cup {N} = 0..N /\ 0 \in 0..(N - 1) /\ 0 # N /\ 0 \in 0..N /\ N \in 0..N
  <2>1. 0 <= N /\ 0 \in Int /\ N \in Int
    OBVIOUS
  <2> QED
    BY <2>1, Ends
<1>3. Begin = {0}
  <2>1. \A p \in 0..(N - 1) : PG_property[p] <=> p = 0
    BY <1>1
  <2> QED
    BY <1>2, <2>1 DEF Begin
<1>4. next \in [0..N -> 0..N] /\ prev \in [0..N -> 0..N]
  BY <1>1, <1>2
<1>5. next[0] = N /\ prev[0] = N /\ next[N] = 0 /\ prev[N] = 0
  BY <1>1, <1>2
<1>6. From(0) = 0 /\ From(N) = -1
  BY <1>2 DEF From
<1> DEFINE L == [next |-> next, prev |-> prev]
<1>7. L.next = next /\ L.prev = prev
  OBVIOUS
<1> HIDE DEF L
<1>8. Linked(L, {0})
  BY <1>2, <1>4, <1>5, <1>6, <1>7 DEF Linked
<1>9. property \in [0..(N - 1) -> Nat] /\ property[0] = N /\ (0..(N - 1)) \ owned = 0..(N - 1)
  BY <1>1, <1>2
<1>10. Parts(property, {0}, 0..(N - 1), N)
  BY <1>2, <1>9 DEF Parts
<1>11. nr_free = N - Cardinality(owned)
  BY <1>1, FS_EmptySet
<1>12. PG_property \in [0..(N - 1) -> BOOLEAN]
  BY <1>1
<1>13. owned \subseteq 0..(N - 1) /\ N - 1 \notin owned
  BY <1>1
<1>14. Linked([next |-> next, prev |-> prev], Begin) /\ Parts(property, Begin, (0..(N - 1)) \ owned, N)
  BY <1>3, <1>8, <1>9, <1>10 DEF L
<1>15. \A h, k \in Begin : h + property[h] # k
  BY <1>2, <1>3, <1>9
<1> QED
  BY <1>9, <1>11, <1>12, <1>13, <1>14, <1>15 DEF FitInv

\* The cardinality of these two allocators is the one of this module.
LEMMA FitCardinality ==
    ASSUME NEW S
    PROVE  Fit!Cardinality(S) = Cardinality(S)
BY Zenon DEF Fit!Cardinality, Cardinality

\* The list holds the longest runs of free pages.
LEMMA FitIsExact ==
    ASSUME FitInv
    PROVE  Fit!FitExact
<1> DEFINE w == Fit!Walk
           F == (0..(N - 1)) \ owned
           L == [next |-> next, prev |-> prev]
<1>1. N \in Nat \ {0} /\ Linked(L, Begin) /\ Parts(property, Begin, F, N) /\ Whole(property, Begin)
  BY DEF FitInv, Linked, Whole
<1>2. L.next = next /\ L.prev = prev
  OBVIOUS
<1> HIDE DEF L
<1>3. /\ w \in Seq(0..(N - 1)) /\ Elems(w) = Begin /\ Len(w) \in Nat
      /\ \A i, j \in 1..Len(w) : i < j => w[i] < w[j]
      /\ \A i \in 1..Len(w) : prev[w[i]] = IF i = 1 THEN N ELSE w[i - 1]
  <2>1. Walks(Fit!WalkAlong(L.next), Begin, L)
    BY <1>1, WalkIs
  <2>2. w = Fit!WalkAlong(L.next)
    BY <1>2 DEF Fit!Walk
  <2> HIDE DEF w
  <2>3. Walks(w, Begin, L)
    BY <2>1, <2>2
  <2> QED
    BY <1>2, <2>3 DEF Walks
<1>4. Fit!Page = 0..(N - 1) /\ Fit!FREE_LIST = N /\ Fit!Page \ owned = F
  BY DEF Fit!Page, Fit!FREE_LIST
<1> HIDE DEF w
<1>5. \A i \in 1..Len(w) : w[i] \in Begin
  BY <1>3 DEF Elems
<1>6. ASSUME NEW h \in Begin PROVE Fit!FreeRun(h, property[h]) /\ property[h] > 0
  <2>1. /\ h \in Nat /\ property[h] \in Nat \ {0}
        /\ \A x \in Nat : h <= x /\ x < h + property[h] => x \in F
    BY <1>1 DEF Parts
  <2> DEFINE n == property[h]
  <2>2. h - 1 \notin F /\ h + n \notin F
    <3> HIDE DEF F
    <3> QED
      BY <1>1, LongestRun
  <2> HIDE DEF F, n
  <2>3. \A x \in h..(h + n - 1) : x \in Nat /\ h <= x /\ x < h + n
    BY <2>1 DEF n
  <2>4. h..(h + n - 1) \subseteq F
    BY <2>1, <2>3 DEF n
  <2>5. n > 0
    BY <2>1 DEF n
  <2>6. Fit!FreeRun(h, n)
    BY <1>4, <2>2, <2>4 DEF Fit!FreeRun, Fit!Block
  <2> QED
    BY <2>5, <2>6 DEF n
<1>7. ASSUME NEW i \in 1..Len(w)
      PROVE  /\ Fit!FreeRun(w[i], property[w[i]]) /\ property[w[i]] > 0
             /\ i > 1 => w[i - 1] < w[i]
             /\ prev[w[i]] = IF i = 1 THEN N ELSE w[i - 1]
  <2>1. i > 1 => w[i - 1] < w[i]
    <3> SUFFICES ASSUME i > 1 PROVE w[i - 1] < w[i]
      OBVIOUS
    <3>1. i - 1 \in 1..Len(w) /\ i - 1 < i
      BY <1>3
    <3> QED
      BY <1>3, <3>1
  <2> QED
    BY <1>3, <1>5, <1>6, <2>1
<1>8. ASSUME NEW p \in 0..(N - 1) PROVE PG_property[p] <=> \E i \in 1..Len(w) : w[i] = p
  <2>1. PG_property[p] <=> p \in Begin
    BY DEF Begin
  <2>2. p \in Begin <=> \E i \in 1..Len(w) : w[i] = p
    BY <1>3 DEF Elems
  <2> QED
    BY <2>1, <2>2, Zenon
<1>9. nr_free = N - Fit!Cardinality(owned)
  BY FitCardinality DEF FitInv
<1>10. ASSUME NEW p \in F PROVE \E i \in 1..Len(w) : p \in Fit!Block(w[i], property[w[i]])
  <2>1. PICK h \in Begin : h <= p /\ p < h + property[h]
    BY <1>1 DEF Parts
  <2>2. PICK i \in 1..Len(w) : h = w[i]
    BY <1>3 DEF Elems
  <2>3. h \in Nat /\ property[h] \in Nat /\ p \in Nat
    BY <1>1 DEF Parts
  <2>4. p \in h..(h + property[h] - 1)
    BY <2>1, <2>3
  <2> QED
    BY <2>2, <2>4 DEF Fit!Block
<1> HIDE DEF F
<1> QED
  BY <1>4, <1>7, <1>8, <1>9, <1>10 DEF Fit!FitExact, w

\* A step of best fit or of first fit is one of the pool and keeps the list.
LEMMA FitStep ==
    ASSUME IsFit, FitInv, Fit!Next, manager' = "default" => N - 1 \notin owned'
    PROVE  FitInv' /\ Area' = Area /\ (Pool!Allocate \/ Pool!Release)
<1> DEFINE A == 0..(N - 1)
<1>1. N \in Nat \ {0} /\ owned \subseteq A
  BY DEF FitInv, Linked
<1>2. manager' = manager
  BY DEF Fit!Next, Fit!Alloc, Fit!Free
<1>3. Area = A /\ Area' = A /\ Held = owned /\ Held' = owned'
  BY <1>2 DEF Area, Held, IsFit, Fit!Page
<1>4. IsFiniteSet(A)
  BY <1>1, FS_Interval
<1> HIDE DEF A
<1>5. ASSUME NEW n \in 1..N, Fit!Alloc(n) PROVE FitInv' /\ Area' = Area /\ (Pool!Allocate \/ Pool!Release)
  <2>1. FitInv'
    BY <1>5, FitAlloc
  <2>2. PICK page \in 0..(N - 1) : /\ page..(page + n - 1) \subseteq (0..(N - 1)) \ owned
                                   /\ owned' = owned \cup page..(page + n - 1)
    BY <1>5, FitAlloc
  <2>3. page \in Int /\ n \in Nat \ {0}
    BY <1>1
  <2> QED
    BY <1>3, <1>4, <2>1, <2>2, <2>3, PoolStep DEF A
<1>6. ASSUME NEW n \in 1..N, NEW base \in Fit!Page, Fit!Free(base, n)
      PROVE  FitInv' /\ Area' = Area /\ (Pool!Allocate \/ Pool!Release)
  <2>1. base \in 0..(N - 1)
    BY DEF Fit!Page
  <2>2. /\ FitInv' /\ base..(base + n - 1) \subseteq owned
        /\ owned' = owned \ base..(base + n - 1)
    BY <1>6, <2>1, FitFree
  <2>3. base \in Int /\ n \in Nat \ {0}
    BY <1>1, <2>1
  <2> QED
    BY <1>1, <1>3, <1>4, <2>2, <2>3, PoolStep
<1> QED
  BY <1>5, <1>6 DEF Fit!Next

-----------------------------------------------------------------------------
\* The ring from block b on, block by block
RingBy(f, nx, F, b, M) ==
    /\ f \in [0..M -> {s \in Seq(F) : s # <<>>}] /\ f[0] = <<b>>
    /\ \A k \in 0..(M - 1) : f[k + 1] = IF nx[f[k][Len(f[k])]] = b THEN f[k]
                                        ELSE Append(f[k], nx[f[k][Len(f[k])]])

\* It is a recursive function.
LEMMA RingSteps ==
    ASSUME NEW l, NEW F, Round(l.next, F), NEW b \in F, Slob!Top \in Nat
    PROVE  \E f : RingBy(f, l.next, F, b, Slob!Top) /\ Slob!Ring(l, b) = f[Slob!Top]
<1> DEFINE X == {s \in Seq(F) : s # <<>>}
           M == Slob!Top
           go(s) == IF l.next[s[Len(s)]] = b THEN s ELSE Append(s, l.next[s[Len(s)]])
           step == [k \in Nat |-> [s \in X |-> go(s)]]
           Body(f) == [k \in 0..M |-> IF k = 0 THEN <<b>> ELSE go(f[k - 1])]
           f == CHOOSE f : f = Body(f)
<1>1. Slob!Ring(l, b) = f[M]
  BY DEF Slob!Ring, Slob!Addr
<1>2. \A s \in X : go(s) \in X
  <2> SUFFICES ASSUME NEW s \in X PROVE go(s) \in X
    OBVIOUS
  <2>1. s[Len(s)] \in F /\ s \in Seq(F) /\ s # <<>>
    BY LastIn
  <2>2. l.next[s[Len(s)]] \in F
    BY <2>1 DEF Round
  <2> DEFINE x == l.next[s[Len(s)]]
  <2> HIDE DEF x
  <2>3. Append(s, x) \in Seq(F) /\ Append(s, x) # <<>>
    BY <2>1, <2>2 DEF x
  <2> QED
    BY <2>3 DEF x
<1> HIDE DEF go
<1>3. step \in [Nat -> [X -> X]] /\ <<b>> \in X
  BY <1>2
<1>4. PICK g : Follows(g, X, <<b>>, step, M)
  <2> HIDE DEF step, X
  <2> QED
    BY <1>3, FiniteRecursion
<1>5. g \in [0..M -> X] /\ g[0] = <<b>> /\ \A k \in 0..M - 1 : g[k + 1] = go(g[k])
  <2>1. g \in [0..M -> X] /\ g[0] = <<b>> /\ \A k \in 0..M - 1 : g[k + 1] = step[k][g[k]]
    BY <1>4 DEF Follows
  <2> HIDE DEF X
  <2>2. \A k \in 0..M - 1 : k \in Nat /\ g[k] \in X
    BY <2>1
  <2> QED
    BY <2>1, <2>2
<1>6. g = Body(g)
  <2> HIDE DEF X
  <2>1. \A k \in 0..M : k # 0 => k - 1 \in 0..M - 1 /\ (k - 1) + 1 = k
    OBVIOUS
  <2>2. \A k \in 0..M : g[k] = IF k = 0 THEN <<b>> ELSE go(g[k - 1])
    BY <1>5, <2>1
  <2> QED
    BY <1>5, <2>2
<1>7. f = Body(f)
  BY <1>6
<1> HIDE DEF f, M
<1>8. f[0] = <<b>> /\ \A k \in 0..M - 1 : f[k + 1] = go(f[k])
  <2>0. M \in Nat
    BY DEF M
  <2>1. \A k \in 0..M - 1 : k + 1 \in 0..M /\ k + 1 # 0 /\ (k + 1) - 1 = k
    BY <2>0
  <2>2. \A k \in 0..M : f[k] = IF k = 0 THEN <<b>> ELSE go(f[k - 1])
    BY <1>7
  <2>3. 0 \in 0..M
    BY <2>0
  <2> QED
    BY <2>1, <2>2, <2>3
<1> DEFINE I == {k \in Nat : k <= M => f[k] \in X}
<1>9. Nat \subseteq I
  <2>1. 0 \in I
    BY <1>3, <1>8
  <2>2. ASSUME NEW k \in Nat, k \in I PROVE k + 1 \in I
    <3> SUFFICES ASSUME k + 1 <= M PROVE f[k + 1] \in X
      OBVIOUS
    <3>1. k \in 0..M - 1 /\ f[k] \in X
      BY <2>2 DEF M
    <3> HIDE DEF X
    <3> QED
      BY <1>2, <1>8, <3>1
  <2> HIDE DEF I
  <2> QED
    BY <2>1, <2>2, NatInd
<1>10. f \in [0..M -> X]
  <2>1. \A k \in 0..M : f[k] \in X
    BY <1>9
  <2> HIDE DEF X
  <2> QED
    BY <1>7, <2>1
<1>11. /\ f \in [0..M -> X] /\ f[0] = <<b>> /\ Slob!Ring(l, b) = f[M]
       /\ \A k \in 0..M - 1 : f[k + 1] = IF l.next[f[k][Len(f[k])]] = b THEN f[k]
                                         ELSE Append(f[k], l.next[f[k][Len(f[k])]])
  BY <1>1, <1>8, <1>10 DEF go
<1>12. RingBy(f, l.next, F, b, M)
  BY <1>11 DEF RingBy
<1>13. RingBy(f, l.next, F, b, Slob!Top) /\ Slob!Ring(l, b) = f[Slob!Top]
  BY <1>1, <1>12 DEF M
<1> QED
  BY <1>13

\* The ring met from b on is every block of it, each once.
LEMMA RingIs ==
    ASSUME NEW l, NEW F, Round(l.next, F), NEW b \in F, Slob!Top \in Nat, F \subseteq 0..Slob!Top
    PROVE  /\ Slob!Ring(l, b) \in Seq(F) /\ Elems(Slob!Ring(l, b)) = F
           /\ Distinct(Slob!Ring(l, b)) /\ Cardinality(F) = Len(Slob!Ring(l, b))
<1> DEFINE nx == l.next
           M == Slob!Top
           Met(s, k) ==
              /\ s \in Seq(F) /\ s # <<>> /\ Len(s) <= k + 1 /\ s[1] = b /\ Distinct(s)
              /\ \A i \in 1..Len(s) : i > 1 => s[i] = nx[s[i - 1]]
              /\ Len(s) = k + 1 \/ nx[s[Len(s)]] = b
<1>0. PICK f : RingBy(f, nx, F, b, M) /\ Slob!Ring(l, b) = f[M]
  BY RingSteps
<1>1. /\ f \in [0..M -> {s \in Seq(F) : s # <<>>}]
      /\ f[0] = <<b>> /\ Slob!Ring(l, b) = f[M]
      /\ \A k \in 0..(M - 1) : f[k + 1] = IF nx[f[k][Len(f[k])]] = b THEN f[k]
                                          ELSE Append(f[k], nx[f[k][Len(f[k])]])
  <2> HIDE DEF nx
  <2> QED
    BY <1>0 DEF RingBy
<1>2. Round(nx, F) /\ M \in Nat
  OBVIOUS
<1> HIDE DEF nx, M
<1>3. \A a \in F : nx[a] \in F
  BY <1>2 DEF Round
<1>4. ASSUME NEW s, NEW k \in Nat, Met(s, k), nx[s[Len(s)]] # b
      PROVE  nx[s[Len(s)]] \notin Elems(s) /\ nx[s[Len(s)]] \in F
  <2> DEFINE n == Len(s)
  <2>1. n \in Nat /\ n >= 1 /\ n \in 1..n /\ s[n] \in F
    BY <1>4
  <2> HIDE DEF n
  <2>2. ASSUME NEW i \in 1..n, s[i] = nx[s[n]] PROVE FALSE
    <3>1. i > 1
      BY <1>4, <2>1, <2>2 DEF n
    <3>2. s[i] = nx[s[i - 1]] /\ i - 1 \in 1..n /\ i - 1 # n
      BY <1>4, <2>1, <3>1 DEF n
    <3>3. s[i - 1] \in F
      BY <1>4, <3>2 DEF n
    <3>4. s[i - 1] = s[n]
      BY <1>2, <2>1, <2>2, <3>2, <3>3, OneBefore
    <3> QED
      BY <1>4, <2>1, <3>2, <3>4 DEF Distinct, n
  <2> QED
    BY <1>3, <2>1, <2>2 DEF Elems, n
<1> DEFINE I == {k \in Nat : k <= M => Met(f[k], k)}
<1>5. Nat \subseteq I
  <2>1. 0 \in I
    <3>1. Met(<<b>>, 0)
      BY SingletonList DEF Distinct
    <3> QED
      BY <1>1, <3>1
  <2>2. ASSUME NEW k \in Nat, k \in I PROVE k + 1 \in I
    <3> SUFFICES ASSUME k + 1 <= M PROVE Met(f[k + 1], k + 1)
      OBVIOUS
    <3> DEFINE s == f[k]
               x == nx[s[Len(s)]]
    <3>1. Met(s, k) /\ k \in 0..(M - 1)
      BY <1>2, <2>2
    <3>2. f[k + 1] = IF x = b THEN s ELSE Append(s, x)
      BY <1>1, <3>1
    <3> HIDE DEF s
    <3>3. CASE x = b
      BY <3>1, <3>2, <3>3
    <3>4. CASE x # b
      <4>1. x \notin Elems(s) /\ x \in F
        BY <1>4, <3>1, <3>4
      <4> DEFINE t == Append(s, x)
      <4>2. s \in Seq(F) /\ s # <<>> /\ Distinct(s) /\ Len(s) = k + 1
        BY <3>1, <3>4
      <4>0. x = nx[s[Len(s)]]
        OBVIOUS
      <4> HIDE DEF x
      <4>3. t \in Seq(F) /\ Distinct(t)
        BY <4>1, <4>2, AppendList
      <4>4. /\ Len(t) = Len(s) + 1 /\ t[Len(s) + 1] = x /\ \A i \in 1..Len(s) : t[i] = s[i]
            /\ t # <<>>
        BY <4>1, <4>2
      <4> HIDE DEF t
      <4>5. ASSUME NEW i \in 1..Len(t), i > 1 PROVE t[i] = nx[t[i - 1]]
        <5>1. CASE i = Len(s) + 1
          BY <4>0, <4>2, <4>4, <5>1
        <5>2. CASE i # Len(s) + 1
          <6>1. i \in 1..Len(s) /\ i - 1 \in 1..Len(s)
            BY <4>2, <4>4, <4>5, <5>2
          <6> QED
            BY <3>1, <4>4, <4>5, <6>1
        <5> QED
          BY <5>1, <5>2
      <4>6. t[1] = b
        BY <3>1, <4>2, <4>4
      <4>7. Met(t, k + 1)
        BY <4>2, <4>3, <4>4, <4>5, <4>6
      <4> QED
        BY <3>2, <3>4, <4>7 DEF t
    <3> QED
      BY <3>3, <3>4
  <2> HIDE DEF I
  <2> QED
    BY <2>1, <2>2, NatInd
<1> DEFINE s == f[M]
<1>6. Met(s, M)
  BY <1>2, <1>5
<1> HIDE DEF s
<1>7. s \in Seq(F) /\ s # <<>> /\ Len(s) \in Nat /\ Len(s) \in 1..Len(s)
  BY <1>6
<1>8. IsFiniteSet(F) /\ Cardinality(F) <= M + 1 /\ Cardinality(Elems(s)) = Len(s)
  <2>1. IsFiniteSet(0..M) /\ Cardinality(0..M) = M + 1
    BY <1>2, FS_Interval
  <2>2. F \subseteq 0..M
    BY DEF M
  <2>3. Cardinality(Elems(s)) = Len(s)
    BY <1>6, DistinctLength
  <2> QED
    BY <2>1, <2>2, <2>3, FS_Subset
<1>9. nx[s[Len(s)]] = b
  <2> SUFFICES ASSUME nx[s[Len(s)]] # b PROVE FALSE
    OBVIOUS
  <2>1. nx[s[Len(s)]] \notin Elems(s) /\ nx[s[Len(s)]] \in F
    BY <1>2, <1>4, <1>6
  <2>2. Len(s) = M + 1
    BY <1>6
  <2>3. Elems(s) \subseteq F
    BY <1>7 DEF Elems
  <2>4. Elems(s) # F
    BY <2>1
  <2>5. Cardinality(Elems(s)) <= Cardinality(F) /\ Cardinality(Elems(s)) # Cardinality(F)
    BY <1>8, <2>3, <2>4, FS_Subset
  <2>6. Cardinality(F) \in Nat
    BY <1>8, FS_CardinalityType
  <2> DEFINE c == Cardinality(F)
  <2>7. M + 1 <= c /\ c # M + 1 /\ c <= M + 1 /\ c \in Nat
    BY <1>8, <2>2, <2>5, <2>6
  <2> HIDE DEF c
  <2> QED
    BY <1>2, <2>7
<1>10. ASSUME NEW e \in Elems(s) PROVE nx[e] \in Elems(s)
  <2>1. PICK i \in 1..Len(s) : e = s[i]
    BY DEF Elems
  <2>2. CASE i = Len(s)
    <3>1. 1 \in 1..Len(s) /\ s[1] = b
      BY <1>6, <1>7
    <3> QED
      BY <1>9, <2>1, <2>2, <3>1 DEF Elems
  <2>3. CASE i # Len(s)
    <3>1. i + 1 \in 1..Len(s) /\ i + 1 > 1 /\ (i + 1) - 1 = i
      BY <1>7, <2>3
    <3>2. s[i + 1] = nx[s[i]]
      BY <1>6, <3>1
    <3> QED
      BY <2>1, <3>1, <3>2 DEF Elems
  <2> QED
    BY <2>2, <2>3
<1>11. Elems(s) = F
  <2>1. Elems(s) \subseteq F /\ Elems(s) # {} /\ F \subseteq 0..M
    BY <1>7 DEF Elems, M
  <2> QED
    BY <1>2, <1>10, <2>1, AllRound
<1> QED
  BY <1>1, <1>6, <1>7, <1>8, <1>11 DEF s

\* The search ends at what it looks for when that is in the ring.
LEMMA FirstIs ==
    ASSUME NEW S, NEW s \in Seq(S), NEW T, NEW x \in Elems(s), x \in T
    PROVE  Slob!First(s, T) \in T /\ Slob!First(s, T) \in Elems(s)
<1> DEFINE I == {i \in 1..Len(s) : s[i] \in T}
           Is(i) == s[i] \in T /\ \A j \in 1..(i - 1) : s[j] \notin T
           k == CHOOSE i \in 1..Len(s) : Is(i)
<1>1. I \in SUBSET Nat /\ I # {}
  BY DEF Elems
<1>2. \E i \in I : \A j \in I : i <= j
  <2> HIDE DEF I
  <2> QED
    BY <1>1, LeastNatural
<1>3. \E i \in 1..Len(s) : Is(i)
  <2>1. PICK i \in I : \A j \in I : i <= j
    BY <1>2
  <2>2. ASSUME NEW j \in 1..(i - 1), s[j] \in T PROVE FALSE
    <3>1. j \in I /\ ~ (i <= j)
      BY <2>1, <2>2
    <3> QED
      BY <2>1, <3>1
  <2> QED
    BY <2>1, <2>2
<1>4. k \in 1..Len(s) /\ Is(k)
  <2> HIDE DEF Is
  <2> QED
    BY <1>3
<1>5. Slob!First(s, T) = s[k]
  BY DEF Slob!First
<1> HIDE DEF k
<1> QED
  BY <1>4, <1>5 DEF Elems

-----------------------------------------------------------------------------
\* The blocks the list of kmalloc leads through
OnRing(l) == {a \in 0..Slob!Top : l.next[a] # -1}

\* A list of kmalloc as it should be, beside the blocks A that are handed out
ListOk(l, A, V) ==
    /\ l.units \in [0..Slob!Top -> Nat] /\ l.next \in [0..Slob!Top -> Int]
    /\ Chain(l.next, OnRing(l), l.units, A, V, Slob!Top)
    /\ 0 \in OnRing(l) /\ l.slobfree \in OnRing(l)
    /\ Whole(l.units, OnRing(l))

\* Such a list when block b, whose length is n, is about to be freed
Freeing(l, A, V, b, n, g) ==
    /\ Slob!Top \in Nat /\ n \in Nat \ {0}
    /\ l.units \in [0..Slob!Top -> Nat] /\ l.next \in [0..Slob!Top -> Int]
    /\ Round(l.next, OnRing(l)) /\ A \cap OnRing(l) = {} /\ b \notin OnRing(l) \cup A
    /\ 0 \in OnRing(l) /\ l.slobfree \in OnRing(l)
    /\ Whole(l.units, OnRing(l))
    /\ More(l.units, OnRing(l) \cup A, b, n, g)
    /\ Parts(g, (OnRing(l) \cup A) \cup {b}, V, Slob!Top + 1)

\* slob_free finds a place for the block.
LEMMA PlaceIs ==
    ASSUME NEW l, Slob!Top \in Nat, Round(l.next, OnRing(l)), l.slobfree \in OnRing(l),
           NEW b \in Nat, b \notin OnRing(l)
    PROVE  LET cur == Slob!First(Slob!Ring(l, l.slobfree),
                                 {c \in Slob!Addr : l.next[c] # Slob!NULL /\ Slob!IsPlace(l, c, b)})
           IN  cur \in OnRing(l) /\ Behind(l.next, cur, b)
<1> DEFINE F == OnRing(l)
           T == {c \in Slob!Addr : l.next[c] # Slob!NULL /\ Slob!IsPlace(l, c, b)}
           ring == Slob!Ring(l, l.slobfree)
           cur == Slob!First(ring, T)
<1>1. F \subseteq 0..Slob!Top /\ F # {}
  BY DEF OnRing
<1>2. \A c : c \in T <=> c \in F /\ Behind(l.next, c, b)
  <2>1. \A c : Slob!IsPlace(l, c, b) <=> Behind(l.next, c, b)
    BY Zenon DEF Slob!IsPlace, Behind
  <2>2. T = {c \in 0..Slob!Top : l.next[c] # -1 /\ Slob!IsPlace(l, c, b)}
    BY DEF Slob!Addr, Slob!NULL
  <2> QED
    BY <2>1, <2>2 DEF OnRing
<1>3. PICK p \in F : Behind(l.next, p, b)
  <2> HIDE DEF F
  <2> QED
    BY <1>1, SomePlace DEF F
<1>4. ring \in Seq(F) /\ Elems(ring) = F
  <2> HIDE DEF F
  <2> QED
    BY <1>1, RingIs DEF F
<1>5. p \in Elems(ring) /\ p \in T
  BY <1>2, <1>3, <1>4
<1> HIDE DEF ring, T, F
<1>6. cur \in T
  BY <1>4, <1>5, FirstIs
<1>7. cur \in F /\ Behind(l.next, cur, b)
  BY <1>2, <1>6
<1> QED
  BY <1>7 DEF cur, F, ring, T

\* Block b is in the list behind cur, and joined with the block after it if the
\* two touch.
UpDone(l, A, V, b, n, cur, after, F, mx, g) ==
    /\ Chain(mx, F, g, A, V, Slob!Top)
    /\ cur \in F /\ b \in F /\ 0 \in F /\ cur # b /\ mx[cur] = b
    /\ F = (OnRing(l) \cup {b}) \ (IF b + n = after THEN {after} ELSE {})
    /\ mx[b] = IF b + n = after THEN l.next[after] ELSE after
    /\ g[b] = IF b + n = after THEN n + l.units[after] ELSE n
    /\ \A a \in F \cup A : a # b => g[a] = l.units[a]
    /\ \A a \in F : a # b /\ a # cur => mx[a] = l.next[a]
    /\ \A h, k \in F : h + g[h] = k => k = b

\* The first half of slob_free
LEMMA SlobUp ==
    ASSUME NEW l, NEW A, NEW V, NEW b, NEW n, NEW g, Freeing(l, A, V, b, n, g),
           NEW cur \in OnRing(l), Behind(l.next, cur, b)
    PROVE  \E F, mx, h : UpDone(l, A, V, b, n, cur, l.next[cur], F, mx, h)
<1> DEFINE R == OnRing(l)
           M == Slob!Top
           nx == l.next
           after == nx[cur]
           F0 == R \cup {b}
           m0 == [a \in 0..M |-> IF a = cur THEN b ELSE IF a = b THEN after ELSE nx[a]]
<1>1. /\ M \in Nat /\ n \in Nat \ {0} /\ Round(nx, R) /\ A \cap R = {} /\ b \notin R \cup A
      /\ 0 \in R /\ Whole(l.units, R) /\ More(l.units, R \cup A, b, n, g)
      /\ Parts(g, F0 \cup A, V, M + 1) /\ R \subseteq 0..M
  <2>1. (R \cup A) \cup {b} = F0 \cup A
    OBVIOUS
  <2>2. R \subseteq 0..M
    BY DEF OnRing
  <2> HIDE DEF R, F0, M
  <2> QED
    BY <2>1, <2>2 DEF Freeing, R, M
<1> HIDE DEF R, M, nx
<1>2. cur \in R /\ Behind(nx, cur, b)
  BY DEF R, nx
<1>3. b \in 0..M /\ b \in Nat /\ cur \in 0..M /\ cur \in Nat /\ cur # b /\ after \in R /\ after # b /\ after \in Nat
  <2>1. F0 \cup A \subseteq 0..((M + 1) - 1)
    BY <1>1 DEF Parts
  <2>2. (M + 1) - 1 = M
    BY <1>1
  <2>3. after \in R
    BY <1>1, <1>2 DEF Round
  <2> QED
    BY <1>1, <1>2, <2>1, <2>2, <2>3
<1> HIDE DEF after
<1>4. m0[cur] = b /\ m0[b] = after /\ \A a \in R : a # cur => m0[a] = nx[a]
  BY <1>1, <1>3
<1> HIDE DEF m0
<1>5. Round(m0, F0)
  <2>1. Entered(nx, R, cur, b, m0)
    BY <1>1, <1>2, <1>3, <1>4 DEF Entered, after
  <2> QED
    BY <1>1, <2>1, EnterRound
<1>6. Chain(m0, F0, g, A, V, M)
  <2>1. F0 \subseteq 0..M /\ A \cap F0 = {}
    BY <1>1, <1>3
  <2> HIDE DEF F0
  <2> QED
    BY <1>1, <1>5, <2>1 DEF Chain
<1>7. g[b] = n /\ \A a \in R \cup A : g[a] = l.units[a]
  BY <1>1 DEF More
<1>8. ASSUME NEW h \in F0, NEW k \in F0, h + g[h] = k, h # b PROVE k = b
  BY <1>1, <1>7, <1>8 DEF Whole
<1>9. ASSUME NEW k \in F0, b + n = k PROVE k = after
  <2>1. k \in Nat /\ b < k
    BY <1>1, <1>3, <1>9
  <2>2. \A h \in F0 : b < h => b + g[b] <= h
    BY <1>1 DEF Parts
  <2>3. \A h \in F0 : h \in Nat
    BY <1>1, <1>3
  <2>4. \A h \in F0 : ~ (b < h /\ h < k)
    BY <1>1, <1>3, <1>7, <1>9, <2>2, <2>3
  <2>5. m0[b] = k
    <3> HIDE DEF F0
    <3>1. b \in F0
      BY DEF F0
    <3> QED
      BY <1>5, <2>1, <2>4, <3>1, NextUp
  <2> QED
    BY <1>4, <2>5
<1>10. CASE b + n # after
  <2>1. \A h, k \in F0 : h + g[h] = k => k = b
    <3> SUFFICES ASSUME NEW h \in F0, NEW k \in F0, h + g[h] = k PROVE k = b
      OBVIOUS
    <3> QED
      BY <1>7, <1>8, <1>9, <1>10
  <2>2. /\ cur \in F0 /\ b \in F0 /\ 0 \in F0 /\ F0 = (OnRing(l) \cup {b}) \ {}
        /\ \A a \in F0 \cup A : a # b => g[a] = l.units[a]
        /\ \A a \in F0 : a # b /\ a # cur => m0[a] = nx[a]
    BY <1>1, <1>2, <1>4, <1>7 DEF R
  <2> HIDE DEF F0
  <2>3. UpDone(l, A, V, b, n, cur, after, F0, m0, g)
    BY <1>3, <1>4, <1>6, <1>7, <1>10, <2>1, <2>2 DEF UpDone, M, nx
  <2> QED
    BY <2>3 DEF after, nx
<1>11. CASE b + n = after
  <2> DEFINE F1 == F0 \ {after}
             m1 == [a \in 0..M |-> IF a = b THEN nx[after] ELSE m0[a]]
             h1 == [a \in 0..M |-> IF a = b THEN n + l.units[after] ELSE g[a]]
  <2>1. after # cur /\ after # 0
    <3>1. after # 0
      BY <1>1, <1>3, <1>11
    <3>2. ASSUME after = cur PROVE FALSE
      <4>1. nx[cur] = cur
        BY <3>2 DEF after
      <4>2. 0 \in R /\ cur \in R /\ \A h \in R : cur <= h /\ h <= cur
        BY <1>1, <1>2, <1>3, <4>1 DEF Round
      <4>3. cur <= 0 /\ cur \in Nat
        BY <1>3, <4>2
      <4> QED
        BY <3>1, <3>2, <4>3
    <3> QED
      BY <3>1, <3>2
  <2>2. /\ m1[b] = nx[after] /\ \A a \in 0..M : a # b => m1[a] = m0[a]
        /\ h1[b] = n + l.units[after] /\ \A a \in 0..M : a # b => h1[a] = g[a]
    BY <1>3
  <2> HIDE DEF m1, h1
  <2>3. Dropped(m0, F0, b, after, m1)
    BY <1>1, <1>3, <1>4, <2>1, <2>2 DEF Dropped
  <2>4. A \subseteq 0..M
    <3>1. F0 \cup A \subseteq 0..((M + 1) - 1) /\ (M + 1) - 1 = M
      BY <1>1 DEF Parts
    <3> QED
      BY <3>1
  <2>5. Added(g, F0 \cup A, b, after, h1)
    <3>1. g[b] + g[after] = n + l.units[after]
      BY <1>3, <1>7
    <3>2. \A a \in (F0 \cup A) \ {after} : a \in 0..M
      BY <1>1, <1>3, <2>4
    <3>3. b + g[b] = after
      BY <1>7, <1>11
    <3>4. \A a \in (F0 \cup A) \ {after} : h1[a] = IF a = b THEN g[b] + g[after] ELSE g[a]
      BY <2>2, <3>1, <3>2
    <3> QED
      BY <3>3, <3>4 DEF Added
  <2>6. /\ Chain(m1, F1, h1, A, V, M) /\ b \in F1 /\ b + h1[b] = after + g[after]
        /\ \A a \in (F0 \cup A) \ {after} : a # b => h1[a] = g[a]
    <3>1. b \in F0 /\ after \in F0
      BY <1>3
    <3> HIDE DEF F0
    <3>2. Joining(m0, F0, g, A, V, M, b, after, m1, h1)
      BY <1>6, <2>3, <2>5, <3>1 DEF Joining
    <3>3. /\ Chain(m1, F0 \ {after}, h1, A, V, M) /\ b \in F0 \ {after} /\ b + h1[b] = after + g[after]
          /\ \A a \in (F0 \cup A) \ {after} : a # b => h1[a] = g[a]
      BY <3>2, JoinChain, ZenonT(60)
    <3> QED
      BY <3>3
  <2>7. ASSUME NEW h \in F1, NEW k \in F1, h + h1[h] = k PROVE k = b
    <3>1. CASE h = b
      <4>1. after + l.units[after] = k
        BY <1>3, <1>7, <2>6, <2>7, <3>1
      <4> QED
        BY <1>1, <1>3, <2>7, <4>1 DEF Whole
    <3>2. CASE h # b
      <4>1. h + g[h] = k /\ h \in F0 /\ k \in F0
        BY <2>6, <2>7, <3>2
      <4> QED
        BY <1>8, <3>2, <4>1
    <3> QED
      BY <3>1, <3>2
  <2>8. /\ cur \in F1 /\ 0 \in F1 /\ F1 = (OnRing(l) \cup {b}) \ {after} /\ m1[cur] = b
        /\ \A a \in F1 \cup A : a # b => h1[a] = l.units[a]
        /\ \A a \in F1 : a # b /\ a # cur => m1[a] = nx[a]
    <3>1. \A a \in F1 \cup A : a # b => a \in R \cup A /\ a \in (F0 \cup A) \ {after} /\ a \in 0..M
      BY <1>1, <1>3, <2>4
    <3>2. \A a \in F1 \cup A : a # b => h1[a] = l.units[a]
      BY <1>7, <2>6, <3>1
    <3>3. \A a \in F1 : a # b /\ a # cur => m1[a] = nx[a]
      BY <1>4, <2>2, <3>1, <1>1
    <3>4. cur \in F1 /\ 0 \in F1 /\ F1 = (OnRing(l) \cup {b}) \ {after} /\ m1[cur] = b
      BY <1>1, <1>2, <1>3, <1>4, <2>1, <2>2 DEF R
    <3> QED
      BY <3>2, <3>3, <3>4
  <2> HIDE DEF F1
  <2>9. UpDone(l, A, V, b, n, cur, after, F1, m1, h1)
    BY <1>3, <1>11, <2>2, <2>6, <2>7, <2>8 DEF UpDone, M, nx
  <2> QED
    BY <2>9 DEF after, nx
<1> QED
  BY <1>10, <1>11

\* slob_free gives a list as it should be, and leaves the blocks of others alone.
LEMMA SlobFreeIs ==
    ASSUME NEW l, NEW A, NEW V, NEW b, NEW n, NEW g, Freeing(l, A, V, b, n, g)
    PROVE  /\ ListOk(Slob!SlobFree(l, b, n), A, V)
           /\ \A a \in A : Slob!SlobFree(l, b, n).units[a] = l.units[a]
<1> DEFINE R == OnRing(l)
           M == Slob!Top
           ring == Slob!Ring(l, l.slobfree)
           cur == Slob!First(ring, {c \in Slob!Addr : l.next[c] # Slob!NULL /\ Slob!IsPlace(l, c, b)})
           after == l.next[cur]
           up == b + n = after
           u == IF up THEN n + l.units[after] ELSE n
           nx == IF up THEN l.next[after] ELSE after
           down == cur + l.units[cur] = b
           gone == (IF up THEN {after} ELSE {}) \cup (IF down THEN {b} ELSE {})
           r == Slob!SlobFree(l, b, n)
<1>1. /\ M \in Nat /\ n \in Nat \ {0} /\ Round(l.next, R) /\ A \cap R = {} /\ b \notin R \cup A
      /\ l.units \in [0..M -> Nat] /\ l.next \in [0..M -> Int]
      /\ 0 \in R /\ l.slobfree \in R /\ R \subseteq 0..M
      /\ Parts(g, (R \cup A) \cup {b}, V, M + 1)
  <2>2. R \subseteq 0..M
    BY DEF OnRing
  <2> HIDE DEF R, M
  <2> QED
    BY <2>2 DEF Freeing, R, M
<1>2. b \in 0..M /\ b \in Nat /\ A \subseteq 0..M
  <2>1. (R \cup A) \cup {b} \subseteq 0..((M + 1) - 1)
    BY <1>1 DEF Parts
  <2>2. (M + 1) - 1 = M
    BY <1>1
  <2> QED
    BY <1>1, <2>1, <2>2
<1>3. cur \in R /\ Behind(l.next, cur, b)
  BY <1>1, <1>2, PlaceIs
<1>4. /\ r.slobfree = cur
      /\ r.next = [a \in 0..M |-> IF a \in gone THEN -1
                                  ELSE IF down THEN (IF a = cur THEN nx ELSE l.next[a])
                                  ELSE IF a = cur THEN b
                                  ELSE IF a = b THEN nx ELSE l.next[a]]
      /\ r.units = [a \in 0..M |-> IF a \in gone THEN 0
                                   ELSE IF down THEN (IF a = cur THEN l.units[a] + u ELSE l.units[a])
                                   ELSE IF a = b THEN u ELSE l.units[a]]
  BY DEF Slob!SlobFree, Slob!Addr, Slob!NULL
<1> HIDE DEF r, cur, ring
<1>5. PICK F, mx, h : UpDone(l, A, V, b, n, cur, after, F, mx, h)
  <2> HIDE DEF R
  <2> QED
    BY <1>3, SlobUp DEF R
<1>6. /\ Chain(mx, F, h, A, V, M) /\ cur \in F /\ b \in F /\ 0 \in F /\ cur # b /\ mx[cur] = b
      /\ F = (R \cup {b}) \ (IF up THEN {after} ELSE {})
      /\ mx[b] = nx /\ h[b] = u
      /\ \A a \in F \cup A : a # b => h[a] = l.units[a]
      /\ \A a \in F : a # b /\ a # cur => mx[a] = l.next[a]
      /\ \A e, k \in F : e + h[e] = k => k = b
  <2> HIDE DEF R, after
  <2> QED
    BY <1>5 DEF UpDone, R
<1>7. cur \in 0..M /\ cur \in Nat /\ F \subseteq 0..M /\ A \cap F = {} /\ Parts(h, F \cup A, V, M + 1) /\ Round(mx, F)
  <2>1. F \subseteq 0..M /\ A \cap F = {} /\ Parts(h, F \cup A, V, M + 1) /\ Round(mx, F)
    <3> HIDE DEF M, R
    <3>1. Chain(mx, F, h, A, V, M)
      BY <1>6
    <3> QED
      BY <3>1 DEF Chain
  <2>2. cur \in 0..M /\ cur \in Nat
    <3> HIDE DEF R
    <3> QED
      BY <1>1, <1>3
  <2> QED
    BY <2>1, <2>2
<1>8. \A a \in F \cup A : h[a] \in Nat
  BY <1>7 DEF Parts
<1>9. nx \in F
  BY <1>6, <1>7 DEF Round
<1> DEFINE G == IF down THEN F \ {b} ELSE F
<1>10. \A a \in 0..M : a \in gone => a \notin G /\ a \notin A
  <2>1. up => after \notin F /\ after \in R
    <3>1. up => after \notin F
      BY <1>6
    <3>2. after \in R
      BY <1>1, <1>3 DEF Round
    <3> QED
      BY <3>1, <3>2
  <2>2. down => b \notin G
    OBVIOUS
  <2>3. A \cap R = {} /\ b \notin A
    BY <1>1
  <2> HIDE DEF up, down, after, R
  <2>4. \A a \in gone : (up /\ a = after) \/ (down /\ a = b)
    OBVIOUS
  <2>5. G \subseteq F
    OBVIOUS
  <2> HIDE DEF gone, G
  <2> QED
    BY <2>1, <2>2, <2>3, <2>4, <2>5
<1>11. \A a \in 0..M : a \notin G => a \in gone \/ a \notin R
  <2> HIDE DEF up, down, after, R
  <2> QED
    BY <1>6
<1> HIDE DEF R, gone, up, nx, u, after
<1>12. /\ \A a \in G : a \in 0..M /\ r.next[a] = IF down THEN (IF a = cur THEN nx ELSE l.next[a])
                                                 ELSE IF a = cur THEN b ELSE IF a = b THEN nx ELSE l.next[a]
       /\ \A a \in G \cup A : r.units[a] = IF down THEN (IF a = cur THEN l.units[a] + u ELSE l.units[a])
                                           ELSE IF a = b THEN u ELSE l.units[a]
       /\ \A a \in 0..M : a \in gone => r.next[a] = -1
       /\ \A a \in 0..M : a \notin G => r.next[a] = -1
  <2>1. G \subseteq 0..M
    BY <1>7
  <2>2. \A a \in 0..M : a \notin R => l.next[a] = -1
    BY DEF R, OnRing
  <2>3. cur \in G /\ (~ down => b \in G)
    BY <1>6
  <2> HIDE DEF G, down
  <2>4. \A a \in G : a \in 0..M /\ r.next[a] = IF down THEN (IF a = cur THEN nx ELSE l.next[a])
                                                ELSE IF a = cur THEN b ELSE IF a = b THEN nx ELSE l.next[a]
    BY <1>4, <1>10, <2>1
  <2>5. \A a \in G \cup A : r.units[a] = IF down THEN (IF a = cur THEN l.units[a] + u ELSE l.units[a])
                                         ELSE IF a = b THEN u ELSE l.units[a]
    BY <1>2, <1>4, <1>10, <2>1
  <2>6. \A a \in 0..M : a \in gone => r.next[a] = -1
    BY <1>4
  <2>7. ASSUME NEW a \in 0..M, a \notin G PROVE r.next[a] = -1
    <3>1. CASE a \in gone
      BY <2>6, <3>1
    <3>2. CASE a \notin gone
      <4>1. a \notin R /\ a # cur /\ (~ down => a # b)
        BY <1>11, <2>3, <2>7, <3>2
      <4>2. r.next[a] = l.next[a]
        BY <1>4, <3>2, <4>1
      <4> QED
        BY <2>2, <4>1, <4>2
    <3> QED
      BY <3>1, <3>2
  <2> QED
    BY <2>4, <2>5, <2>6, <2>7
<1> DEFINE nn == r.next
           uu == r.units
<1>13. /\ \A a \in G : a \in 0..M /\ nn[a] = IF down THEN (IF a = cur THEN nx ELSE l.next[a])
                                             ELSE IF a = cur THEN b ELSE IF a = b THEN nx ELSE l.next[a]
       /\ \A a \in G \cup A : uu[a] = IF down THEN (IF a = cur THEN l.units[a] + u ELSE l.units[a])
                                      ELSE IF a = b THEN u ELSE l.units[a]
  BY <1>12
<1> HIDE DEF nn, uu, M
<1>14. ASSUME down PROVE Chain(nn, G, uu, A, V, M) /\ Whole(uu, G) /\ \A a \in A : uu[a] = l.units[a]
  <2>1. cur + h[cur] = b /\ h[cur] = l.units[cur] /\ G = F \ {b}
    BY <1>6, <1>14
  <2>2. Dropped(mx, F, cur, b, nn)
    <3>1. cur \in G /\ nn[cur] = nx
      BY <1>6, <1>13, <1>14
    <3>2. \A a \in F \ {b} : a # cur => nn[a] = mx[a]
      BY <1>6, <1>13, <1>14
    <3> QED
      BY <1>6, <3>1, <3>2 DEF Dropped
  <2>3. Added(h, F \cup A, cur, b, uu)
    <3>1. \A a \in (F \cup A) \ {b} : uu[a] = IF a = cur THEN h[cur] + h[b] ELSE h[a]
      <4> SUFFICES ASSUME NEW a \in (F \cup A) \ {b} PROVE uu[a] = IF a = cur THEN h[cur] + h[b] ELSE h[a]
        OBVIOUS
      <4>1. a \in G \cup A /\ h[a] = l.units[a] /\ a # b
        BY <1>6, <1>14
      <4> QED
        BY <1>6, <1>13, <1>14, <2>1, <4>1
    <3> QED
      BY <2>1, <3>1 DEF Added
  <2>4. Joining(mx, F, h, A, V, M, cur, b, nn, uu)
    BY <1>6, <2>2, <2>3 DEF Joining
  <2>5. /\ Chain(nn, F \ {b}, uu, A, V, M) /\ cur \in F \ {b} /\ cur + uu[cur] = b + h[b]
        /\ \A e \in (F \cup A) \ {b} : e # cur => uu[e] = h[e]
    <3>1. /\ Chain(nn, F \ {b}, uu, A, V, M) /\ cur \in F \ {b} /\ cur + uu[cur] = b + h[b]
          /\ \A a \in (F \cup A) \ {b} : a # cur => uu[a] = h[a]
      BY <2>4, JoinChain, ZenonT(60)
    <3> QED
      BY <3>1
  <2>6. ASSUME NEW e \in F \ {b}, NEW k \in F \ {b}, e + uu[e] = k PROVE FALSE
    <3>1. CASE e = cur
      <4>1. b + h[b] = k
        BY <2>5, <2>6, <3>1
      <4>2. k = b
        BY <1>6, <4>1
      <4> QED
        BY <2>6, <4>2
    <3>2. CASE e # cur
      <4>1. e + h[e] = k
        BY <2>5, <2>6, <3>2
      <4>2. k = b
        BY <1>6, <4>1
      <4> QED
        BY <2>6, <4>2
    <3> QED
      BY <3>1, <3>2
  <2>7. Whole(uu, G)
    BY <2>1, <2>6 DEF Whole
  <2>8. \A a \in A : uu[a] = l.units[a]
    <3>1. \A a \in A : a # cur
      BY <1>6, <1>7
    <3> QED
      BY <1>13, <1>14, <3>1
  <2> QED
    BY <2>1, <2>5, <2>7, <2>8
<1>15. ASSUME ~ down PROVE Chain(nn, G, uu, A, V, M) /\ Whole(uu, G) /\ \A a \in A : uu[a] = l.units[a]
  <2>1. G = F
    BY <1>15
  <2>2. \A a \in F : nn[a] = mx[a]
    BY <1>6, <1>13, <1>15
  <2>3. \A a \in F \cup A : uu[a] = h[a]
    BY <1>6, <1>13, <1>15
  <2>4. Chain(nn, F, uu, A, V, M)
    BY <1>6, <2>2, <2>3, SameChain
  <2>5. ASSUME NEW e \in F, NEW k \in F, e + uu[e] = k PROVE FALSE
    <3>1. e + h[e] = k
      BY <2>3, <2>5
    <3>2. k = b
      BY <1>6, <3>1
    <3>3. e # b
      <4>1. h[e] \in Nat \ {0} /\ e \in Nat
        BY <1>7 DEF Parts
      <4> QED
        BY <2>5, <3>1, <3>2, <4>1
    <3>4. e \in F \cup A /\ h[e] = l.units[e] /\ h[cur] = l.units[cur]
      BY <1>6, <3>3
    <3>5. e # cur
      BY <1>15, <3>1, <3>2, <3>4 DEF down
    <3>6. mx[e] = b
      <4>1. /\ \A x \in F : x \in Nat /\ (e < x => e + h[e] <= x)
            /\ e \in Nat /\ h[e] \in Nat \ {0}
        BY <1>7 DEF Parts
      <4>2. e < b /\ \A x \in F : ~ (e < x /\ x < b)
        BY <1>2, <3>1, <3>2, <4>1
      <4>3. Round(mx, F) /\ e \in F /\ b \in F
        BY <1>6, <1>7
      <4> QED
        BY <4>2, <4>3, NextUp
    <3>7. e = cur
      BY <1>6, <1>7, <3>6, OneBefore
    <3> QED
      BY <3>5, <3>7
  <2>6. Whole(uu, F)
    BY <2>5 DEF Whole
  <2>7. \A a \in A : uu[a] = l.units[a]
    BY <1>6, <1>7, <2>3
  <2> QED
    BY <2>1, <2>4, <2>6, <2>7
<1>16. /\ nn \in [0..M -> Int] /\ uu \in [0..M -> Nat]
  <2>1. nx \in Int /\ b \in Int /\ u \in Nat
    BY <1>2, <1>6, <1>7, <1>8, <1>9
  <2>2. \A a \in 0..M : l.units[a] \in Nat /\ l.next[a] \in Int
    BY <1>1
  <2>3. \A a \in 0..M : l.units[a] + u \in Nat
    BY <2>1, <2>2
  <2>4. nn \in [0..M -> Int]
    BY <1>4, <2>1, <2>2 DEF nn
  <2>5. uu \in [0..M -> Nat]
    BY <1>4, <2>1, <2>2, <2>3 DEF uu
  <2> QED
    BY <2>4, <2>5
<1>17. OnRing(r) = G /\ 0 \in G /\ cur \in G
  <2>1. OnRing(r) = {a \in 0..M : nn[a] # -1}
    BY DEF OnRing, M, nn
  <2>2. \A a \in 0..M : a \notin G => nn[a] = -1
    BY <1>12 DEF nn
  <2>3. 0 \in G /\ cur \in G
    BY <1>1, <1>6
  <2>4. \A a \in G : nn[a] \in Nat
    <3>1. Chain(nn, G, uu, A, V, M)
      BY <1>14, <1>15
    <3> QED
      BY <3>1 DEF Chain, Round
  <2>5. G \subseteq 0..M
    BY <1>7
  <2> HIDE DEF G
  <2>6. \A a \in 0..M : nn[a] # -1 <=> a \in G
    BY <2>2, <2>4
  <2> QED
    BY <2>1, <2>3, <2>5, <2>6
<1>18. Chain(nn, G, uu, A, V, M) /\ Whole(uu, G) /\ \A a \in A : uu[a] = l.units[a]
  BY <1>14, <1>15
<1> HIDE DEF G
<1>19. ListOk(r, A, V)
  BY <1>4, <1>16, <1>17, <1>18 DEF ListOk, M, nn, uu
<1> QED
  BY <1>18, <1>19 DEF r, uu

\* A block is cut: its front of n units goes, the rest stays a block.
Halved(len, K, c, n, g) ==
    /\ g[c] = n /\ g[c + n] = len[c] - n
    /\ \A h \in K \ {c} : g[h] = len[h]

\* The blocks still cut the same area.
LEMMA HalveParts ==
    ASSUME NEW L \in Nat \ {0}, NEW len, NEW K, NEW V, Parts(len, K, V, L), NEW c \in K,
           NEW n \in Nat \ {0}, n < len[c], NEW g, Halved(len, K, c, n, g)
    PROVE  Parts(g, K \cup {c + n}, V, L) /\ c + n \in Nat /\ c + n < L /\ c + n \notin K
<1> DEFINE e == c + n
           r == c..(c + n - 1)
           K1 == (K \ {c}) \cup {e}
           W == V \ r
<1>1. /\ c \in Nat /\ len[c] \in Nat /\ c + len[c] <= L /\ n \in 1..L /\ c + n <= L
      /\ \A x \in Nat : c <= x /\ x < c + len[c] => x \in V
  BY DEF Parts
<1>2. g[c] = n /\ g[e] = len[c] - n /\ \A h \in K \ {c} : g[h] = len[h]
  BY DEF Halved
<1>3. e \in 0..(L - 1) /\ e \notin K
  BY <1>1, SplitOne
<1>4. CutOff(len, K, c, n, g, K1)
  BY <1>2, <1>3 DEF CutOff
<1>5. Parts(g, K1, W, L) /\ r \subseteq V
  <2> HIDE DEF K1
  <2>1. n <= len[c]
    BY <1>1
  <2> QED
    BY <1>1, <1>4, <2>1, SplitPart
<1>6. More(g, K1, c, n, g)
  BY <1>2 DEF More
<1>7. r \cap W = {}
  OBVIOUS
<1>8. Parts(g, K1 \cup {c}, W \cup r, L)
  <2> HIDE DEF K1, W
  <2> QED
    BY <1>1, <1>5, <1>6, <1>7, AddPart
<1>9. K1 \cup {c} = K \cup {e} /\ W \cup r = V
  BY <1>5
<1>10. Parts(g, K \cup {e}, V, L)
  <2> HIDE DEF K1, W, r, e
  <2> QED
    BY <1>8, <1>9
<1> QED
  BY <1>1, <1>3, <1>10

\* slob_alloc takes a block, or its front, off the list.
LEMMA CarveIs ==
    ASSUME NEW l, NEW A, NEW V, ListOk(l, A, V), 1 \notin V, NEW c \in OnRing(l), NEW n \in Nat, n >= 2, l.units[c] >= n
    PROVE  /\ ListOk(Slob!Carve(l, c, n), A \cup {c}, V) /\ Slob!Carve(l, c, n).units[c] = n
           /\ c \notin A /\ c # 0
           /\ \A a \in A : Slob!Carve(l, c, n).units[a] = l.units[a]
<1> DEFINE F == OnRing(l)
           M == Slob!Top
           len == l.units
           nx == l.next
           p == Slob!Before(l, c)
           e == nx[c]
           x == c + n
           r == Slob!Carve(l, c, n)
           m1 == [[nx EXCEPT ![p] = e] EXCEPT ![c] = -1]
           B == A \cup {c}
           F1 == F \ {c}
<1>1. /\ len \in [0..M -> Nat] /\ nx \in [0..M -> Int] /\ M \in Nat /\ F \subseteq 0..M
      /\ Round(nx, F) /\ A \cap F = {} /\ Parts(len, F \cup A, V, M + 1)
      /\ 0 \in F /\ Whole(len, F) /\ c \in F /\ c \in 0..M /\ c \in Nat /\ len[c] >= n /\ len[c] \in Nat
  <2>1. /\ len \in [0..M -> Nat] /\ nx \in [0..M -> Int]
        /\ Chain(nx, F, len, A, V, M) /\ 0 \in F /\ Whole(len, F) /\ c \in F
    BY DEF ListOk
  <2>2. len[c] >= n
    BY DEF len
  <2> HIDE DEF F, M, len, nx
  <2>3. M \in Nat /\ F \subseteq 0..M /\ Round(nx, F) /\ A \cap F = {} /\ Parts(len, F \cup A, V, M + 1)
    BY <2>1 DEF Chain
  <2>4. c \in 0..M
    BY <2>1, <2>3
  <2>5. c \in Nat /\ len[c] \in Nat
    BY <2>1, <2>3, <2>4
  <2> QED
    BY <2>1, <2>2, <2>3, <2>4, <2>5
<1> HIDE DEF F
<1>2. c # 0 /\ c \notin A
  <2> SUFFICES ASSUME c = 0 PROVE FALSE
    BY <1>1
  <2>1. \A y \in Nat : c <= y /\ y < c + len[c] => y \in V
    BY <1>1 DEF Parts
  <2>2. 1 \in V
    BY <1>1, <2>1
  <2> QED
    BY <2>2
<1>3. p \in F /\ nx[p] = c
  <2>1. PICK q \in F : nx[q] = c
    BY <1>1, SomeBefore
  <2>2. q \in 0..M
    BY <1>1
  <2>3. p \in 0..M /\ nx[p] = c
    BY <2>1, <2>2 DEF Slob!Before, Slob!Addr
  <2> QED
    BY <1>1, <2>3 DEF F, OnRing
<1>4. r = IF len[c] = n THEN [next |-> m1, units |-> len, slobfree |-> p]
          ELSE [next |-> [[nx EXCEPT ![p] = x, ![x] = e] EXCEPT ![c] = -1],
                units |-> [len EXCEPT ![x] = len[c] - n, ![c] = n], slobfree |-> p]
  BY DEF Slob!Carve, Slob!NULL
<1> HIDE DEF p, r, M, nx, len
<1>5. /\ p \in Nat /\ p \in 0..M /\ e \in F /\ e \in Nat /\ e \in 0..M /\ e # c /\ p # c
      /\ \/ p < c /\ \A h \in F : ~ (p < h /\ h < c)
         \/ c <= p /\ \A h \in F : c <= h /\ h <= p
      /\ \/ c < e /\ \A h \in F : ~ (c < h /\ h < e)
         \/ e <= c /\ \A h \in F : e <= h /\ h <= c
  <2>1. /\ p \in Nat /\ p \in 0..M /\ e \in F /\ e \in Nat /\ e \in 0..M
        /\ \/ p < c /\ \A h \in F : ~ (p < h /\ h < c)
           \/ c <= p /\ \A h \in F : c <= h /\ h <= p
        /\ \/ c < e /\ \A h \in F : ~ (c < h /\ h < e)
           \/ e <= c /\ \A h \in F : e <= h /\ h <= c
    BY <1>1, <1>3 DEF Round
  <2>2. e # c
    <3> SUFFICES ASSUME e = c PROVE FALSE
      OBVIOUS
    <3>1. e <= 0
      BY <1>1, <2>1
    <3> QED
      BY <1>1, <1>2, <2>1, <3>1
  <2>3. p # c
    BY <1>3, <2>2
  <2> QED
    BY <2>1, <2>2, <2>3
<1> HIDE DEF e
<1>6. m1[p] = e /\ m1[c] = -1 /\ m1 \in [0..M -> Int] /\ \A a \in 0..M : a # p /\ a # c => m1[a] = nx[a]
  <2> DEFINE m0 == [nx EXCEPT ![p] = e]
  <2>1. m0 \in [0..M -> Int] /\ m0[p] = e /\ \A a \in 0..M : a # p => m0[a] = nx[a]
    BY <1>1, <1>5
  <2>2. m1 = [m0 EXCEPT ![c] = -1]
    OBVIOUS
  <2> HIDE DEF m0, m1
  <2>3. p # c /\ p \in 0..M /\ c \in 0..M /\ -1 \in Int
    BY <1>1, <1>5
  <2>4. m1 \in [0..M -> Int] /\ m1[c] = -1 /\ \A a \in 0..M : a # c => m1[a] = m0[a]
    BY <2>1, <2>2, <2>3
  <2> HIDE DEF p
  <2> QED
    BY <2>1, <2>3, <2>4
<1> HIDE DEF m1
<1>7. Round(m1, F1)
  <2>1. Dropped(nx, F, p, c, m1)
    BY <1>1, <1>3, <1>5, <1>6 DEF Dropped, e
  <2> QED
    BY <1>1, <2>1, DropRound
<1>8. CASE len[c] = n
  <2>1. r.next = m1 /\ r.units = len /\ r.slobfree = p
    BY <1>4, <1>8
  <2>2. OnRing(r) = F1
    <3>1. \A a \in 0..M : a \in F <=> nx[a] # -1
      BY DEF F, OnRing, M, nx
    <3>2. \A a \in 0..M : m1[a] # -1 <=> a \in F /\ a # c
      <4> SUFFICES ASSUME NEW a \in 0..M PROVE m1[a] # -1 <=> a \in F /\ a # c
        OBVIOUS
      <4>1. CASE a = p
        BY <1>3, <1>5, <1>6, <4>1
      <4>2. CASE a # p
        BY <1>6, <3>1, <4>2
      <4> QED
        BY <4>1, <4>2
    <3> QED
      BY <1>1, <2>1, <3>2 DEF OnRing, M
  <2>3. F1 \cup B = F \cup A /\ B \cap F1 = {} /\ F1 \subseteq 0..M /\ p \in F1 /\ 0 \in F1 /\ F1 \subseteq F
    BY <1>1, <1>2, <1>3, <1>5
  <2> HIDE DEF F1, B
  <2>4. Chain(m1, F1, len, B, V, M)
    BY <1>1, <1>7, <2>3 DEF Chain
  <2>5. Whole(len, F1)
    BY <1>1, <2>3 DEF Whole
  <2>6. ListOk(r, B, V)
    BY <1>1, <1>6, <2>1, <2>2, <2>3, <2>4, <2>5 DEF ListOk, M
  <2> QED
    BY <1>2, <1>8, <2>1, <2>6 DEF B, r, len
<1>9. CASE len[c] # n
  <2> DEFINE nn == [[nx EXCEPT ![p] = x, ![x] = e] EXCEPT ![c] = -1]
             uu == [len EXCEPT ![x] = len[c] - n, ![c] = n]
             G == F1 \cup {x}
             K == F \cup A
  <2>1. r.next = nn /\ r.units = uu /\ r.slobfree = p
    BY <1>4, <1>9
  <2>2. n < len[c] /\ n \in Nat \ {0} /\ x \in Nat /\ x # c
    BY <1>1, <1>9
  <2>3. x \in 0..M /\ x \notin K
    <3> DEFINE L == M + 1
    <3>1. L \in Nat \ {0} /\ Parts(len, K, V, L) /\ c \in K /\ n \in 1..L
      <4>1. Parts(len, K, V, L) /\ L \in Nat \ {0} /\ c \in K
        BY <1>1
      <4>2. c + len[c] <= L
        BY <4>1 DEF Parts
      <4> QED
        BY <1>1, <2>2, <4>1, <4>2
    <3>2. L - 1 = M
      BY <1>1
    <3> HIDE DEF L, K
    <3>3. c + n \in 0..(L - 1) /\ c + n \notin K
      BY <2>2, <3>1, SplitOne
    <3> QED
      BY <3>2, <3>3
  <2>4. x # p /\ x \notin F /\ x \notin A
    BY <1>3, <2>3
  <2>5. /\ nn \in [0..M -> Int] /\ nn[p] = x /\ nn[x] = e /\ nn[c] = -1
        /\ \A a \in 0..M : a # p /\ a # x /\ a # c => nn[a] = nx[a]
    <3> DEFINE m2 == [nx EXCEPT ![p] = x, ![x] = e]
    <3>1. /\ m2 \in [0..M -> Int] /\ m2[p] = x /\ m2[x] = e
          /\ \A a \in 0..M : a # p /\ a # x => m2[a] = nx[a]
      <4> DEFINE m3 == [nx EXCEPT ![p] = x]
      <4>1. m2 = [m3 EXCEPT ![x] = e]
        OBVIOUS
      <4> HIDE DEF m2
      <4>2. x \in Int
        BY <2>2
      <4> HIDE DEF x
      <4>3. m3 \in [0..M -> Int] /\ m3[p] = x /\ \A a \in 0..M : a # p => m3[a] = nx[a]
        BY <1>1, <1>5, <4>2
      <4> HIDE DEF m3
      <4>4. p # x /\ p \in 0..M /\ x \in 0..M /\ e \in Int
        BY <1>5, <2>3, <2>4
      <4>5. m2 \in [0..M -> Int] /\ m2[x] = e /\ \A a \in 0..M : a # x => m2[a] = m3[a]
        BY <4>1, <4>3, <4>4
      <4> QED
        BY <4>3, <4>4, <4>5
    <3>2. nn = [m2 EXCEPT ![c] = -1]
      OBVIOUS
    <3> HIDE DEF m2, nn, x
    <3>3. nn \in [0..M -> Int] /\ nn[c] = -1 /\ \A a \in 0..M : a # c => nn[a] = m2[a]
      BY <1>1, <3>1, <3>2
    <3> HIDE DEF m2
    <3> QED
      BY <1>1, <1>5, <2>2, <2>3, <3>1, <3>3
  <2>6. /\ uu \in [0..M -> Nat] /\ uu[x] = len[c] - n /\ uu[c] = n
        /\ \A a \in 0..M : a # x /\ a # c => uu[a] = len[a]
    <3>1. len[c] - n \in Nat
      BY <1>1, <2>2
    <3> HIDE DEF x
    <3> QED
      BY <1>1, <2>2, <2>3, <3>1
  <2> HIDE DEF nn, uu
  <2>7. Behind(m1, p, x)
    <3>1. c < e => x < e
      <4>1. c < e => c + len[c] <= e
        BY <1>1, <1>5 DEF Parts
      <4> QED
        BY <1>1, <1>5, <2>2, <4>1
    <3>5. p \in Int /\ c \in Int /\ e \in Int /\ c < x
      BY <1>1, <1>5, <2>2
    <3>2. CASE p < c /\ c < e
      <4>1. x > p /\ x < e
        <5> HIDE DEF x
        <5> QED
          BY <2>2, <3>1, <3>2, <3>5
      <4> HIDE DEF x
      <4> QED
        BY <1>6, <4>1 DEF Behind
    <3>3. CASE p < c /\ e <= c
      <4>1. e <= p /\ x > p
        BY <1>1, <1>3, <1>5, <2>2, <3>3
      <4> QED
        BY <1>6, <4>1 DEF Behind
    <3>4. CASE c <= p
      <4>1. c < e
        BY <1>1, <1>5, <3>4
      <4>2. e <= p
        BY <1>1, <1>5, <3>4
      <4> QED
        BY <1>6, <3>1, <4>1, <4>2 DEF Behind
    <3> QED
      BY <1>5, <3>2, <3>3, <3>4
  <2>8. Round(nn, G)
    <3>1. p \in F1 /\ x \notin F1 /\ \A a \in F1 : a \in 0..M /\ a # c /\ a # x
      BY <1>1, <1>3, <1>5, <2>4
    <3>2. \A a \in F1 : a # p => nn[a] = m1[a]
      BY <1>6, <2>5, <3>1
    <3>3. Entered(m1, F1, p, x, nn)
      BY <1>6, <2>2, <2>5, <2>7, <3>1, <3>2 DEF Entered
    <3> HIDE DEF F1, x
    <3> QED
      BY <1>7, <3>3, EnterRound
  <2>9. Parts(uu, K \cup {x}, V, M + 1)
    <3> DEFINE L == M + 1
    <3>1. L \in Nat \ {0} /\ Parts(len, K, V, L) /\ c \in K
      BY <1>1
    <3>2. K \subseteq 0..M
      <4>1. K \subseteq 0..(L - 1) /\ L - 1 = M
        BY <1>1, <3>1 DEF Parts
      <4> QED
        BY <4>1
    <3>3. Halved(len, K, c, n, uu)
      BY <2>3, <2>6, <3>2 DEF Halved
    <3> HIDE DEF L, K
    <3> QED
      BY <2>2, <3>1, <3>3, HalveParts DEF L
  <2>10. G \cup B = K \cup {x} /\ B \cap G = {} /\ G \subseteq 0..M /\ p \in G /\ 0 \in G
    BY <1>1, <1>2, <1>3, <1>5, <2>2, <2>3, <2>4
  <2>11. Whole(uu, G)
    <3> SUFFICES ASSUME NEW h \in G, NEW k \in G, h + uu[h] = k PROVE FALSE
      BY DEF Whole
    <3>1. /\ \A a \in F : a \in Nat /\ a \in 0..M /\ len[a] \in Nat \ {0}
          /\ \A a \in F : c < a => c + len[c] <= a
          /\ \A a \in F : a < c => a + len[a] <= c
          /\ \A a, d \in F : a + len[a] # d
      <4>1. \A a \in F : a \in 0..M /\ a \in Nat
        BY <1>1
      <4>2. \A a \in F \cup A : len[a] \in Nat \ {0}
        BY <1>1 DEF Parts
      <4>3. \A a, d \in F \cup A : a < d => a + len[a] <= d
        BY <1>1 DEF Parts
      <4>4. \A a, d \in F : a + len[a] # d
        BY <1>1 DEF Whole
      <4> QED
        BY <1>1, <4>1, <4>2, <4>3, <4>4
    <3>2. CASE h = x
      <4>1. c + len[c] = k
        BY <1>1, <2>2, <2>6, <3>2
      <4>2. k \in F \/ k = x
        OBVIOUS
      <4>3. k # x
        BY <1>1, <2>2, <4>1
      <4> QED
        BY <1>1, <3>1, <4>1, <4>2, <4>3
    <3>3. CASE h # x
      <4>1. h \in F /\ h # c /\ uu[h] = len[h]
        BY <2>6, <3>1, <3>3
      <4>2. CASE k = x
        <5> DEFINE lh == len[h]
                   lc == len[c]
        <5>1. /\ h \in Nat /\ lh \in Nat \ {0} /\ lc \in Nat /\ c \in Nat /\ h + lh = c + n
              /\ (c < h => c + lc <= h) /\ (h < c => h + lh <= c) /\ n < lc /\ n \in Nat /\ h # c
              /\ n # 0
          <6>1. h \in Nat /\ lh \in Nat \ {0} /\ (c < h => c + lc <= h) /\ (h < c => h + lh <= c)
            BY <3>1, <4>1
          <6>2. h + lh = c + n
            BY <4>1, <4>2
          <6>3. lc \in Nat /\ c \in Nat /\ n < lc /\ n \in Nat /\ n # 0
            BY <1>1, <2>2
          <6> QED
            BY <4>1, <6>1, <6>2, <6>3
        <5> HIDE DEF lh, lc
        <5>2. c < h \/ h < c
          BY <5>1
        <5> QED
          BY <5>1, <5>2
      <4>3. CASE k # x
        BY <3>1, <4>1, <4>3
      <4> QED
        BY <4>2, <4>3
    <3> QED
      BY <3>2, <3>3
  <2>12. OnRing(r) = G
    <3>1. \A a \in 0..M : a \in F <=> nx[a] # -1
      BY DEF F, OnRing, M, nx
    <3>2. \A a \in 0..M : nn[a] # -1 <=> a \in G
      <4> SUFFICES ASSUME NEW a \in 0..M PROVE nn[a] # -1 <=> a \in G
        OBVIOUS
      <4>1. CASE a = p
        BY <1>3, <1>5, <2>2, <2>5, <4>1
      <4>2. CASE a = x
        BY <1>5, <2>5, <4>2
      <4>3. CASE a = c
        BY <2>2, <2>5, <4>3
      <4>4. CASE a # p /\ a # x /\ a # c
        BY <2>5, <3>1, <4>4
      <4> QED
        BY <4>1, <4>2, <4>3, <4>4
    <3> HIDE DEF G
    <3> QED
      BY <2>1, <2>10, <3>2 DEF OnRing, M
  <2> HIDE DEF G, B, K
  <2>13. Chain(nn, G, uu, B, V, M)
    BY <1>1, <2>8, <2>9, <2>10 DEF Chain
  <2>14. ListOk(r, B, V)
    <3>1. r.units \in [0..M -> Nat] /\ r.next \in [0..M -> Int] /\ r.slobfree \in G
      BY <2>1, <2>5, <2>6, <2>10
    <3>2. Chain(r.next, OnRing(r), r.units, B, V, M) /\ 0 \in OnRing(r) /\ Whole(r.units, OnRing(r))
      BY <2>1, <2>10, <2>11, <2>12, <2>13
    <3> QED
      BY <2>12, <3>1, <3>2 DEF ListOk, M
  <2>15. \A a \in A : uu[a] = len[a]
    <3>1. \A a \in A : a \in 0..M /\ a # x /\ a # c
      <4>1. F \cup A \subseteq 0..((M + 1) - 1) /\ (M + 1) - 1 = M
        BY <1>1, SMTT(30) DEF Parts
      <4> QED
        BY <1>2, <2>4, <4>1
    <3> QED
      BY <2>6, <3>1
  <2> QED
    BY <1>2, <2>1, <2>6, <2>14, <2>15 DEF B, r, len
<1> QED
  BY <1>8, <1>9

-----------------------------------------------------------------------------
\* The units of a page, and those of the arena and of some pages
PageAt(p) == p..(p + PAGE_UNITS - 1)
UnitsOf(P) == {0} \cup UNION {PageAt(p) : p \in P}

\* i pages of k units and one more fit below j pages.
LEMMA Multiples ==
    ASSUME NEW i \in Nat, NEW j \in Nat, NEW k \in Nat, i < j
    PROVE  i * k \in Nat /\ j * k \in Nat /\ i * k + k <= j * k
<1> DEFINE d == j - (i + 1)
<1>1. d \in Nat /\ j = (i + 1) + d
  OBVIOUS
<1> HIDE DEF d
<1>2. d * k \in Nat /\ i * k \in Nat /\ j * k = i * k + k + d * k
  BY <1>1
<1> QED
  BY <1>2

\* Pages lie apart, above unit 1, and below the top.
LEMMA PageFacts ==
    /\ Slob!Top \in Nat /\ PAGE_UNITS \in Nat /\ BIGBLOCK_UNITS \in 2..(PAGE_UNITS - 1) /\ PAGE_UNITS > 2
    /\ \A p \in Slob!Pages : p \in Nat /\ p >= 2 /\ p + PAGE_UNITS <= Slob!Top + 1
    /\ \A p, q \in Slob!Pages : p < q => p + PAGE_UNITS <= q
<1> DEFINE k == PAGE_UNITS
<1>1. k \in Nat \ {0} /\ NPAGES \in Nat \ {0} /\ BIGBLOCK_UNITS \in 2..(k - 1)
  BY MemoryAssumption
<1>2. k > 2
  BY <1>1
<1>3. Slob!Top = 1 + NPAGES * k
  BY DEF Slob!Top
<1>4. Slob!Top \in Nat
  <2>1. NPAGES * k \in Nat
    BY <1>1
  <2> HIDE DEF k
  <2> QED
    BY <1>3, <2>1
<1>5. ASSUME NEW p \in Slob!Pages
      PROVE  \E i \in 0..(NPAGES - 1) : p = 2 + i * k
  BY DEF Slob!Pages
<1> HIDE DEF k
<1>6. ASSUME NEW p \in Slob!Pages PROVE p \in Nat /\ p >= 2 /\ p + k <= Slob!Top + 1
  <2>1. PICK i \in 0..(NPAGES - 1) : p = 2 + i * k
    BY <1>5
  <2>2. i \in Nat /\ i < NPAGES
    BY <1>1
  <2> DEFINE u == i * k
             v == NPAGES * k
  <2>3. u \in Nat /\ v \in Nat /\ u + k <= v
    BY <1>1, <2>2, Multiples
  <2>4. p = 2 + u /\ Slob!Top = 1 + v
    BY <1>3, <2>1
  <2> HIDE DEF u, v
  <2> QED
    BY <1>1, <2>3, <2>4
<1>7. ASSUME NEW p \in Slob!Pages, NEW q \in Slob!Pages, p < q PROVE p + k <= q
  <2>1. PICK i \in 0..(NPAGES - 1) : p = 2 + i * k
    BY <1>5
  <2>2. PICK j \in 0..(NPAGES - 1) : q = 2 + j * k
    BY <1>5
  <2>3. i \in Nat /\ j \in Nat
    BY <1>1
  <2> DEFINE u == i * k
             v == j * k
  <2>4. p = 2 + u /\ q = 2 + v
    BY <2>1, <2>2
  <2>5. CASE i < j
    <3>1. u \in Nat /\ v \in Nat /\ u + k <= v
      BY <1>1, <2>3, <2>5, Multiples
    <3> HIDE DEF u, v
    <3> QED
      BY <1>1, <2>4, <3>1
  <2>6. CASE j < i
    <3>1. u \in Nat /\ v \in Nat /\ v + k <= u
      BY <1>1, <2>3, <2>6, Multiples
    <3> HIDE DEF u, v
    <3> QED
      BY <1>1, <1>7, <2>4, <3>1
  <2>7. CASE i = j
    <3>1. p = q /\ p \in Nat
      BY <1>6, <2>1, <2>2, <2>7
    <3> QED
      BY <1>7, <3>1
  <2> QED
    BY <2>3, <2>5, <2>6, <2>7
<1> QED
  BY <1>1, <1>2, <1>4, <1>6, <1>7 DEF k

\* A page that is not taken shares no unit with the arena and those that are.
LEMMA PagesApart ==
    ASSUME NEW P, P \subseteq Slob!Pages
    PROVE  /\ 0 \in UnitsOf(P) /\ 1 \notin UnitsOf(P)
           /\ \A p \in P : PageAt(p) \subseteq UnitsOf(P)
           /\ \A p \in Slob!Pages \ P : PageAt(p) \cap UnitsOf(P) = {}
           /\ \A p : UnitsOf(P \cup {p}) = UnitsOf(P) \cup PageAt(p)
<1>1. \A p \in Slob!Pages : \A x \in PageAt(p) : x \in Nat /\ p <= x /\ x < p + PAGE_UNITS /\ x >= 2
  <2> SUFFICES ASSUME NEW p \in Slob!Pages, NEW x \in PageAt(p)
               PROVE  x \in Nat /\ p <= x /\ x < p + PAGE_UNITS /\ x >= 2
    OBVIOUS
  <2>1. p \in Nat /\ p >= 2 /\ PAGE_UNITS \in Nat
    BY PageFacts
  <2> QED
    BY <2>1 DEF PageAt
<1>2. ASSUME NEW p \in Slob!Pages \ P, NEW q \in P, NEW x \in PageAt(p), x \in PageAt(q) PROVE FALSE
  <2>1. p \in Slob!Pages /\ q \in Slob!Pages /\ p # q
    BY <1>2
  <2>2. p \in Nat /\ q \in Nat /\ PAGE_UNITS \in Nat /\ (p < q => p + PAGE_UNITS <= q) /\ (q < p => q + PAGE_UNITS <= p)
    BY <2>1, PageFacts
  <2>3. x \in Nat /\ p <= x /\ x < p + PAGE_UNITS /\ q <= x /\ x < q + PAGE_UNITS
    BY <1>1, <1>2, <2>1
  <2> QED
    BY <2>1, <2>2, <2>3
<1>3. 1 \notin UnitsOf(P)
  BY <1>1 DEF UnitsOf
<1>4. ASSUME NEW p \in Slob!Pages \ P, NEW x \in PageAt(p), x \in UnitsOf(P) PROVE FALSE
  <2>1. x # 0
    BY <1>1
  <2>2. PICK q \in P : x \in PageAt(q)
    BY <1>4, <2>1 DEF UnitsOf
  <2> QED
    BY <1>2, <2>2
<1>5. 0 \in UnitsOf(P) /\ \A p \in P : PageAt(p) \subseteq UnitsOf(P)
  BY DEF UnitsOf
<1>6. \A p : UnitsOf(P \cup {p}) = UnitsOf(P) \cup PageAt(p)
  BY DEF UnitsOf
<1> QED
  BY <1>3, <1>4, <1>5, <1>6

\* Units next to each other that are in no block of A
Unheld(len, F, A, V, L, b, n) ==
    /\ Parts(len, F \cup A, V, L) /\ Whole(len, F)
    /\ b..(b + n - 1) \subseteq V /\ \A a \in A : a..(a + len[a] - 1) \cap b..(b + n - 1) = {}

\* Units next to each other that no one has are in one free block.
LEMMA RoomIn ==
    ASSUME NEW L \in Nat \ {0}, NEW len, NEW F, NEW A, NEW V, NEW b \in Nat, NEW n \in Nat \ {0},
           Unheld(len, F, A, V, L, b, n)
    PROVE  \E h \in F : h <= b /\ b + n <= h + len[h]
<1> DEFINE K == F \cup A
<1>0. /\ Parts(len, K, V, L) /\ Whole(len, F) /\ b..(b + n - 1) \subseteq V
      /\ \A a \in A : a..(a + len[a] - 1) \cap b..(b + n - 1) = {}
  BY DEF Unheld
<1>1. /\ \A h \in K : h \in Nat /\ len[h] \in Nat \ {0} /\ h + len[h] <= L
      /\ \A h, k \in K : h < k => h + len[h] <= k
      /\ \A x \in V : \E h \in K : h <= x /\ x < h + len[h]
  BY <1>0 DEF Parts
<1>2. ASSUME NEW x \in Nat, b <= x, x < b + n, NEW h \in K, h <= x, x < h + len[h] PROVE h \in F
  <2>1. x \in b..(b + n - 1) /\ x \in h..(h + len[h] - 1)
    BY <1>1, <1>2
  <2> QED
    BY <1>0, <2>1
<1>3. ASSUME NEW x \in Nat, b <= x, x < b + n PROVE x \in V
  <2>1. x \in b..(b + n - 1)
    BY <1>3
  <2> QED
    BY <1>0, <2>1
<1>4. PICK h \in K : h <= b /\ b < h + len[h]
  BY <1>1, <1>3
<1>5. h \in F
  BY <1>2, <1>4
<1>6. ASSUME h + len[h] < b + n PROVE FALSE
  <2> DEFINE x == h + len[h]
  <2>1. x \in Nat /\ b <= x /\ x < b + n
    BY <1>1, <1>4, <1>6
  <2>2. PICK k \in K : k <= x /\ x < k + len[k]
    BY <1>1, <1>3, <2>1
  <2>3. k \in F
    BY <1>2, <2>1, <2>2
  <2>4. h < k
    BY <1>1, <1>4, <2>1, <2>2
  <2>5. h + len[h] = k
    BY <1>1, <2>2, <2>4
  <2> QED
    BY <1>0, <1>5, <2>3, <2>5 DEF Whole
<1>7. b + n <= h + len[h]
  BY <1>1, <1>6
<1> QED
  BY <1>4, <1>5, <1>7

\* Blocks lie within what is cut, each away from the others.
LEMMA BlocksOf ==
    ASSUME NEW l, NEW A, NEW V, ListOk(l, A, V)
    PROVE  /\ \A a \in A : /\ a \in Nat /\ a # 0 /\ a \in 0..Slob!Top /\ a \notin OnRing(l)
                           /\ l.units[a] \in Nat \ {0}
                           /\ a..(a + l.units[a] - 1) \subseteq V
           /\ \A a \in A, b \in OnRing(l) \cup A :
                 a # b => a..(a + l.units[a] - 1) \cap b..(b + l.units[b] - 1) = {}
<1> DEFINE F == OnRing(l)
           K == F \cup A
           M == Slob!Top
           len == l.units
<1>1. M \in Nat /\ A \cap F = {} /\ 0 \in F /\ Parts(len, K, V, M + 1)
  BY DEF ListOk, Chain
<1> HIDE DEF F, M, len
<1>2. /\ K \subseteq 0..((M + 1) - 1) /\ V \subseteq 0..((M + 1) - 1)
      /\ \A h \in K : /\ len[h] \in Nat \ {0} /\ \A x \in Nat : h <= x /\ x < h + len[h] => x \in V
      /\ \A h, k \in K : h < k => h + len[h] <= k
  BY <1>1 DEF Parts
<1>3. (M + 1) - 1 = M
  BY <1>1
<1>4. \A h \in K : h \in 0..M /\ h \in Nat
  BY <1>1, <1>2, <1>3
<1>5. ASSUME NEW a \in A
      PROVE  /\ a \in Nat /\ a # 0 /\ a \in 0..M /\ a \notin F
             /\ len[a] \in Nat \ {0} /\ a..(a + len[a] - 1) \subseteq V
  <2>1. a \in Nat /\ len[a] \in Nat \ {0} /\ a \in 0..M
    BY <1>2, <1>4
  <2>2. ASSUME NEW x \in a..(a + len[a] - 1) PROVE x \in V
    <3>1. x \in Nat /\ a <= x /\ x < a + len[a]
      BY <2>1
    <3> QED
      BY <1>2, <3>1
  <2> QED
    BY <1>1, <2>1, <2>2
<1>6. ASSUME NEW a \in K, NEW b \in K, a # b, NEW x \in a..(a + len[a] - 1), x \in b..(b + len[b] - 1)
      PROVE  FALSE
  <2>1. a \in Nat /\ b \in Nat /\ len[a] \in Nat /\ len[b] \in Nat
    BY <1>2, <1>4
  <2>2. (a < b => a + len[a] <= b) /\ (b < a => b + len[b] <= a)
    BY <1>2
  <2> QED
    BY <1>6, <2>1, <2>2
<1>7. \A a \in A, b \in K : a # b => a..(a + len[a] - 1) \cap b..(b + len[b] - 1) = {}
  BY <1>6
<1> QED
  BY <1>5, <1>7 DEF F, M, len

\* r is how slob_alloc serves n units from list l, which has room for them.
Serving(l, A, V, n, grown, r) ==
    /\ ListOk(l, A, V) /\ 1 \notin V /\ n \in Nat /\ n >= 2
    /\ \E h \in OnRing(l) : l.units[h] >= n
    /\ r = Slob!Served(l, n, grown)

\* and what the list and the block are then
Given(l, A, V, n, grown, r) ==
    /\ r.grown = grown /\ ListOk(r.list, A \cup {r.block}, V) /\ r.list.units[r.block] = n
    /\ r.block \notin A /\ r.block # 0 /\ \A a \in A : r.list.units[a] = l.units[a]

\* slob_alloc takes the first block with room for n units.
LEMMA ServedIs ==
    ASSUME NEW l, NEW A, NEW V, NEW n \in Nat, NEW grown, NEW r, Serving(l, A, V, n, grown, r)
    PROVE  Given(l, A, V, n, grown, r)
<1> DEFINE F == OnRing(l)
           ring == Slob!Search(l)
           T == Slob!RoomFor(l, n)
           c == Slob!First(ring, T)
<1>0. ListOk(l, A, V) /\ 1 \notin V /\ n \in Nat /\ n >= 2 /\ r = Slob!Served(l, n, grown)
  BY DEF Serving
<1>h. PICK h \in OnRing(l) : l.units[h] >= n
  BY DEF Serving
<1>1. Round(l.next, F) /\ l.slobfree \in F /\ Slob!Top \in Nat /\ F \subseteq 0..Slob!Top
  BY <1>0 DEF ListOk, Chain
<1>2. T = {a \in 0..Slob!Top : l.next[a] # -1 /\ l.units[a] >= n}
  BY DEF Slob!RoomFor, Slob!Addr, Slob!NULL
<1>3. \A a : a \in T <=> a \in F /\ l.units[a] >= n
  BY <1>2 DEF OnRing
<1>4. ring = Slob!Ring(l, l.next[l.slobfree])
  BY DEF Slob!Search
<1> HIDE DEF F, ring, T
<1>5. l.next[l.slobfree] \in F
  BY <1>1 DEF Round
<1>6. ring \in Seq(F) /\ Elems(ring) = F
  BY <1>1, <1>4, <1>5, RingIs
<1>7. h \in Elems(ring) /\ h \in T
  BY <1>3, <1>6, <1>h DEF F
<1>8. c \in T
  BY <1>6, <1>7, FirstIs
<1>9. r = [list |-> Slob!Carve(l, c, n), block |-> c, grown |-> grown]
  BY <1>0 DEF Slob!Served, ring, T
<1> HIDE DEF c
<1>10. c \in OnRing(l) /\ l.units[c] >= n
  BY <1>3, <1>8 DEF F
<1>11. /\ ListOk(Slob!Carve(l, c, n), A \cup {c}, V) /\ Slob!Carve(l, c, n).units[c] = n
       /\ c \notin A /\ c # 0
       /\ \A a \in A : Slob!Carve(l, c, n).units[a] = l.units[a]
  BY <1>0, <1>10, CarveIs
<1>12. r.list = Slob!Carve(l, c, n) /\ r.block = c /\ r.grown = grown
  BY <1>9
<1> QED
  BY <1>11, <1>12 DEF Given

\* A page is added to the list, which then has room for n units.
LEMMA PageAdded ==
    ASSUME NEW l, NEW A, NEW P, P \subseteq Slob!Pages, ListOk(l, A, UnitsOf(P)), NEW p \in Slob!Pages \ P
    PROVE  LET m == Slob!SlobFree(l, p, PAGE_UNITS)
           IN  /\ ListOk(m, A, UnitsOf(P \cup {p})) /\ \A a \in A : m.units[a] = l.units[a]
               /\ \E h \in OnRing(m) : m.units[h] >= PAGE_UNITS
<1> DEFINE F == OnRing(l)
           M == Slob!Top
           k == PAGE_UNITS
           V == UnitsOf(P)
           W == UnitsOf(P \cup {p})
           g == [a \in 0..M |-> IF a = p THEN k ELSE l.units[a]]
           m == Slob!SlobFree(l, p, k)
<1>1. /\ M \in Nat /\ k \in Nat \ {0} /\ p \in Nat /\ p + k <= M + 1 /\ p \in 0..M
      /\ p..(p + k - 1) \cap V = {} /\ W = V \cup p..(p + k - 1)
  <2>1. M \in Nat /\ k \in Nat \ {0} /\ p \in Nat /\ p + k <= M + 1
    BY PageFacts
  <2>2. PageAt(p) \cap V = {} /\ W = V \cup PageAt(p)
    BY PagesApart
  <2>3. p \in 0..M
    BY <2>1
  <2> QED
    BY <2>1, <2>2, <2>3 DEF PageAt
<1>2. /\ l.units \in [0..M -> Nat] /\ l.next \in [0..M -> Int] /\ 0 \in F /\ l.slobfree \in F
      /\ Whole(l.units, F) /\ Chain(l.next, F, l.units, A, V, M)
  BY DEF ListOk
<1> HIDE DEF F, M, k, V, W
<1>3. Round(l.next, F) /\ A \cap F = {} /\ Parts(l.units, F \cup A, V, M + 1) /\ F \subseteq 0..M
  BY <1>2 DEF Chain
<1>4. A \subseteq 0..M
  <2>1. F \cup A \subseteq 0..((M + 1) - 1) /\ (M + 1) - 1 = M
    BY <1>1, <1>3 DEF Parts
  <2> QED
    BY <2>1
<1>5. More(l.units, F \cup A, p, k, g)
  BY <1>1, <1>3, <1>4 DEF More
<1> HIDE DEF g
<1>6. Parts(g, (F \cup A) \cup {p}, W, M + 1) /\ p \notin F \cup A
  <2> DEFINE L == M + 1
             K == F \cup A
  <2>1. L \in Nat \ {0} /\ Parts(l.units, K, V, L) /\ p + k <= L /\ More(l.units, K, p, k, g)
    BY <1>1, <1>3, <1>5
  <2> HIDE DEF L, K
  <2>2. Parts(g, K \cup {p}, V \cup p..(p + k - 1), L) /\ p \notin K
    BY <1>1, <2>1, AddPart
  <2> QED
    BY <1>1, <2>2 DEF L, K
<1>7. Freeing(l, A, W, p, k, g)
  BY <1>1, <1>2, <1>3, <1>5, <1>6 DEF Freeing, F, M
<1>8. ListOk(m, A, W) /\ \A a \in A : m.units[a] = l.units[a]
  BY <1>7, SlobFreeIs
<1> HIDE DEF m
<1>9. \E h \in OnRing(m) : m.units[h] >= k
  <2> DEFINE L == M + 1
             H == OnRing(m)
             len == m.units
  <2>1. Parts(len, H \cup A, W, L) /\ Whole(len, H) /\ L \in Nat \ {0}
    BY <1>1, <1>8 DEF ListOk, Chain, M
  <2>2. p..(p + k - 1) \subseteq W
    BY <1>1
  <2>3. ASSUME NEW a \in A PROVE a..(a + len[a] - 1) \cap p..(p + k - 1) = {}
    <3>1. a..(a + l.units[a] - 1) \subseteq V
      BY BlocksOf DEF V
    <3>2. a..(a + len[a] - 1) \subseteq V
      BY <1>8, <3>1
    <3> QED
      BY <1>1, <3>2
  <2> HIDE DEF L, H, len
  <2>8. Unheld(len, H, A, W, L, p, k)
    BY <2>1, <2>2, <2>3 DEF Unheld
  <2>4. PICK h \in H : h <= p /\ p + k <= h + len[h]
    BY <1>1, <2>1, <2>8, RoomIn
  <2>5. H \cup A \subseteq 0..(L - 1) /\ \A a \in H \cup A : len[a] \in Nat
    BY <2>1 DEF Parts
  <2>6. h \in Nat /\ len[h] \in Nat
    BY <2>1, <2>4, <2>5
  <2>7. len[h] >= k
    BY <1>1, <2>4, <2>6
  <2> QED
    BY <2>4, <2>7 DEF H, len
<1> QED
  BY <1>8, <1>9 DEF m, k, W

\* n units are wanted from list l over the pages P, or from one of the pages fp;
Asking(l, A, P, fp, n) ==
    /\ P \subseteq Slob!Pages /\ ListOk(l, A, UnitsOf(P)) /\ fp \subseteq Slob!Pages \ P
    /\ n \in Nat /\ n >= 2 /\ n <= PAGE_UNITS

\* r gives them.
Allotted(l, A, P, fp, n, r) ==
    /\ r.grown \subseteq fp /\ ListOk(r.list, A \cup {r.block}, UnitsOf(P \cup r.grown))
    /\ r.list.units[r.block] = n /\ r.block \notin A /\ r.block # 0
    /\ \A a \in A : r.list.units[a] = l.units[a]

\* slob_alloc gives a block of n units that no one had, with at most a page more
\* in the list, and leaves the blocks of others alone.
LEMMA SlobAllocIs ==
    ASSUME NEW l, NEW A, NEW P, NEW fp, NEW n \in Nat, Asking(l, A, P, fp, n),
           NEW r \in Slob!SlobAlloc(l, n, fp)
    PROVE  Allotted(l, A, P, fp, n, r)
<1>0. /\ P \subseteq Slob!Pages /\ ListOk(l, A, UnitsOf(P)) /\ fp \subseteq Slob!Pages \ P
      /\ n >= 2 /\ n <= PAGE_UNITS
  BY DEF Asking
<1>1. CASE Slob!RoomFor(l, n) # {}
  <2>1. PICK h : h \in Slob!RoomFor(l, n)
    BY <1>1
  <2>2. h \in OnRing(l) /\ l.units[h] >= n
    BY <1>0, <2>1 DEF Slob!RoomFor, Slob!Addr, Slob!NULL, OnRing
  <2>3. r = Slob!Served(l, n, {})
    BY <1>1 DEF Slob!SlobAlloc
  <2> DEFINE V == UnitsOf(P)
  <2>4. 1 \notin V
    BY <1>0, PagesApart
  <2>5. P \cup {} = P
    OBVIOUS
  <2> DEFINE none == {}
  <2>7. Serving(l, A, V, n, none, r)
    BY <1>0, <2>2, <2>3, <2>4 DEF Serving
  <2> HIDE DEF V, none
  <2>6. Given(l, A, V, n, none, r)
    BY <2>7, ServedIs
  <2> QED
    BY <2>5, <2>6 DEF V, none, Given, Allotted
<1>2. CASE Slob!RoomFor(l, n) = {}
  <2>1. PICK p \in fp : r = Slob!Served(Slob!SlobFree(l, p, PAGE_UNITS), n, {p})
    BY <1>2 DEF Slob!SlobAlloc
  <2> DEFINE m == Slob!SlobFree(l, p, PAGE_UNITS)
             W == UnitsOf(P \cup {p})
  <2>2. p \in Slob!Pages \ P /\ P \cup {p} \subseteq Slob!Pages
    BY <1>0
  <2>3. /\ ListOk(m, A, W) /\ \A a \in A : m.units[a] = l.units[a]
        /\ \E h \in OnRing(m) : m.units[h] >= PAGE_UNITS
    BY <1>0, <2>2, PageAdded
  <2>4. 1 \notin W
    BY <2>2, PagesApart
  <2>5. r = Slob!Served(m, n, {p})
    BY <2>1
  <2> HIDE DEF m, W
  <2>6. PICK h \in OnRing(m) : m.units[h] >= PAGE_UNITS
    BY <2>3
  <2>7. m.units[h] >= n
    <3>1. m.units[h] \in Nat /\ PAGE_UNITS \in Nat
      BY <2>3, <2>6, PageFacts DEF ListOk, OnRing
    <3> QED
      BY <1>0, <2>6, <3>1
  <2> DEFINE one == {p}
  <2>9. Serving(m, A, W, n, one, r)
    BY <1>0, <2>3, <2>4, <2>5, <2>7 DEF Serving
  <2> HIDE DEF one
  <2>8. Given(m, A, W, n, one, r)
    BY <2>9, ServedIs
  <2> QED
    BY <2>3, <2>8 DEF W, one, Given, Allotted
<1> QED
  BY <1>1, <1>2

\* Block b of n units, which is handed out, is about to be freed;
Returning(l, A, V, b, n) == ListOk(l, A, V) /\ b \in A /\ l.units[b] = n

\* it is free.
Returned(l, m, A, V, b) == ListOk(m, A \ {b}, V) /\ \A a \in A \ {b} : m.units[a] = l.units[a]

\* slob_free takes a block back.
LEMMA ReturnIs ==
    ASSUME NEW l, NEW A, NEW V, NEW b, NEW n, Returning(l, A, V, b, n)
    PROVE  Returned(l, Slob!SlobFree(l, b, n), A, V, b)
<1> DEFINE F == OnRing(l)
           M == Slob!Top
           len == l.units
           B == A \ {b}
<1>1. /\ ListOk(l, A, V) /\ b \in A /\ len[b] = n
  BY DEF Returning
<1>2. /\ len \in [0..M -> Nat] /\ l.next \in [0..M -> Int] /\ 0 \in F /\ l.slobfree \in F
      /\ Whole(len, F) /\ Chain(l.next, F, len, A, V, M)
  BY <1>1 DEF ListOk
<1>3. b \notin F /\ n \in Nat \ {0}
  BY <1>1, BlocksOf
<1> HIDE DEF F, M, len
<1>4. M \in Nat /\ Round(l.next, F) /\ A \cap F = {} /\ Parts(len, F \cup A, V, M + 1)
  BY <1>2 DEF Chain
<1>5. (F \cup B) \cup {b} = F \cup A /\ B \cap F = {} /\ b \notin F \cup B
  BY <1>1, <1>3, <1>4
<1>6. More(len, F \cup B, b, n, len)
  BY <1>1 DEF More
<1>7. Freeing(l, B, V, b, n, len)
  <2> HIDE DEF B
  <2> QED
    BY <1>2, <1>3, <1>4, <1>5, <1>6 DEF Freeing, F, M, len
<1> HIDE DEF B
<1>8. /\ ListOk(Slob!SlobFree(l, b, n), B, V)
      /\ \A a \in B : Slob!SlobFree(l, b, n).units[a] = l.units[a]
  BY <1>7, SlobFreeIs
<1> QED
  BY <1>8 DEF Returned, B

\* What holds of kmalloc: its list is as it should be beside the blocks that are
\* handed out, and every bigblock_t is such a block and has a page of its own.
SlobInv ==
    /\ pages \subseteq Slob!Pages
    /\ ListOk(Slob!List, allocated, UnitsOf(pages))
    /\ \A b \in bigblocks : /\ b[1] \in Slob!Pages /\ b[1] \notin pages
                            /\ b[2] \in allocated /\ units[b[2]] = BIGBLOCK_UNITS
    /\ \A b, d \in bigblocks : b[1] = d[1] \/ b[2] = d[2] => b = d

\* The list is the variables.
LEMMA ListFields == Slob!List.next = next /\ Slob!List.units = units /\ Slob!List.slobfree = slobfree
BY DEF Slob!List

\* At first only the arena is free.
LEMMA SlobInit ==
    ASSUME Slob!Init
    PROVE  SlobInv
<1> DEFINE M == Slob!Top
           l == Slob!List
           V == UnitsOf({})
<1>1. M \in Nat
  BY PageFacts
<1>2. /\ next = [a \in 0..M |-> IF a = 0 THEN 0 ELSE -1] /\ units = [a \in 0..M |-> IF a = 0 THEN 1 ELSE 0]
      /\ slobfree = 0 /\ pages = {} /\ allocated = {} /\ bigblocks = {}
  BY DEF Slob!Init, Slob!Addr, Slob!arena, Slob!NULL
<1> HIDE DEF M
<1>3. /\ l.next = next /\ l.units = units /\ l.slobfree = 0 /\ next \in [0..M -> Int] /\ units \in [0..M -> Nat]
      /\ next[0] = 0 /\ units[0] = 1 /\ \A a \in 0..M : a # 0 => next[a] = -1
  BY <1>1, <1>2, ListFields
<1> HIDE DEF l
<1>4. OnRing(l) = {0}
  BY <1>1, <1>3 DEF OnRing, M
<1>5. Round(next, {0}) /\ Whole(units, {0})
  BY <1>3 DEF Round, Whole
<1>6. V = {0}
  BY DEF UnitsOf
<1>7. Parts(units, {0} \cup {}, V, M + 1)
  <2>1. {0} \cup {} = {0} /\ {0} \subseteq 0..((M + 1) - 1) /\ 0 + 1 <= M + 1
    BY <1>1
  <2> HIDE DEF V
  <2>2. Parts(units, {0}, V, M + 1)
    BY <1>3, <1>6, <2>1 DEF Parts
  <2> QED
    BY <2>1, <2>2
<1> HIDE DEF V
<1>8. Chain(next, {0}, units, {}, V, M)
  BY <1>1, <1>5, <1>7 DEF Chain
<1>9. ListOk(l, {}, V)
  BY <1>3, <1>4, <1>5, <1>8 DEF ListOk, M
<1> QED
  BY <1>2, <1>9 DEF SlobInv, l, V

\* The memory kmalloc manages, and what of it is handed out
SlobArea == UNION {PageAt(p) : p \in Slob!Pages}
SlobHeld == (UNION {Slob!Block(b) : b \in Slob!Small}) \cup UNION {PageAt(p) : p \in Slob!BigPages}

\* What is handed out is in a small block or in a page of its own.
LEMMA InHeld ==
    ASSUME NEW x
    PROVE  x \in SlobHeld <=> (\E b \in Slob!Small : x \in Slob!Block(b)) \/ (\E p \in Slob!BigPages : x \in PageAt(p))
<1> DEFINE S == UNION {Slob!Block(b) : b \in Slob!Small}
           T == UNION {PageAt(p) : p \in Slob!BigPages}
<1>1. x \in S <=> \E b \in Slob!Small : x \in Slob!Block(b)
  OBVIOUS
<1>2. x \in T <=> \E p \in Slob!BigPages : x \in PageAt(p)
  OBVIOUS
<1>4. SlobHeld = S \cup T
  BY DEF SlobHeld
<1> HIDE DEF S, T
<1>3. x \in SlobHeld <=> x \in S \/ x \in T
  BY <1>4
<1> QED
  BY <1>1, <1>2, <1>3, Zenon

\* What is handed out are blocks within the pages of the list, and other pages.
LEMMA HeldFacts ==
    ASSUME SlobInv
    PROVE  /\ \A b \in Slob!Small : b \in allocated /\ Slob!Block(b) \subseteq SlobArea \cap UnitsOf(pages)
           /\ \A b \in Slob!Small, c \in allocated : b # c => Slob!Block(b) \cap Slob!Block(c) = {}
           /\ \A p \in Slob!BigPages : p \in Slob!Pages \ pages /\ PageAt(p) \subseteq SlobArea
                                       /\ PageAt(p) \cap UnitsOf(pages) = {}
           /\ SlobHeld \subseteq SlobArea
<1>1. /\ pages \subseteq Slob!Pages /\ ListOk(Slob!List, allocated, UnitsOf(pages))
      /\ \A b \in bigblocks : b[1] \in Slob!Pages /\ b[1] \notin pages
  BY DEF SlobInv
<1>2. ASSUME NEW b \in Slob!Small
      PROVE  b \in allocated /\ Slob!Block(b) \subseteq SlobArea \cap UnitsOf(pages)
  <2>1. b \in allocated
    BY DEF Slob!Small
  <2>2. b \in Nat /\ b # 0 /\ units[b] \in Nat \ {0} /\ b..(b + units[b] - 1) \subseteq UnitsOf(pages)
    BY <1>1, <2>1, BlocksOf, ListFields
  <2>3. ASSUME NEW x \in Slob!Block(b) PROVE x \in SlobArea
    <3>1. x # 0 /\ x \in UnitsOf(pages)
      BY <2>2, <2>3 DEF Slob!Block
    <3>2. PICK p \in pages : x \in PageAt(p)
      BY <3>1 DEF UnitsOf
    <3> QED
      BY <1>1, <3>2 DEF SlobArea
  <2> QED
    BY <2>1, <2>2, <2>3 DEF Slob!Block
<1>3. ASSUME NEW b \in Slob!Small, NEW c \in allocated, b # c PROVE Slob!Block(b) \cap Slob!Block(c) = {}
  <2>1. b \in allocated
    BY DEF Slob!Small
  <2>2. b..(b + units[b] - 1) \cap c..(c + units[c] - 1) = {}
    BY <1>1, <1>3, <2>1, BlocksOf, ListFields
  <2> QED
    BY <2>2 DEF Slob!Block
<1>4. ASSUME NEW p \in Slob!BigPages
      PROVE  p \in Slob!Pages \ pages /\ PageAt(p) \subseteq SlobArea /\ PageAt(p) \cap UnitsOf(pages) = {}
  <2>1. p \in Slob!Pages \ pages
    BY <1>1 DEF Slob!BigPages
  <2>2. PageAt(p) \subseteq SlobArea
    BY <2>1 DEF SlobArea
  <2> QED
    BY <1>1, <2>1, <2>2, PagesApart
<1>5. ASSUME NEW x \in SlobHeld PROVE x \in SlobArea
  <2>1. CASE \E b \in Slob!Small : x \in Slob!Block(b)
    <3>1. PICK b \in Slob!Small : x \in Slob!Block(b)
      BY <2>1
    <3>2. Slob!Block(b) \subseteq SlobArea
      BY <1>2
    <3> QED
      BY <3>1, <3>2
  <2>2. CASE \E p \in Slob!BigPages : x \in PageAt(p)
    <3>1. PICK p \in Slob!BigPages : x \in PageAt(p)
      BY <2>2
    <3>2. PageAt(p) \subseteq SlobArea
      BY <1>4
    <3> QED
      BY <3>1, <3>2
  <2> QED
    BY <1>5, <2>1, <2>2, InHeld
<1> QED
  BY <1>2, <1>3, <1>4, <1>5

\* A run of n units from b on is handed out, or given back.
SlobMoves(b, n) ==
    \/ b..(b + n - 1) \subseteq SlobArea \ SlobHeld /\ SlobHeld' = SlobHeld \cup b..(b + n - 1)
    \/ SlobHeld \subseteq SlobArea /\ b..(b + n - 1) \subseteq SlobHeld /\ SlobHeld' = SlobHeld \ b..(b + n - 1)

\* kmalloc of less than a page hands out a block.
LEMMA KmallocIs ==
    ASSUME SlobInv, NEW n \in 2..(PAGE_UNITS - 1), Slob!Kmalloc(n)
    PROVE  SlobInv' /\ \E b \in Nat : SlobMoves(b, n)
<1> DEFINE fp == Slob!FreePages
           l == Slob!List
<1>1. /\ pages \subseteq Slob!Pages /\ ListOk(l, allocated, UnitsOf(pages))
      /\ \A b \in bigblocks : /\ b[1] \in Slob!Pages /\ b[1] \notin pages
                              /\ b[2] \in allocated /\ units[b[2]] = BIGBLOCK_UNITS
      /\ \A b, d \in bigblocks : b[1] = d[1] \/ b[2] = d[2] => b = d
  BY DEF SlobInv
<1>2. PICK r \in Slob!SlobAlloc(l, n, fp) :
          /\ next' = r.list.next /\ units' = r.list.units /\ slobfree' = r.list.slobfree
          /\ pages' = pages \cup r.grown /\ allocated' = allocated \cup {r.block} /\ bigblocks' = bigblocks
  BY DEF Slob!Kmalloc, Slob!SetList
<1>3. fp \subseteq Slob!Pages \ pages /\ \A p \in fp : p \notin Slob!BigPages
  BY DEF Slob!FreePages
<1>4. n \in Nat /\ n \in Nat \ {0} /\ n >= 2 /\ n <= PAGE_UNITS
  BY PageFacts
<1>5. Asking(l, allocated, pages, fp, n)
  BY <1>1, <1>3, <1>4 DEF Asking
<1> HIDE DEF fp
<1>6. Allotted(l, allocated, pages, fp, n, r)
  BY <1>4, <1>5, SlobAllocIs
<1> DEFINE P == pages \cup r.grown
           A == allocated \cup {r.block}
<1>7. /\ r.grown \subseteq fp /\ ListOk(r.list, A, UnitsOf(P))
      /\ r.list.units[r.block] = n /\ r.block \notin allocated /\ r.block # 0
      /\ \A a \in allocated : r.list.units[a] = units[a]
  BY <1>6, ListFields DEF Allotted
<1>8. l' = [next |-> r.list.next, units |-> r.list.units, slobfree |-> r.list.slobfree]
  BY <1>2 DEF Slob!List
<1> HIDE DEF l
<1>9. l'.next = r.list.next /\ l'.units = r.list.units /\ l'.slobfree = r.list.slobfree
  BY <1>8
<1>10. ListOk(l', A, UnitsOf(P))
  <2> DEFINE V == UnitsOf(P)
             m == l'
  <2>1. ListOk(r.list, A, V) /\ m.next = r.list.next /\ m.units = r.list.units /\ m.slobfree = r.list.slobfree
    BY <1>7, <1>9
  <2> HIDE DEF V, m, A
  <2>2. OnRing(m) = OnRing(r.list)
    BY <2>1 DEF OnRing
  <2>3. ListOk(m, A, V)
    BY <2>1, <2>2 DEF ListOk
  <2> QED
    BY <2>3 DEF V, m
<1>11. SlobInv'
  <2>1. \A b \in bigblocks' : /\ b[1] \in Slob!Pages /\ b[1] \notin pages'
                              /\ b[2] \in allocated' /\ units'[b[2]] = BIGBLOCK_UNITS
    <3> SUFFICES ASSUME NEW b \in bigblocks
                 PROVE  b[1] \in Slob!Pages /\ b[1] \notin P /\ b[2] \in A /\ r.list.units[b[2]] = BIGBLOCK_UNITS
      BY <1>2
    <3>1. b[1] \in Slob!BigPages
      BY DEF Slob!BigPages
    <3> QED
      BY <1>1, <1>3, <1>7, <3>1 DEF fp
  <2>2. P \subseteq Slob!Pages
    BY <1>1, <1>3, <1>7 DEF fp
  <2>3. ListOk(l', allocated', UnitsOf(pages'))
    BY <1>2, <1>10
  <2> QED
    BY <1>1, <1>2, <2>1, <2>2, <2>3 DEF SlobInv, l
<1> DEFINE c == r.block
           run == c..(c + n - 1)
<1>12. c \in Nat /\ run \subseteq UnitsOf(P) /\ \A b \in allocated : run \cap Slob!Block(b) = {}
  <2> DEFINE V == UnitsOf(P)
  <2>1. ListOk(r.list, A, V) /\ c \in A
    BY <1>7
  <2> HIDE DEF V, A
  <2>2. /\ c \in Nat /\ c..(c + r.list.units[c] - 1) \subseteq V
        /\ \A b \in A : c # b => c..(c + r.list.units[c] - 1) \cap b..(b + r.list.units[b] - 1) = {}
    BY <2>1, BlocksOf
  <2>3. ASSUME NEW b \in allocated PROVE run \cap Slob!Block(b) = {}
    <3>1. b \in A /\ c # b /\ r.list.units[b] = units[b]
      BY <1>7 DEF A
    <3>2. c..(c + r.list.units[c] - 1) \cap b..(b + r.list.units[b] - 1) = {}
      BY <2>2, <3>1
    <3> QED
      BY <1>7, <3>1, <3>2 DEF Slob!Block
  <2> QED
    BY <1>7, <2>2, <2>3 DEF V
<1>13. \A x \in run : x \in SlobArea
  <2> SUFFICES ASSUME NEW x \in run PROVE x \in SlobArea
    OBVIOUS
  <2>1. x # 0 /\ x \in UnitsOf(P)
    <3>1. x \in UnitsOf(P)
      BY <1>12
    <3>2. c \in Nat /\ c # 0 /\ x \in c..(c + n - 1)
      BY <1>7, <1>12
    <3> QED
      BY <3>1, <3>2
  <2>2. PICK p \in P : x \in PageAt(p)
    BY <2>1 DEF UnitsOf
  <2>3. p \in Slob!Pages
    BY <1>1, <1>3, <1>7, <2>2 DEF fp
  <2> QED
    BY <2>2, <2>3 DEF SlobArea
<1>14. \A p \in Slob!BigPages : run \cap PageAt(p) = {}
  <2> SUFFICES ASSUME NEW p \in Slob!BigPages PROVE run \cap PageAt(p) = {}
    OBVIOUS
  <2>1. p \in Slob!Pages /\ p \notin P /\ P \subseteq Slob!Pages
    BY <1>1, <1>3, <1>7, HeldFacts DEF fp
  <2>2. PageAt(p) \cap UnitsOf(P) = {}
    BY <2>1, PagesApart
  <2> QED
    BY <1>12, <2>2
<1>15. Slob!Small' = Slob!Small \cup {c} /\ Slob!BigPages' = Slob!BigPages
  <2>1. \A b \in bigblocks : b[2] # c
    BY <1>1, <1>7
  <2> QED
    BY <1>2, <2>1 DEF Slob!Small, Slob!BigPages
<1>16. Slob!Block(c)' = run /\ \A b \in Slob!Small : Slob!Block(b)' = Slob!Block(b)
  <2>1. units'[c] = n /\ \A b \in Slob!Small : units'[b] = units[b]
    BY <1>2, <1>7, HeldFacts
  <2> QED
    BY <2>1 DEF Slob!Block
<1>17. \A b \in Slob!Small : b \in allocated
  BY HeldFacts
<1> HIDE DEF run, c
<1>18. SlobHeld' = SlobHeld \cup run
  BY <1>15, <1>16 DEF SlobHeld
<1>19. ASSUME NEW x \in run PROVE x \in SlobArea \ SlobHeld
  <2>1. \A b \in Slob!Small : x \notin Slob!Block(b)
    BY <1>12, <1>17
  <2>2. \A p \in Slob!BigPages : x \notin PageAt(p)
    BY <1>14
  <2> QED
    BY <1>13, <2>1, <2>2, InHeld
<1>20. SlobMoves(c, n)
  BY <1>18, <1>19 DEF SlobMoves, run
<1> QED
  BY <1>11, <1>12, <1>20

\* Lists with the same fields are as they should be together.
LEMMA SameList ==
    ASSUME NEW l, NEW m, NEW A, NEW V, ListOk(l, A, V),
           m.next = l.next, m.units = l.units, m.slobfree = l.slobfree
    PROVE  ListOk(m, A, V)
<1>1. OnRing(m) = OnRing(l)
  BY DEF OnRing
<1> QED
  BY <1>1 DEF ListOk

\* The blocks of others are what they were, and no page of its own is new or gone.
LEMMA HeldStays ==
    ASSUME SlobInv, Slob!Small' = Slob!Small, \A b \in Slob!Small : units'[b] = units[b], NEW x
    PROVE  x \in SlobHeld' <=> (\E b \in Slob!Small : x \in Slob!Block(b)) \/ (\E p \in Slob!BigPages' : x \in PageAt(p))
<1>1. \A b \in Slob!Small : Slob!Block(b)' = Slob!Block(b)
  BY DEF Slob!Block
<1> DEFINE S == UNION {Slob!Block(b) : b \in Slob!Small}
           T == UNION {PageAt(p) : p \in Slob!BigPages'}
<1>2. x \in S <=> \E b \in Slob!Small : x \in Slob!Block(b)
  OBVIOUS
<1>3. x \in T <=> \E p \in Slob!BigPages' : x \in PageAt(p)
  OBVIOUS
<1>4. SlobHeld' = S \cup T
  BY <1>1 DEF SlobHeld, PageAt
<1> HIDE DEF S, T
<1>5. x \in SlobHeld' <=> x \in S \/ x \in T
  BY <1>4
<1> QED
  BY <1>2, <1>3, <1>5, Zenon

\* A page of its own more, or one less
LEMMA PageMoves ==
    ASSUME SlobInv, Slob!Small' = Slob!Small, \A b \in Slob!Small : units'[b] = units[b],
           NEW p \in Slob!Pages \ pages,
           \/ p \notin Slob!BigPages /\ Slob!BigPages' = Slob!BigPages \cup {p}
           \/ p \in Slob!BigPages /\ Slob!BigPages' = Slob!BigPages \ {p}
    PROVE  SlobMoves(p, PAGE_UNITS)
<1> DEFINE run == PageAt(p)
<1>1. \A q \in Slob!BigPages : q \in Slob!Pages /\ (q # p => run \cap PageAt(q) = {})
  <2> SUFFICES ASSUME NEW q \in Slob!BigPages PROVE q \in Slob!Pages /\ (q # p => run \cap PageAt(q) = {})
    OBVIOUS
  <2>1. q \in Slob!Pages
    BY HeldFacts
  <2>2. ASSUME q # p PROVE run \cap PageAt(q) = {}
    <3>1. {q} \subseteq Slob!Pages /\ p \in Slob!Pages \ {q}
      BY <2>1, <2>2
    <3>2. PageAt(q) \subseteq UnitsOf({q}) /\ run \cap UnitsOf({q}) = {}
      BY <3>1, PagesApart
    <3> QED
      BY <3>2
  <2> QED
    BY <2>1, <2>2
<1>2. \A b \in Slob!Small : run \cap Slob!Block(b) = {}
  <2> SUFFICES ASSUME NEW b \in Slob!Small PROVE run \cap Slob!Block(b) = {}
    OBVIOUS
  <2>1. Slob!Block(b) \subseteq UnitsOf(pages)
    BY HeldFacts
  <2>2. run \cap UnitsOf(pages) = {}
    <3>1. pages \subseteq Slob!Pages
      BY DEF SlobInv
    <3> QED
      BY <3>1, PagesApart
  <2> QED
    BY <2>1, <2>2
<1>3. \A x \in run : x \in SlobArea
  BY DEF SlobArea
<1>4. run = p..(p + PAGE_UNITS - 1)
  BY DEF PageAt
<1> HIDE DEF run
<1> DEFINE small(x) == \E b \in Slob!Small : x \in Slob!Block(b)
           big(x)   == \E q \in Slob!BigPages : x \in PageAt(q)
           after(x) == \E q \in Slob!BigPages' : x \in PageAt(q)
<1>5. ASSUME NEW x PROVE x \in SlobHeld' <=> small(x) \/ after(x)
  BY HeldStays
<1>6. ASSUME NEW x PROVE x \in SlobHeld <=> small(x) \/ big(x)
  BY InHeld
<1>10. \A x \in run : ~ small(x)
  BY <1>2
<1> HIDE DEF small
<1>7. SlobHeld \subseteq SlobArea
  BY HeldFacts
<1> HIDE DEF SlobHeld, SlobArea
<1>8. CASE p \notin Slob!BigPages /\ Slob!BigPages' = Slob!BigPages \cup {p}
  <2>1. \A x \in run : ~ big(x)
    BY <1>1, <1>8
  <2>2. \A x : after(x) <=> big(x) \/ x \in run
    BY <1>8 DEF run
  <2> HIDE DEF big, after
  <2>3. SlobHeld' = SlobHeld \cup run
    BY <1>5, <1>6, <2>2
  <2>4. run \subseteq SlobArea \ SlobHeld
    BY <1>3, <1>6, <1>10, <2>1
  <2> QED
    BY <1>4, <2>3, <2>4 DEF SlobMoves
<1>9. CASE p \in Slob!BigPages /\ Slob!BigPages' = Slob!BigPages \ {p}
  <2>1. \A x \in run : big(x)
    BY <1>9 DEF run
  <2>2. \A x : after(x) <=> big(x) /\ x \notin run
    BY <1>1, <1>9 DEF run
  <2> HIDE DEF big, after
  <2>3. SlobHeld' = SlobHeld \ run
    BY <1>5, <1>6, <1>10, <2>2
  <2>4. run \subseteq SlobHeld
    BY <1>6, <2>1
  <2> QED
    BY <1>4, <1>7, <2>3, <2>4 DEF SlobMoves
<1> QED
  BY <1>8, <1>9

\* The pages, and the bigblock_ts, of some entries
\* The pages kmalloc has handed out, and the bigblock_ts before them
PagesIn(S) == {b[1] : b \in S}
HeadsIn(S) == {b[2] : b \in S}

\* A page and its bigblock_t more
OneMore(S, T, p, c) == T = S \cup {<<p, c>>}

\* What one entry more brings
LEMMA OneMoreEntry ==
    ASSUME NEW S, NEW p, NEW c, NEW T, OneMore(S, T, p, c)
    PROVE  PagesIn(T) = PagesIn(S) \cup {p} /\ HeadsIn(T) = HeadsIn(S) \cup {c}
<1> DEFINE k == <<p, c>>
<1>1. k[1] = p /\ k[2] = c
  OBVIOUS
<1>2. \A b : b \in T <=> b \in S \/ b = k
  BY DEF OneMore
<1> HIDE DEF k
<1>3. ASSUME NEW x PROVE x \in {b[1] : b \in T} <=> x \in {b[1] : b \in S} \/ x = p
  <2>1. x \in {b[1] : b \in T} <=> \E b \in T : x = b[1]
    OBVIOUS
  <2>2. x \in {b[1] : b \in S} <=> \E b \in S : x = b[1]
    OBVIOUS
  <2>3. (\E b \in T : x = b[1]) <=> (\E b \in S : x = b[1]) \/ x = p
    BY <1>1, <1>2, Zenon
  <2> QED
    BY <2>1, <2>2, <2>3
<1>4. ASSUME NEW x PROVE x \in {b[2] : b \in T} <=> x \in {b[2] : b \in S} \/ x = c
  <2>1. x \in {b[2] : b \in T} <=> \E b \in T : x = b[2]
    OBVIOUS
  <2>2. x \in {b[2] : b \in S} <=> \E b \in S : x = b[2]
    OBVIOUS
  <2>3. (\E b \in T : x = b[2]) <=> (\E b \in S : x = b[2]) \/ x = c
    BY <1>1, <1>2, Zenon
  <2> QED
    BY <2>1, <2>2, <2>3
<1> DEFINE X1 == {b[1] : b \in T}
           Y1 == {b[1] : b \in S}
           X2 == {b[2] : b \in T}
           Y2 == {b[2] : b \in S}
<1>5. (\A x : x \in X1 <=> x \in Y1 \/ x = p) /\ (\A x : x \in X2 <=> x \in Y2 \/ x = c)
  BY <1>3, <1>4
<1> HIDE DEF X1, X2, Y1, Y2
<1>6. X1 = Y1 \cup {p} /\ X2 = Y2 \cup {c}
  BY <1>5
<1> QED
  BY <1>6 DEF X1, X2, Y1, Y2, PagesIn, HeadsIn

\* kmalloc of a page hands out a page of its own, or nothing.
LEMMA KmallocPageIs ==
    ASSUME SlobInv, Slob!KmallocPage
    PROVE  SlobInv' /\ (SlobHeld' = SlobHeld \/ \E b \in Nat : SlobMoves(b, PAGE_UNITS))
<1> DEFINE fp == Slob!FreePages
           l == Slob!List
           n == BIGBLOCK_UNITS
<1>1. /\ pages \subseteq Slob!Pages /\ ListOk(l, allocated, UnitsOf(pages))
      /\ \A b \in bigblocks : /\ b[1] \in Slob!Pages /\ b[1] \notin pages
                              /\ b[2] \in allocated /\ units[b[2]] = n
      /\ \A b, d \in bigblocks : b[1] = d[1] \/ b[2] = d[2] => b = d
  BY DEF SlobInv
<1>2. PICK r \in Slob!SlobAlloc(l, n, fp) :
          /\ pages' = pages \cup r.grown
          /\ IF fp = r.grown
             THEN /\ Slob!SetList(Slob!SlobFree(r.list, r.block, n))
                  /\ allocated' = allocated /\ bigblocks' = bigblocks
             ELSE /\ Slob!SetList(r.list) /\ allocated' = allocated \cup {r.block}
                  /\ \E p \in fp \ r.grown : bigblocks' = bigblocks \cup {<<p, r.block>>}
  BY DEF Slob!KmallocPage
<1>3. fp \subseteq Slob!Pages \ pages /\ \A p \in fp : p \notin Slob!BigPages
  BY DEF Slob!FreePages
<1>4. n \in Nat /\ n >= 2 /\ n <= PAGE_UNITS
  BY PageFacts
<1>5. Asking(l, allocated, pages, fp, n)
  BY <1>1, <1>3, <1>4 DEF Asking
<1> HIDE DEF fp, n
<1>6. Allotted(l, allocated, pages, fp, n, r)
  BY <1>4, <1>5, SlobAllocIs
<1> DEFINE P == pages \cup r.grown
           A == allocated \cup {r.block}
           V == UnitsOf(P)
           c == r.block
<1>7. /\ r.grown \subseteq fp /\ ListOk(r.list, A, V)
      /\ r.list.units[c] = n /\ c \notin allocated /\ c # 0
      /\ \A a \in allocated : r.list.units[a] = units[a]
  BY <1>6, ListFields DEF Allotted
<1>8. P \subseteq Slob!Pages /\ \A p \in Slob!BigPages : p \notin P /\ p \in Slob!Pages
  BY <1>1, <1>3, <1>7 DEF Slob!BigPages
<1>9. \A b \in Slob!Small : b \in allocated
  BY DEF Slob!Small
<1> HIDE DEF V, c
<1>10. CASE fp = r.grown
  <2> DEFINE m == Slob!SlobFree(r.list, c, n)
  <2>1. /\ next' = m.next /\ units' = m.units /\ slobfree' = m.slobfree
        /\ pages' = P /\ allocated' = allocated /\ bigblocks' = bigblocks
    BY <1>2, <1>10 DEF Slob!SetList, c
  <2>2. Returning(r.list, A, V, c, n)
    BY <1>7 DEF Returning, c
  <2> HIDE DEF A
  <2>3. Returned(r.list, m, A, V, c)
    BY <2>2, ReturnIs
  <2> HIDE DEF m
  <2>4. A \ {c} = allocated
    BY <1>7 DEF A, c
  <2>5. ListOk(m, allocated, V) /\ \A a \in allocated : m.units[a] = units[a]
    BY <1>7, <2>3, <2>4 DEF Returned
  <2>6. ListOk(l', allocated, V)
    <3>1. l' = [next |-> m.next, units |-> m.units, slobfree |-> m.slobfree]
      BY <2>1 DEF Slob!List
    <3> HIDE DEF l
    <3>2. l'.next = m.next /\ l'.units = m.units /\ l'.slobfree = m.slobfree
      BY <3>1
    <3> DEFINE k == l'
    <3>3. k.next = m.next /\ k.units = m.units /\ k.slobfree = m.slobfree
      BY <3>2
    <3> HIDE DEF k
    <3>4. ListOk(k, allocated, V)
      BY <2>5, <3>3, SameList
    <3> QED
      BY <3>4 DEF k
  <2>7. SlobInv'
    <3>1. \A b \in bigblocks' : /\ b[1] \in Slob!Pages /\ b[1] \notin pages'
                                /\ b[2] \in allocated' /\ units'[b[2]] = n
      <4> SUFFICES ASSUME NEW b \in bigblocks
                   PROVE  b[1] \in Slob!Pages /\ b[1] \notin P /\ b[2] \in allocated /\ m.units[b[2]] = n
        BY <2>1
      <4>1. b[1] \in Slob!BigPages
        BY DEF Slob!BigPages
      <4> QED
        BY <1>1, <1>8, <2>5, <4>1
    <3>2. pages' \subseteq Slob!Pages /\ ListOk(l', allocated', UnitsOf(pages'))
      BY <1>8, <2>1, <2>6 DEF V
    <3>3. \A b, d \in bigblocks' : b[1] = d[1] \/ b[2] = d[2] => b = d
      BY <1>1, <2>1
    <3> QED
      BY <3>1, <3>2, <3>3 DEF SlobInv, l, n
  <2>8. SlobHeld' = SlobHeld
    <3>1. Slob!Small' = Slob!Small /\ Slob!BigPages' = Slob!BigPages
      BY <2>1 DEF Slob!Small, Slob!BigPages
    <3>2. \A b \in Slob!Small : Slob!Block(b)' = Slob!Block(b)
      BY <1>9, <2>1, <2>5 DEF Slob!Block
    <3> QED
      BY <3>1, <3>2 DEF SlobHeld
  <2> QED
    BY <2>7, <2>8
<1>11. CASE fp # r.grown
  <2>1. /\ next' = r.list.next /\ units' = r.list.units /\ slobfree' = r.list.slobfree
        /\ pages' = P /\ allocated' = A
    BY <1>2, <1>11 DEF Slob!SetList
  <2>2. PICK p \in fp \ r.grown : bigblocks' = bigblocks \cup {<<p, c>>}
    BY <1>2, <1>11 DEF c
  <2>3. p \in Slob!Pages /\ p \notin P /\ p \notin Slob!BigPages /\ p \in Slob!Pages \ pages /\ p \in Nat
    BY <1>3, PageFacts
  <2>4. ListOk(l', A, V)
    <3>1. l' = [next |-> r.list.next, units |-> r.list.units, slobfree |-> r.list.slobfree]
      BY <2>1 DEF Slob!List
    <3> HIDE DEF l
    <3>2. l'.next = r.list.next /\ l'.units = r.list.units /\ l'.slobfree = r.list.slobfree
      BY <3>1
    <3> DEFINE k == l'
               m == r.list
    <3>3. k.next = m.next /\ k.units = m.units /\ k.slobfree = m.slobfree /\ ListOk(m, A, V)
      BY <1>7, <3>2
    <3> HIDE DEF k, m, A
    <3>4. ListOk(k, A, V)
      BY <3>3, SameList
    <3> QED
      BY <3>4 DEF k
  <2>5. SlobInv'
    <3>1. \A b \in bigblocks' : /\ b[1] \in Slob!Pages /\ b[1] \notin pages'
                                /\ b[2] \in allocated' /\ units'[b[2]] = n
      <4> SUFFICES ASSUME NEW b \in bigblocks \cup {<<p, c>>}
                   PROVE  b[1] \in Slob!Pages /\ b[1] \notin P /\ b[2] \in A /\ r.list.units[b[2]] = n
        BY <2>1, <2>2
      <4>1. CASE b \in bigblocks
        <5>1. b[1] \in Slob!BigPages
          BY <4>1 DEF Slob!BigPages
        <5> QED
          BY <1>1, <1>7, <1>8, <4>1, <5>1
      <4>2. CASE b = <<p, c>>
        BY <1>7, <2>3, <4>2 DEF c
      <4> QED
        BY <4>1, <4>2
    <3>2. pages' \subseteq Slob!Pages /\ ListOk(l', allocated', UnitsOf(pages'))
      BY <1>8, <2>1, <2>4 DEF V
    <3>3. ASSUME NEW b \in bigblocks', NEW d \in bigblocks', b[1] = d[1] \/ b[2] = d[2] PROVE b = d
      <4>1. \A e \in bigblocks : e[1] # p /\ e[2] # c
        BY <1>1, <1>7, <2>3 DEF Slob!BigPages
      <4>2. (b \in bigblocks \/ b = <<p, c>>) /\ (d \in bigblocks \/ d = <<p, c>>)
        BY <2>2
      <4> QED
        BY <1>1, <3>3, <4>1, <4>2
    <3> QED
      BY <3>1, <3>2, <3>3 DEF SlobInv, l, n
  <2>10. HeadsIn(bigblocks') = HeadsIn(bigblocks) \cup {c} /\ PagesIn(bigblocks') = PagesIn(bigblocks) \cup {p}
    <3> DEFINE S == bigblocks
               T == bigblocks'
    <3>1. OneMore(S, T, p, c)
      BY <2>2 DEF OneMore
    <3> HIDE DEF S, T
    <3>2. PagesIn(T) = PagesIn(S) \cup {p} /\ HeadsIn(T) = HeadsIn(S) \cup {c}
      BY <3>1, OneMoreEntry
    <3> QED
      BY <3>2 DEF S, T
  <2>6. Slob!Small' = Slob!Small
    <3>1. HeadsIn(bigblocks') = HeadsIn(bigblocks) \cup {c}
      BY <2>10
    <3>2. Slob!Small' = allocated' \ HeadsIn(bigblocks') /\ Slob!Small = allocated \ HeadsIn(bigblocks)
      BY DEF Slob!Small, HeadsIn
    <3> QED
      BY <1>7, <2>1, <3>1, <3>2 DEF c
  <2>7. Slob!BigPages' = Slob!BigPages \cup {p}
    <3>1. PagesIn(bigblocks') = PagesIn(bigblocks) \cup {p}
      BY <2>10
    <3>2. Slob!BigPages' = PagesIn(bigblocks') /\ Slob!BigPages = PagesIn(bigblocks)
      BY DEF Slob!BigPages, PagesIn
    <3> QED
      BY <3>1, <3>2
  <2>8. \A b \in Slob!Small : units'[b] = units[b]
    BY <1>7, <1>9, <2>1
  <2>9. SlobMoves(p, PAGE_UNITS)
    BY <2>3, <2>6, <2>7, <2>8, PageMoves
  <2> QED
    BY <2>3, <2>5, <2>9
<1> QED
  BY <1>10, <1>11

\* A block that is freed leaves the others as they were.
LEMMA FreedIs ==
    ASSUME SlobInv, NEW c \in allocated, Slob!SetList(Slob!SlobFree(Slob!List, c, units[c])),
           allocated' = allocated \ {c}, pages' = pages, NEW B, B \subseteq bigblocks, \A b \in B : b[2] # c,
           bigblocks' = B
    PROVE  SlobInv' /\ \A a \in allocated \ {c} : units'[a] = units[a]
<1> DEFINE l == Slob!List
           n == units[c]
           m == Slob!SlobFree(l, c, n)
           A == allocated
           V == UnitsOf(pages)
<1>1. /\ pages \subseteq Slob!Pages /\ ListOk(l, A, V)
      /\ \A b \in bigblocks : /\ b[1] \in Slob!Pages /\ b[1] \notin pages
                              /\ b[2] \in A /\ units[b[2]] = BIGBLOCK_UNITS
      /\ \A b, d \in bigblocks : b[1] = d[1] \/ b[2] = d[2] => b = d
  BY DEF SlobInv
<1>2. next' = m.next /\ units' = m.units /\ slobfree' = m.slobfree
  BY DEF Slob!SetList
<1>3. Returning(l, A, V, c, n)
  BY <1>1, ListFields DEF Returning
<1>4. l' = [next |-> m.next, units |-> m.units, slobfree |-> m.slobfree] /\ l.units = units
  BY <1>2, ListFields DEF Slob!List
<1> HIDE DEF l, A, V, n
<1>5. Returned(l, m, A, V, c)
  BY <1>3, ReturnIs
<1> HIDE DEF m
<1>6. ListOk(m, A \ {c}, V) /\ \A a \in A \ {c} : m.units[a] = units[a]
  BY <1>4, <1>5 DEF Returned
<1>7. ListOk(l', A \ {c}, V)
  <2>1. l'.next = m.next /\ l'.units = m.units /\ l'.slobfree = m.slobfree
    BY <1>4
  <2> DEFINE k == l'
             C == A \ {c}
  <2>2. k.next = m.next /\ k.units = m.units /\ k.slobfree = m.slobfree /\ ListOk(m, C, V)
    BY <1>6, <2>1
  <2> HIDE DEF k, C
  <2>3. ListOk(k, C, V)
    BY <2>2, SameList
  <2> QED
    BY <2>3 DEF k, C
<1>8. \A b \in bigblocks' : /\ b[1] \in Slob!Pages /\ b[1] \notin pages'
                            /\ b[2] \in allocated' /\ units'[b[2]] = BIGBLOCK_UNITS
  <2> SUFFICES ASSUME NEW b \in B
               PROVE  b[1] \in Slob!Pages /\ b[1] \notin pages /\ b[2] \in A \ {c} /\ m.units[b[2]] = BIGBLOCK_UNITS
    BY <1>2 DEF A
  <2>1. b \in bigblocks /\ b[2] # c
    OBVIOUS
  <2> QED
    BY <1>1, <1>6, <2>1
<1>9. pages' \subseteq Slob!Pages /\ ListOk(l', allocated', UnitsOf(pages'))
  BY <1>1, <1>7 DEF A, V
<1>10. \A b, d \in bigblocks' : b[1] = d[1] \/ b[2] = d[2] => b = d
  BY <1>1
<1>11. SlobInv'
  BY <1>8, <1>9, <1>10 DEF SlobInv, l
<1> QED
  BY <1>2, <1>6, <1>11 DEF A

\* One of the pages less, when no two have a page or a bigblock_t in common
OneLess(S, T, b) == b \in S /\ T = S \ {b} /\ \A d \in S : b[1] = d[1] \/ b[2] = d[2] => b = d

\* What one entry less takes away
LEMMA OneLessEntry ==
    ASSUME NEW S, NEW T, NEW b, OneLess(S, T, b)
    PROVE  PagesIn(T) = PagesIn(S) \ {b[1]} /\ HeadsIn(S) = HeadsIn(T) \cup {b[2]} /\ b[1] \in PagesIn(S)
<1>1. b \in S /\ (\A d : d \in T <=> d \in S /\ d # b) /\ \A d \in S : b[1] = d[1] \/ b[2] = d[2] => b = d
  BY DEF OneLess
<1> DEFINE X1 == {d[1] : d \in T}
           Y1 == {d[1] : d \in S}
           X2 == {d[2] : d \in T}
           Y2 == {d[2] : d \in S}
<1>2. ASSUME NEW x PROVE x \in X1 <=> x \in Y1 /\ x # b[1]
  <2>1. x \in X1 <=> \E d \in T : x = d[1]
    OBVIOUS
  <2>2. x \in Y1 <=> \E d \in S : x = d[1]
    OBVIOUS
  <2>3. (\E d \in T : x = d[1]) <=> (\E d \in S : x = d[1]) /\ x # b[1]
    BY <1>1, Zenon
  <2> QED
    BY <2>1, <2>2, <2>3
<1>3. ASSUME NEW x PROVE x \in Y2 <=> x \in X2 \/ x = b[2]
  <2>1. x \in X2 <=> \E d \in T : x = d[2]
    OBVIOUS
  <2>2. x \in Y2 <=> \E d \in S : x = d[2]
    OBVIOUS
  <2>3. (\E d \in S : x = d[2]) <=> (\E d \in T : x = d[2]) \/ x = b[2]
    BY <1>1, Zenon
  <2> QED
    BY <2>1, <2>2, <2>3
<1>4. b[1] \in Y1
  BY <1>1
<1>5. (\A x : x \in X1 <=> x \in Y1 /\ x # b[1]) /\ (\A x : x \in Y2 <=> x \in X2 \/ x = b[2])
  BY <1>2, <1>3
<1> HIDE DEF X1, X2, Y1, Y2
<1>6. X1 = Y1 \ {b[1]} /\ Y2 = X2 \cup {b[2]}
  BY <1>5
<1> QED
  BY <1>4, <1>6 DEF X1, X2, Y1, Y2, PagesIn, HeadsIn

\* kfree of a small block gives it back.
LEMMA KfreeIs ==
    ASSUME SlobInv, NEW c \in Slob!Small, Slob!Kfree(c)
    PROVE  SlobInv' /\ \E b \in Nat, n \in Nat \ {0} : SlobMoves(b, n)
<1>1. c \in allocated /\ \A b \in bigblocks : b[2] # c
  BY DEF Slob!Small
<1>2. /\ Slob!SetList(Slob!SlobFree(Slob!List, c, units[c]))
      /\ allocated' = allocated \ {c} /\ pages' = pages /\ bigblocks' = bigblocks
  BY DEF Slob!Kfree
<1>3. SlobInv' /\ \A a \in allocated \ {c} : units'[a] = units[a]
  BY <1>1, <1>2, FreedIs
<1>4. c \in Nat /\ units[c] \in Nat \ {0}
  <2>1. ListOk(Slob!List, allocated, UnitsOf(pages))
    BY DEF SlobInv
  <2> QED
    BY <1>1, <2>1, BlocksOf, ListFields
<1> DEFINE n == units[c]
           run == c..(c + n - 1)
<1>5. run = Slob!Block(c)
  BY DEF Slob!Block
<1>6. Slob!Small' = Slob!Small \ {c} /\ Slob!BigPages' = Slob!BigPages
  BY <1>2 DEF Slob!Small, Slob!BigPages
<1>7. \A b \in Slob!Small \ {c} : Slob!Block(b)' = Slob!Block(b)
  <2>1. \A b \in Slob!Small \ {c} : units'[b] = units[b]
    BY <1>3 DEF Slob!Small
  <2> QED
    BY <2>1 DEF Slob!Block
<1>8. /\ \A b \in Slob!Small \ {c} : Slob!Block(b) \cap run = {}
      /\ \A p \in Slob!BigPages : PageAt(p) \cap run = {}
  <2>1. run \subseteq UnitsOf(pages)
    BY <1>5, HeldFacts
  <2>2. \A p \in Slob!BigPages : PageAt(p) \cap run = {}
    BY <2>1, HeldFacts
  <2>3. \A b \in Slob!Small \ {c} : Slob!Block(b) \cap run = {}
    BY <1>1, <1>5, HeldFacts
  <2> QED
    BY <2>2, <2>3
<1>9. SlobHeld \subseteq SlobArea
  BY HeldFacts
<1> HIDE DEF run
<1> DEFINE small(x) == \E b \in Slob!Small : x \in Slob!Block(b)
           rest(x)  == \E b \in Slob!Small \ {c} : x \in Slob!Block(b)
           big(x)   == \E q \in Slob!BigPages : x \in PageAt(q)
<1>10. ASSUME NEW x PROVE x \in SlobHeld <=> small(x) \/ big(x)
  BY InHeld
<1>11. ASSUME NEW x PROVE x \in SlobHeld' <=> rest(x) \/ big(x)
  <2> DEFINE S == UNION {Slob!Block(b) : b \in Slob!Small \ {c}}
             T == UNION {PageAt(p) : p \in Slob!BigPages}
  <2>1. x \in S <=> rest(x)
    OBVIOUS
  <2>2. x \in T <=> big(x)
    OBVIOUS
  <2>3. SlobHeld' = S \cup T
    BY <1>6, <1>7 DEF SlobHeld
  <2> HIDE DEF S, T
  <2>4. x \in SlobHeld' <=> x \in S \/ x \in T
    BY <2>3
  <2> QED
    BY <2>1, <2>2, <2>4, Zenon
<1>12. \A x : rest(x) <=> small(x) /\ x \notin run
  BY <1>5, <1>8
<1>13. (\A x \in run : small(x)) /\ (\A x : big(x) => x \notin run)
  BY <1>5, <1>8
<1> HIDE DEF small, rest, big, SlobHeld
<1>14. SlobHeld' = SlobHeld \ run /\ run \subseteq SlobHeld
  BY <1>10, <1>11, <1>12, <1>13
<1>15. SlobMoves(c, n)
  BY <1>9, <1>14 DEF SlobMoves, run
<1> QED
  BY <1>3, <1>4, <1>15

\* kfree of a page gives it back, and its bigblock_t to the list.
LEMMA KfreePageIs ==
    ASSUME SlobInv, NEW b \in bigblocks, Slob!KfreePage(b)
    PROVE  SlobInv' /\ \E p \in Nat : SlobMoves(p, PAGE_UNITS)
<1> DEFINE c == b[2]
           B == bigblocks \ {b}
<1>1. /\ b[1] \in Slob!Pages /\ b[1] \notin pages /\ c \in allocated /\ units[c] = BIGBLOCK_UNITS
      /\ \A d \in bigblocks : b[1] = d[1] \/ b[2] = d[2] => b = d
  BY DEF SlobInv
<1>2. /\ Slob!SetList(Slob!SlobFree(Slob!List, c, units[c]))
      /\ allocated' = allocated \ {c} /\ pages' = pages /\ bigblocks' = B
  BY <1>1 DEF Slob!KfreePage
<1>3. B \subseteq bigblocks /\ \A d \in B : d[2] # c
  BY <1>1
<1>4. SlobInv' /\ \A a \in allocated \ {c} : units'[a] = units[a]
  <2> HIDE DEF B, c
  <2> QED
    BY <1>1, <1>2, <1>3, FreedIs
<1>5. /\ PagesIn(bigblocks') = PagesIn(bigblocks) \ {b[1]} /\ b[1] \in PagesIn(bigblocks)
      /\ HeadsIn(bigblocks) = HeadsIn(bigblocks') \cup {c}
  <2> DEFINE S == bigblocks
             T == bigblocks'
  <2>1. OneLess(S, T, b)
    BY <1>1, <1>2 DEF OneLess
  <2> HIDE DEF S, T
  <2>2. PagesIn(T) = PagesIn(S) \ {b[1]} /\ HeadsIn(S) = HeadsIn(T) \cup {b[2]} /\ b[1] \in PagesIn(S)
    BY <2>1, OneLessEntry
  <2> QED
    BY <2>2 DEF S, T
<1>6. Slob!Small' = Slob!Small /\ \A a \in Slob!Small : units'[a] = units[a]
  <2>1. Slob!Small' = allocated' \ HeadsIn(bigblocks') /\ Slob!Small = allocated \ HeadsIn(bigblocks)
    BY DEF Slob!Small, HeadsIn
  <2>2. Slob!Small' = Slob!Small
    BY <1>2, <1>5, <2>1
  <2>3. \A a \in Slob!Small : a \in allocated \ {c}
    BY <1>5, <2>1
  <2> QED
    BY <1>4, <2>2, <2>3
<1>7. Slob!BigPages' = Slob!BigPages \ {b[1]} /\ b[1] \in Slob!BigPages
  BY <1>5 DEF Slob!BigPages, PagesIn
<1>8. b[1] \in Slob!Pages \ pages /\ b[1] \in Nat
  BY <1>1, PageFacts
<1>9. SlobMoves(b[1], PAGE_UNITS)
  BY <1>6, <1>7, <1>8, PageMoves
<1> QED
  BY <1>4, <1>8, <1>9

\* A step of kmalloc or kfree keeps what holds, and hands out a run, gives one
\* back, or leaves everyone's memory as it is.
LEMMA SlobStep ==
    ASSUME SlobInv, Slob!Next
    PROVE  SlobInv' /\ (SlobHeld' = SlobHeld \/ \E b \in Nat, n \in Nat \ {0} : SlobMoves(b, n))
<1>1. PAGE_UNITS \in Nat \ {0} /\ \A n \in 2..(PAGE_UNITS - 1) : n \in Nat \ {0}
  <2>1. PAGE_UNITS \in Nat /\ PAGE_UNITS > 2
    BY PageFacts
  <2> QED
    BY <2>1
<1>2. ASSUME NEW n \in 2..(PAGE_UNITS - 1), Slob!Kmalloc(n)
      PROVE  SlobInv' /\ \E b \in Nat, m \in Nat \ {0} : SlobMoves(b, m)
  <2>1. SlobInv' /\ \E b \in Nat : SlobMoves(b, n)
    BY <1>2, KmallocIs
  <2> QED
    BY <1>1, <2>1
<1>3. CASE Slob!KmallocPage
  <2>1. SlobInv' /\ (SlobHeld' = SlobHeld \/ \E b \in Nat : SlobMoves(b, PAGE_UNITS))
    BY <1>3, KmallocPageIs
  <2> QED
    BY <1>1, <2>1
<1>4. ASSUME NEW b \in Slob!Small, Slob!Kfree(b)
      PROVE  SlobInv' /\ \E c \in Nat, n \in Nat \ {0} : SlobMoves(c, n)
  BY <1>4, KfreeIs
<1>5. ASSUME NEW b \in bigblocks, Slob!KfreePage(b)
      PROVE  SlobInv' /\ \E c \in Nat, n \in Nat \ {0} : SlobMoves(c, n)
  <2>1. SlobInv' /\ \E p \in Nat : SlobMoves(p, PAGE_UNITS)
    BY <1>5, KfreePageIs
  <2> QED
    BY <1>1, <2>1
<1> QED
  BY <1>2, <1>3, <1>4, <1>5 DEF Slob!Next

\* The cardinality of kmalloc is the one of this module.
LEMMA SlobCardinality ==
    ASSUME NEW S
    PROVE  Slob!Cardinality(S) = Cardinality(S)
BY Zenon DEF Slob!Cardinality, Cardinality

\* Exactly one block of a ring leads down, or to itself.
LEMMA OneWrap ==
    ASSUME NEW nx, NEW F, Round(nx, F), NEW M \in Nat, F \subseteq 0..M, F # {}
    PROVE  Cardinality({a \in F : nx[a] <= a}) = 1
<1>1. PICK m \in F : \A h \in F : h <= m
  <2>1. F \in SUBSET (0..M)
    OBVIOUS
  <2> QED
    BY <2>1, GreatestNatural
<1>2. \A a \in F : /\ a \in Nat /\ nx[a] \in F /\ nx[a] \in Nat
                   /\ (a < nx[a] \/ (nx[a] <= a /\ \A h \in F : h <= a))
  BY DEF Round
<1>3. nx[m] <= m
  BY <1>1, <1>2
<1>4. ASSUME NEW a \in F, nx[a] <= a PROVE a = m
  <2>1. \A h \in F : h <= a
    BY <1>2, <1>4
  <2>2. m <= a /\ a <= m /\ a \in Nat /\ m \in Nat
    BY <1>1, <1>2, <2>1
  <2> QED
    BY <2>2
<1>5. {a \in F : nx[a] <= a} = {m}
  BY <1>3, <1>4
<1> QED
  BY <1>5, FS_Singleton

\* The list of kmalloc is one ring, and cuts its pages with what is handed out.
LEMMA SlobIsExact ==
    ASSUME SlobInv
    PROVE  Slob!SlobExact
<1> DEFINE l == Slob!List
           ring == Slob!Ring(l, slobfree)
           F == OnRing(l)
           M == Slob!Top
           A == allocated
           V == UnitsOf(pages)
           len == l.units
<1>1. /\ ListOk(l, A, V) /\ l.next = next /\ len = units /\ l.slobfree = slobfree
      /\ \A b \in bigblocks : b[2] \in A /\ b[1] \notin pages
  BY ListFields DEF SlobInv
<1>2. F = Slob!Free
  BY ListFields DEF OnRing, Slob!Free, Slob!Addr, Slob!NULL
<1>3. V = {Slob!arena} \cup UNION {p..(p + PAGE_UNITS - 1) : p \in pages}
  BY DEF UnitsOf, PageAt, Slob!arena
<1> HIDE DEF l, V, len
<1>4. /\ Round(l.next, F) /\ slobfree \in F /\ M \in Nat /\ F \subseteq 0..M /\ A \cap F = {}
      /\ Parts(len, F \cup A, V, M + 1) /\ Whole(len, F)
  BY <1>1 DEF ListOk, Chain, len
<1> HIDE DEF F, M
<1>5. {ring[i] : i \in 1..Len(ring)} = F /\ Slob!Cardinality(F) = Len(ring)
  <2>1. Elems(ring) = F /\ Cardinality(F) = Len(ring)
    BY <1>4, RingIs DEF M
  <2>2. {ring[i] : i \in 1..Len(ring)} = Elems(ring)
    BY DEF Elems
  <2> QED
    BY <2>1, <2>2, SlobCardinality
<1>6. Slob!Cardinality({a \in F : next[a] <= a}) = 1
  <2>1. Cardinality({a \in F : l.next[a] <= a}) = 1
    BY <1>4, OneWrap
  <2> QED
    BY <1>1, <2>1, SlobCardinality
<1>7. \A a \in F : a + units[a] # next[a]
  <2>1. \A a \in F : next[a] \in F
    BY <1>1, <1>4 DEF Round
  <2> QED
    BY <1>1, <1>4, <2>1 DEF Whole
<1> DEFINE K == F \cup A
<1>8. /\ K \subseteq 0..((M + 1) - 1) /\ V \subseteq 0..((M + 1) - 1)
      /\ \A h \in K : /\ units[h] \in Nat \ {0}
                      /\ \A x \in Nat : h <= x /\ x < h + units[h] => x \in V
      /\ \A h, k \in K : h < k => h + units[h] <= k
      /\ \A x \in V : \E h \in K : h <= x /\ x < h + units[h]
  BY <1>1, <1>4 DEF Parts
<1> HIDE DEF K
<1>9. \A h \in K : h \in Nat /\ units[h] \in Nat
  BY <1>4, <1>8
<1>10. ASSUME NEW a \in K, NEW b \in K, a # b PROVE Slob!Block(a) \cap Slob!Block(b) = {}
  <2>1. a \in Nat /\ b \in Nat /\ units[a] \in Nat /\ units[b] \in Nat
        /\ (a < b => a + units[a] <= b) /\ (b < a => b + units[b] <= a)
    BY <1>8, <1>9
  <2>2. ASSUME NEW x \in a..(a + units[a] - 1), x \in b..(b + units[b] - 1) PROVE FALSE
    BY <1>10, <2>1, <2>2
  <2> QED
    BY <2>2 DEF Slob!Block
<1>11. ASSUME NEW x PROVE x \in UNION {Slob!Block(a) : a \in K} <=> x \in V
  <2>1. ASSUME NEW a \in K, x \in Slob!Block(a) PROVE x \in V
    <3>1. x \in Nat /\ a <= x /\ x < a + units[a]
      BY <1>9, <2>1 DEF Slob!Block
    <3> QED
      BY <1>8, <3>1
  <2>2. ASSUME x \in V PROVE \E a \in K : x \in Slob!Block(a)
    <3>1. PICK h \in K : h <= x /\ x < h + units[h]
      BY <1>8, <2>2
    <3>2. x \in Nat
      BY <1>4, <1>8, <2>2
    <3>3. x \in h..(h + units[h] - 1)
      BY <1>9, <3>1, <3>2
    <3> QED
      BY <3>3 DEF Slob!Block
  <2>3. x \in UNION {Slob!Block(a) : a \in K} <=> \E a \in K : x \in Slob!Block(a)
    OBVIOUS
  <2> QED
    BY <2>1, <2>2, <2>3
<1>12. UNION {Slob!Block(a) : a \in K} = V
  <2> DEFINE S == UNION {Slob!Block(a) : a \in K}
  <2>1. \A x : x \in S <=> x \in V
    BY <1>11
  <2> HIDE DEF S
  <2>2. S = V
    BY <2>1
  <2> QED
    BY <2>2 DEF S
<1>13. Slob!Ring(Slob!List, slobfree) = ring /\ K = Slob!Free \cup allocated
  BY <1>2 DEF l, K
<1> HIDE DEF ring
<1>14. /\ {ring[i] : i \in 1..Len(ring)} = Slob!Free /\ Slob!Cardinality(Slob!Free) = Len(ring)
       /\ Slob!Cardinality({a \in Slob!Free : next[a] <= a}) = 1
       /\ \A a \in Slob!Free : a + units[a] # next[a]
  BY <1>2, <1>5, <1>6, <1>7
<1>15. \A a, b \in Slob!Free \cup allocated : a # b => Slob!Block(a) \cap Slob!Block(b) = {}
  BY <1>10, <1>13
<1>16. UNION {Slob!Block(a) : a \in Slob!Free \cup allocated}
          = {Slob!arena} \cup UNION {p..(p + PAGE_UNITS - 1) : p \in pages}
  BY <1>3, <1>12, <1>13
<1> QED
  BY <1>1, <1>13, <1>14, <1>15, <1>16 DEF Slob!SlobExact

-----------------------------------------------------------------------------
\* A step of kmalloc is one of the pool, or changes nothing there.
LEMMA SlobPool ==
    ASSUME manager = "slob", manager' = manager, SlobInv, Slob!Next
    PROVE  SlobInv' /\ Area' = Area /\ (Held' = Held \/ Pool!Allocate \/ Pool!Release)
<1>1. SlobInv' /\ (SlobHeld' = SlobHeld \/ \E b \in Nat, n \in Nat \ {0} : SlobMoves(b, n))
  BY SlobStep
<1>2. Area = SlobArea /\ Area' = SlobArea /\ SlobArea' = SlobArea /\ Held = SlobHeld /\ Held' = SlobHeld'
  <2>1. ~ IsFit /\ ~ IsFit' /\ manager # "buddy" /\ manager \notin {"cow", "load"}
    BY DEF IsFit
  <2> QED
    BY <2>1 DEF Area, Held, SlobArea, SlobHeld, PageAt
<1>3. IsFiniteSet(Area)
  <2> DEFINE S == 0..Slob!Top
  <2>1. ASSUME NEW x \in SlobArea PROVE x \in S
    <3>1. PICK p \in Slob!Pages : x \in PageAt(p)
      BY DEF SlobArea
    <3>2. p \in Nat /\ p + PAGE_UNITS <= Slob!Top + 1 /\ PAGE_UNITS \in Nat /\ Slob!Top \in Nat
      BY PageFacts
    <3> QED
      BY <3>1, <3>2 DEF PageAt
  <2>2. IsFiniteSet(S)
    BY PageFacts, FS_Interval
  <2>3. SlobArea \subseteq S
    BY <2>1
  <2> QED
    BY <1>2, <2>2, <2>3, FS_Subset
<1>4. ASSUME NEW b \in Nat, NEW n \in Nat \ {0}, SlobMoves(b, n) PROVE Pool!Allocate \/ Pool!Release
  <2> HIDE DEF Area, Held
  <2>1. b \in Int /\ Area' = Area
    BY <1>2
  <2>2. \/ b..(b + n - 1) \subseteq Area \ Held /\ Held' = Held \cup b..(b + n - 1)
        \/ Held \subseteq Area /\ b..(b + n - 1) \subseteq Held /\ Held' = Held \ b..(b + n - 1)
    BY <1>2, <1>4 DEF SlobMoves
  <2> QED
    BY <1>3, <2>1, <2>2, PoolStep
<1> QED
  BY <1>1, <1>2, <1>4

-----------------------------------------------------------------------------
\* Loading a program

\* A multiple of n
Multiple(a, n) == a \in Nat /\ a % n = 0

\* A product is one.
LEMMA Product ==
    ASSUME NEW n \in Nat \ {0}, NEW t \in Nat, NEW r, r = n * t
    PROVE  Multiple(r, n)
<1>1. r \in Nat
  OBVIOUS
<1>2. r % n = 0
  BY <1>1
<1> QED
  BY <1>1, <1>2 DEF Multiple

\* Rounding to a multiple, and the step from one multiple to the next.
LEMMA Rounded ==
    ASSUME NEW n \in Nat \ {0}, NEW a \in Nat
    PROVE  /\ Multiple(Load!RoundDown(a, n), n) /\ Load!RoundDown(a, n) <= a
           /\ a < Load!RoundDown(a, n) + n
           /\ Multiple(Load!RoundUp(a, n), n) /\ a <= Load!RoundUp(a, n)
           /\ Load!RoundUp(a, n) < a + n
<1>1. ASSUME NEW b \in Nat
      PROVE  /\ Multiple(Load!RoundDown(b, n), n) /\ Load!RoundDown(b, n) <= b
             /\ b < Load!RoundDown(b, n) + n
  <2>1. b \div n \in Nat /\ b % n \in 0..(n - 1) /\ b = n * (b \div n) + (b % n)
    OBVIOUS
  <2> DEFINE q == b \div n
             r == b - (b % n)
  <2>2. r = n * q /\ r \in Nat
    BY <2>1
  <2>3. q \in Nat
    BY <2>1
  <2> HIDE DEF q, r
  <2>4. Multiple(r, n)
    BY <2>2, <2>3, Product
  <2> QED
    BY <2>1, <2>4 DEF r, Load!RoundDown
<1>2. a + n - 1 \in Nat
  OBVIOUS
<1> DEFINE b == a + n - 1
<1>3. /\ Multiple(Load!RoundDown(b, n), n) /\ Load!RoundDown(b, n) <= b
      /\ b < Load!RoundDown(b, n) + n
  BY <1>1, <1>2
<1>4. Load!RoundUp(a, n) = Load!RoundDown(b, n) /\ Load!RoundDown(b, n) \in Nat
  BY <1>3 DEF Load!RoundUp, Multiple
<1> QED
  BY <1>1, <1>3, <1>4

\* Multiples are a multiple apart.
LEMMA NextMultiple ==
    ASSUME NEW n \in Nat \ {0}, NEW a, NEW b, Multiple(a, n), Multiple(b, n)
    PROVE  /\ a < b => a + n <= b
           /\ Multiple(a + n, n)
           /\ b <= a => Multiple(a - b, n)
<1>1. a \in Nat /\ b \in Nat
  BY DEF Multiple
<1> DEFINE p == a \div n
           q == b \div n
<1>2. p \in Nat /\ q \in Nat /\ a = n * p /\ b = n * q
  BY <1>1 DEF Multiple
<1> HIDE DEF p, q
<1>3. \A i, j \in Nat : i < j => n * i + n <= n * j
  OBVIOUS
<1>4. a < b => a + n <= b
  <2>1. p < q \/ p = q \/ q < p
    BY <1>2
  <2>2. q < p => n * q + n <= n * p
    BY <1>2, <1>3
  <2> QED
    BY <1>2, <1>3, <2>1, <2>2
<1>5. Multiple(a + n, n)
  <2> DEFINE t == p + 1
  <2>1. a + n = n * t /\ t \in Nat
    BY <1>2
  <2> HIDE DEF t
  <2> QED
    BY <2>1, Product
<1>6. ASSUME b <= a PROVE Multiple(a - b, n)
  <2>1. q <= p
    BY <1>2, <1>3, <1>6
  <2> DEFINE t == p - q
  <2>2. t \in Nat /\ n * t = n * p - n * q
    BY <1>2, <2>1
  <2> HIDE DEF t
  <2>3. a - b = n * t
    BY <1>2, <2>2
  <2> QED
    BY <2>2, <2>3, Product
<1> QED
  BY <1>4, <1>5, <1>6

-----------------------------------------------------------------------------
\* An area of a program
AnyArea == [vm_start : Nat, vm_end : Nat, vm_flags : SUBSET {"R", "W", "X", "STACK"}]

GoodArea(v) ==
    /\ v \in AnyArea /\ Multiple(v.vm_start, PGSIZE) /\ Multiple(v.vm_end, PGSIZE)
    /\ USERBASE <= v.vm_start /\ v.vm_start < v.vm_end /\ v.vm_end <= USTACKTOP

\* No address is in both.
AreasApart(v, w) == v.vm_end <= w.vm_start \/ w.vm_end <= v.vm_start

\* Areas in order, one behind the other
InOrder(list) ==
    /\ list \in Seq(AnyArea)
    /\ \A i \in 1..Len(list) : GoodArea(list[i])
    /\ \A i, j \in 1..Len(list) : i < j => list[i].vm_end <= list[j].vm_start

\* The constants
LEMMA LoadFacts ==
    /\ PGSIZE \in Nat \ {0} /\ WORD \in Nat \ {0} /\ USERBASE \in Nat \ {0}
    /\ USTACKTOP \in Nat \ {0} /\ USTACKSIZE \in Nat \ {0}
    /\ Multiple(USERBASE, PGSIZE) /\ Multiple(USTACKTOP, PGSIZE) /\ Multiple(USTACKSIZE, PGSIZE)
    /\ Multiple(USTACKTOP, WORD) /\ USERBASE < USTACKTOP - USTACKSIZE
    /\ STACK_PAGES * PGSIZE \in 1..USTACKSIZE
BY LoadArea DEF Load!LoadAssumption, Multiple

\* insert_vma_struct goes behind the last area that does not start after it.
LEMMA BeforeIs ==
    ASSUME NEW list, InOrder(list), NEW v, GoodArea(v)
    PROVE  LET b == Load!Before(list, v)
           IN  /\ b \in 0..Len(list) /\ \A i \in 1..b : list[i].vm_start <= v.vm_start
               /\ b < Len(list) => v.vm_start < list[b + 1].vm_start
<1> DEFINE n == Len(list)
           After == {i \in Nat : i \in 1..n /\ v.vm_start < list[i].vm_start}
           Is(b) == /\ \A i \in 1..b : list[i].vm_start <= v.vm_start
                    /\ b < n => v.vm_start < list[b + 1].vm_start
<1>1. n \in Nat /\ \A i \in 1..n : list[i].vm_start \in Nat
  BY DEF InOrder, GoodArea, AnyArea
<1>2. v.vm_start \in Nat
  BY DEF GoodArea, AnyArea
<1>3. \E b \in 0..n : Is(b)
  <2>1. CASE After = {}
    <3>1. Is(n)
      BY <1>1, <1>2, <2>1
    <3> QED
      BY <1>1, <3>1
  <2>2. CASE After # {}
    <3>1. PICK m \in After : \A i \in After : m <= i
      <4> HIDE DEF After
      <4>1. After \in SUBSET Nat
        BY DEF After
      <4> QED
        BY <2>2, <4>1, LeastNatural
    <3>2. m \in 1..n /\ v.vm_start < list[m].vm_start
      BY <3>1
    <3>3. \A i \in 1..(m - 1) : list[i].vm_start <= v.vm_start
      <4> SUFFICES ASSUME NEW i \in 1..(m - 1) PROVE list[i].vm_start <= v.vm_start
        OBVIOUS
      <4>1. i \in 1..n /\ i \in Nat /\ ~ (m <= i)
        BY <1>1, <3>2
      <4>2. i \notin After
        <5> HIDE DEF After
        <5> QED
          BY <3>1, <4>1
      <4> QED
        BY <1>1, <1>2, <4>1, <4>2
    <3>4. m - 1 \in 0..n /\ (m - 1) + 1 = m
      BY <1>1, <3>2
    <3>5. Is(m - 1)
      BY <3>2, <3>3, <3>4
    <3> QED
      BY <3>4, <3>5
  <2> QED
    BY <2>1, <2>2
<1>4. Load!Before(list, v) = CHOOSE b \in 0..n : Is(b)
  BY DEF Load!Before
<1> HIDE DEF Is
<1>5. Load!Before(list, v) \in 0..n /\ Is(Load!Before(list, v))
  BY <1>3, <1>4
<1> QED
  BY <1>5 DEF Is, n

\* An area that begins in no other and runs into none of its neighbours.
LEMMA InsertsInOrder ==
    ASSUME NEW list, InOrder(list), NEW v, GoodArea(v),
           \A w \in Elems(list) : ~ Load!In(w, v.vm_start), ~ Load!Overlaps(list, v)
    PROVE  /\ InOrder(Load!Insert(list, v)) /\ Elems(Load!Insert(list, v)) = Elems(list) \cup {v}
           /\ \A w \in Elems(list) : AreasApart(w, v)
<1> DEFINE n == Len(list)
           b == Load!Before(list, v)
           new == Load!Insert(list, v)
<1>1. /\ n \in Nat /\ list \in Seq(AnyArea) /\ \A i \in 1..n : list[i] \in AnyArea /\ GoodArea(list[i])
      /\ \A i \in 1..n : list[i].vm_start \in Nat /\ list[i].vm_end \in Nat
                         /\ list[i].vm_start < list[i].vm_end
  BY DEF InOrder, GoodArea, AnyArea
<1>2. v.vm_start \in Nat /\ v.vm_end \in Nat /\ v.vm_start < v.vm_end /\ v \in AnyArea
  BY DEF GoodArea, AnyArea
<1>3. /\ b \in 0..n /\ \A i \in 1..b : list[i].vm_start <= v.vm_start
      /\ b < n => v.vm_start < list[b + 1].vm_start
  BY BeforeIs
<1>4. new = [i \in 1..(n + 1) |-> IF i <= b THEN list[i] ELSE IF i = b + 1 THEN v ELSE list[i - 1]]
  BY DEF Load!Insert
<1>5. \A i, j \in 1..n : i < j => list[i].vm_end <= list[j].vm_start
  BY DEF InOrder
<1>6. ~ \E i \in 1..n : /\ i \in {b, b + 1}
                        /\ list[i].vm_start < v.vm_end /\ v.vm_start < list[i].vm_end
  <2>1. DOMAIN list = 1..n
    BY <1>1
  <2> QED
    BY <2>1 DEF Load!Overlaps
<1> HIDE DEF b, new
<1>7. ASSUME NEW i \in 1..n, i <= b PROVE list[i].vm_end <= v.vm_start
  <2>1. list[i] \in Elems(list) /\ i \in 1..b
    BY <1>3, <1>7 DEF Elems
  <2>2. list[i].vm_start <= v.vm_start /\ ~ (v.vm_start < list[i].vm_end)
    BY <1>3, <2>1 DEF Load!In
  <2> QED
    BY <1>1, <1>2, <2>2
<1>8. ASSUME NEW i \in 1..n, b < i PROVE v.vm_end <= list[i].vm_start
  <2> DEFINE k == b + 1
  <2>1. k \in 1..n /\ v.vm_start < list[k].vm_start
    BY <1>1, <1>3, <1>8
  <2>2. v.vm_end <= list[k].vm_start
    <3>1. list[k].vm_start \in Nat /\ list[k].vm_end \in Nat /\ list[k].vm_start < list[k].vm_end
      BY <1>1, <2>1
    <3> QED
      BY <1>2, <1>6, <2>1, <3>1
  <2>3. i = k \/ k < i
    BY <1>3, <1>8
  <2> HIDE DEF k
  <2>4. k < i => list[k].vm_end <= list[i].vm_start
    BY <1>5, <2>1
  <2>5. list[k].vm_start \in Nat /\ list[k].vm_end \in Nat /\ list[i].vm_start \in Nat
        /\ list[k].vm_start < list[k].vm_end
    BY <1>1, <2>1
  <2> QED
    BY <1>2, <2>2, <2>3, <2>4, <2>5
<1>9. \A w \in Elems(list) : AreasApart(w, v)
  <2> SUFFICES ASSUME NEW i \in 1..n PROVE AreasApart(list[i], v)
    BY DEF Elems
  <2> QED
    BY <1>3, <1>7, <1>8 DEF AreasApart
<1> DEFINE old(i) == IF i <= b THEN i ELSE i - 1
<1>10. \A i \in 1..(n + 1) : i # b + 1 => old(i) \in 1..n /\ new[i] = list[old(i)]
                                           /\ (i < b + 1 <=> old(i) <= b)
  BY <1>1, <1>3, <1>4
<1>11. b + 1 \in 1..(n + 1) /\ new[b + 1] = v
  BY <1>1, <1>3, <1>4
<1>12. new \in Seq(AnyArea) /\ Len(new) = n + 1
  <2>1. \A i \in 1..(n + 1) : new[i] \in AnyArea
    BY <1>1, <1>2, <1>10, <1>11
  <2>2. n + 1 \in Nat /\ DOMAIN new = 1..(n + 1)
    BY <1>1, <1>4
  <2>3. new = [i \in 1..(n + 1) |-> new[i]]
    BY <1>4
  <2> QED
    BY <2>1, <2>2, <2>3, FunctionList
<1>13. \A i \in 1..(n + 1) : GoodArea(new[i])
  BY <1>1, <1>10, <1>11
<1>14. ASSUME NEW i \in 1..(n + 1), NEW j \in 1..(n + 1), i < j
       PROVE  new[i].vm_end <= new[j].vm_start
  <2>1. CASE i = b + 1
    <3>1. j # b + 1 /\ ~ (j < b + 1)
      BY <1>14, <2>1
    <3>2. old(j) \in 1..n /\ new[j] = list[old(j)] /\ b < old(j)
      BY <1>3, <1>10, <3>1
    <3> QED
      BY <1>8, <1>11, <2>1, <3>2
  <2>2. CASE j = b + 1
    <3>1. i # b + 1 /\ i < b + 1
      BY <1>14, <2>2
    <3>2. old(i) \in 1..n /\ new[i] = list[old(i)] /\ old(i) <= b
      BY <1>10, <3>1
    <3> QED
      BY <1>7, <1>11, <2>2, <3>2
  <2>3. CASE i # b + 1 /\ j # b + 1
    <3>1. old(i) \in 1..n /\ old(j) \in 1..n /\ new[i] = list[old(i)] /\ new[j] = list[old(j)]
      BY <1>10, <2>3
    <3>2. old(i) < old(j)
      BY <1>1, <1>3, <1>14, <2>3
    <3> QED
      BY <1>5, <3>1, <3>2
  <2> QED
    BY <2>1, <2>2, <2>3
<1>15. InOrder(new)
  BY <1>12, <1>13, <1>14 DEF InOrder
<1>16. Elems(new) = Elems(list) \cup {v}
  <2>1. ASSUME NEW i \in 1..n PROVE \E j \in 1..(n + 1) : new[j] = list[i]
    <3> DEFINE j == IF i <= b THEN i ELSE i + 1
    <3>1. j \in 1..(n + 1) /\ j # b + 1 /\ old(j) = i
      BY <1>1, <1>3
    <3> HIDE DEF j
    <3> QED
      BY <1>10, <3>1
  <2>2. \A i \in 1..(n + 1) : new[i] = v \/ \E j \in 1..n : new[i] = list[j]
    BY <1>10, <1>11
  <2>3. \A x : x \in Elems(new) <=> \E j \in 1..(n + 1) : x = new[j]
    BY <1>12 DEF Elems
  <2>4. \A x : x \in Elems(list) <=> \E j \in 1..n : x = list[j]
    BY DEF Elems
  <2> HIDE DEF n
  <2>5. Elems(list) \subseteq Elems(new)
    BY <2>1, <2>3, <2>4
  <2>6. Elems(new) \subseteq Elems(list) \cup {v}
    BY <2>2, <2>3, <2>4
  <2>7. v \in Elems(new)
    BY <1>11, <2>3
  <2> QED
    BY <2>5, <2>6, <2>7
<1> QED
  BY <1>9, <1>15, <1>16 DEF new

\* dup_mmap puts each area before the ones it has copied.
LEMMA DupIs ==
    ASSUME NEW list, InOrder(list)
    PROVE  Load!DupMmap(list) = list
<1> DEFINE n == Len(list)
           Last(k) == [i \in 1..k |-> list[n - k + i]]
           Body(f) == [k \in 0..n |-> IF k = 0 THEN <<>>
                                      ELSE Load!Insert(f[k - 1], list[n + 1 - k])]
           to == CHOOSE f : f = Body(f)
           g == [k \in 0..n |-> Last(k)]
<1>1. /\ n \in Nat /\ list \in Seq(AnyArea) /\ DOMAIN list = 1..n
      /\ \A i \in 1..n : list[i] \in AnyArea /\ GoodArea(list[i])
      /\ \A i \in 1..n : list[i].vm_start \in Nat /\ list[i].vm_end \in Nat
                         /\ list[i].vm_start < list[i].vm_end
  BY DEF InOrder, GoodArea, AnyArea
<1>2. \A i, j \in 1..n : i < j => list[i].vm_start < list[j].vm_start
  BY <1>1 DEF InOrder
<1>3. Load!DupMmap(list) = to[n]
  BY DEF Load!DupMmap
<1>4. ASSUME NEW k \in 1..n PROVE Load!Insert(Last(k - 1), list[n + 1 - k]) = Last(k)
  <2> DEFINE s == Last(k - 1)
             v == list[n + 1 - k]
  <2>1. k - 1 \in Nat /\ n + 1 - k \in 1..n
    BY <1>1
  <2>2. /\ \A i \in 1..(k - 1) : s[i] = list[(n + 1 - k) + i] /\ (n + 1 - k) + i \in 1..n
        /\ DOMAIN s = 1..(k - 1)
    BY <1>1
  <2>3. s \in Seq(AnyArea) /\ Len(s) = k - 1
    <3>1. \A i \in 1..(k - 1) : s[i] \in AnyArea
      BY <1>1, <2>2
    <3>2. s \in [1..(k - 1) -> AnyArea]
      BY <3>1
    <3> HIDE DEF s
    <3> QED
      BY <2>1, <2>2, <3>2
  <2>4. \A i \in 1..(k - 1) : v.vm_start < s[i].vm_start
    BY <1>2, <2>1, <2>2
  <2> DEFINE Is(b) == /\ \A i \in 1..b : s[i].vm_start <= v.vm_start
                      /\ b < k - 1 => v.vm_start < s[b + 1].vm_start
  <2>5. v.vm_start \in Nat /\ \A i \in 1..(k - 1) : s[i].vm_start \in Nat
    BY <1>1, <2>1, <2>2
  <2> HIDE DEF s, v
  <2>6. Is(0)
    BY <2>1, <2>4
  <2>7. \A b \in 0..(k - 1) : Is(b) => b = 0
    <3> SUFFICES ASSUME NEW b \in 0..(k - 1), Is(b), b # 0 PROVE FALSE
      OBVIOUS
    <3>1. 1 \in 1..b /\ 1 \in 1..(k - 1)
      BY <2>1
    <3> QED
      BY <2>4, <2>5, <3>1
  <2>8. Load!Before(s, v) = CHOOSE b \in 0..(k - 1) : Is(b)
    BY <2>3 DEF Load!Before
  <2>9. 0 \in 0..(k - 1)
    BY <2>1
  <2> HIDE DEF Is
  <2>10. Load!Before(s, v) = 0
    BY <2>6, <2>7, <2>8, <2>9
  <2>11. Load!Insert(s, v) = [i \in 1..((k - 1) + 1) |-> IF i <= 0 THEN s[i]
                                 ELSE IF i = 0 + 1 THEN v ELSE s[i - 1]]
    BY <2>3, <2>10 DEF Load!Insert
  <2>12. \A i \in 1..k : i # 1 => i - 1 \in 1..(k - 1) /\ (n + 1 - k) + (i - 1) = (n - k) + i
    BY <1>1
  <2>13. \A i \in 1..k : (IF i <= 0 THEN s[i] ELSE IF i = 0 + 1 THEN v ELSE s[i - 1]) = list[(n - k) + i]
    <3> SUFFICES ASSUME NEW i \in 1..k
                 PROVE  (IF i = 1 THEN v ELSE s[i - 1]) = list[(n - k) + i]
      BY <2>1
    <3>1. CASE i = 1
      BY <1>1, <3>1 DEF v
    <3>2. CASE i # 1
      BY <2>2, <2>12, <3>2
    <3> QED
      BY <3>1, <3>2
  <2>14. (k - 1) + 1 = k
    BY <2>1
  <2> QED
    BY <2>11, <2>13, <2>14 DEF s, v
<1>5. g = Body(g)
  <2> SUFFICES ASSUME NEW k \in 0..n
               PROVE  Last(k) = IF k = 0 THEN <<>> ELSE Load!Insert(g[k - 1], list[n + 1 - k])
    OBVIOUS
  <2>1. CASE k = 0
    BY <1>1, <2>1
  <2>2. CASE k # 0
    <3>1. k \in 1..n /\ k - 1 \in 0..n
      BY <1>1, <2>2
    <3>2. g[k - 1] = Last(k - 1)
      BY <3>1
    <3> HIDE DEF g, Last
    <3> QED
      BY <1>4, <2>2, <3>1, <3>2
  <2> QED
    BY <2>1, <2>2
<1>6. to = Body(to)
  <2> HIDE DEF g
  <2> QED
    BY <1>5
<1> HIDE DEF to, Last, g
<1> DEFINE I == {k \in Nat : k <= n => to[k] = Last(k)}
<1>7. 0 \in I
  BY <1>1, <1>6 DEF Last
<1>8. ASSUME NEW k \in Nat, k \in I PROVE k + 1 \in I
  <2> SUFFICES ASSUME k + 1 <= n PROVE to[k + 1] = Last(k + 1)
    OBVIOUS
  <2>1. k + 1 \in 0..n /\ k + 1 # 0 /\ (k + 1) - 1 = k /\ k + 1 \in 1..n /\ to[k] = Last(k)
    BY <1>1, <1>8
  <2>2. to[k + 1] = Load!Insert(to[k], list[n + 1 - (k + 1)])
    BY <1>6, <2>1
  <2> QED
    BY <1>4, <2>1, <2>2
<1>9. Nat \subseteq I
  <2> HIDE DEF I
  <2> QED
    BY <1>7, <1>8, NatInd
<1>10. to[n] = Last(n)
  BY <1>1, <1>9
<1>11. Last(n) = list
  <2>1. \A i \in 1..n : (n - n) + i = i
    BY <1>1
  <2>2. Last(n) = [i \in 1..n |-> list[i]]
    BY <2>1 DEF Last
  <2>3. list = [i \in DOMAIN list |-> list[i]]
    BY <1>1
  <2> QED
    BY <1>1, <2>2, <2>3
<1> QED
  BY <1>3, <1>10, <1>11

-----------------------------------------------------------------------------
\* The area of an address holds its other addresses too.
LEMMA FoundIs ==
    ASSUME InOrder(mmap_list), NEW a \in Nat, NEW v \in Load!Found(a)
    PROVE  /\ GoodArea(v) /\ v.vm_start \in Nat /\ v.vm_end \in Nat
           /\ v.vm_start <= a /\ a < v.vm_end /\ v.vm_end <= USTACKTOP
           /\ \A x \in Nat : v.vm_start <= x /\ x < v.vm_end => v \in Load!Found(x)
<1>1. v \in Elems(mmap_list) /\ Load!In(v, a)
  BY DEF Load!Found, Load!Elems, Elems
<1>2. GoodArea(v) /\ v.vm_start \in Nat /\ v.vm_end \in Nat
  BY <1>1 DEF InOrder, Elems, GoodArea, AnyArea
<1>3. \A x \in Nat : v.vm_start <= x /\ x < v.vm_end => v \in Load!Found(x)
  BY <1>1 DEF Load!Found, Load!In, Load!Elems, Elems
<1> QED
  BY <1>1, <1>2, <1>3 DEF Load!In, GoodArea

\* user_mem_check goes from area to area, and looks at each address of the range
\* that way.
LEMMA UserMemCheckIs ==
    ASSUME InOrder(mmap_list), NEW addr \in Nat, NEW len \in Nat \ {0}, NEW write \in BOOLEAN,
           USERBASE <= addr, addr + len <= USTACKTOP
    PROVE  Load!UserMemCheck(addr, len, write) <=>
              \A x \in addr..(addr + len - 1) : Load!Allowed(x, write)
<1> DEFINE T == USTACKTOP
           end == addr + len
           Lets(v, a) == /\ (IF write THEN "W" ELSE "R") \in v.vm_flags
                         /\ write /\ "STACK" \in v.vm_flags => a >= v.vm_start + PGSIZE
           G(a) == \A x \in a..(end - 1) : Load!Allowed(x, write)
           Body(f) == [a \in addr..T |-> a >= end \/ \E v \in Load!Found(a) : Lets(v, a) /\ f[v.vm_end]]
           ok == CHOOSE f : f = Body(f)
           g == [a \in addr..T |-> G(a)]
<1>1. T \in Nat /\ end \in Nat /\ addr < end /\ end <= T /\ PGSIZE \in Nat
  BY LoadFacts
<1>2. Load!UserMemCheck(addr, len, write) <=> ok[addr]
  <2>1. Load!USER_ACCESS(addr, addr + len)
    BY <1>1, LoadFacts DEF Load!USER_ACCESS
  <2>2. Load!UserMemCheck(addr, len, write) <=> Load!USER_ACCESS(addr, addr + len) /\ ok[addr]
    BY DEF Load!UserMemCheck
  <2> QED
    BY <2>1, <2>2
<1>3. \A x : Load!Allowed(x, write) <=> \E v \in Load!Found(x) : Lets(v, x)
  BY DEF Load!Allowed
<1>4. ASSUME NEW a \in addr..T, NEW v \in Load!Found(a)
      PROVE  /\ v.vm_end \in addr..T /\ a < v.vm_end
             /\ \A x \in Nat : a <= x /\ x < v.vm_end => v \in Load!Found(x)
             /\ \A x \in Nat : a <= x /\ Lets(v, a) => Lets(v, x)
  <2>1. a \in Nat
    BY <1>1
  <2>2. /\ v.vm_start \in Nat /\ v.vm_end \in Nat
        /\ v.vm_start <= a /\ a < v.vm_end /\ v.vm_end <= T
        /\ \A x \in Nat : v.vm_start <= x /\ x < v.vm_end => v \in Load!Found(x)
    BY <2>1, FoundIs
  <2>3. \A x \in Nat : a <= x => v.vm_start <= x
    BY <2>1, <2>2
  <2>4. \A x \in Nat : a <= x /\ a >= v.vm_start + PGSIZE => x >= v.vm_start + PGSIZE
    BY <1>1, <2>1, <2>2
  <2> QED
    BY <1>1, <2>1, <2>2, <2>3, <2>4
<1> HIDE DEF Lets, T, end
<1>5. ASSUME NEW a \in addr..T, a < end
      PROVE  G(a) <=> \E v \in Load!Found(a) : Lets(v, a) /\ G(v.vm_end)
  <2>0. a \in Nat /\ a \in a..(end - 1)
    BY <1>1, <1>5
  <2>1. ASSUME G(a) PROVE \E v \in Load!Found(a) : Lets(v, a) /\ G(v.vm_end)
    <3>1. PICK v \in Load!Found(a) : Lets(v, a)
      BY <1>3, <2>0, <2>1
    <3>2. \A x \in v.vm_end..(end - 1) : x \in a..(end - 1)
      BY <1>1, <1>4, <2>0
    <3> QED
      BY <2>1, <3>1, <3>2
  <2>2. ASSUME NEW v \in Load!Found(a), Lets(v, a), G(v.vm_end) PROVE G(a)
    <3> SUFFICES ASSUME NEW x \in a..(end - 1) PROVE Load!Allowed(x, write)
      OBVIOUS
    <3>1. x \in Nat /\ a <= x
      BY <1>1, <2>0
    <3>2. CASE x < v.vm_end
      BY <1>3, <1>4, <2>2, <3>1, <3>2
    <3>3. CASE ~ (x < v.vm_end)
      <4>1. x \in v.vm_end..(end - 1)
        BY <1>1, <1>4, <3>1, <3>3
      <4> QED
        BY <2>2, <4>1
    <3> QED
      BY <3>2, <3>3
  <2> QED
    BY <2>1, <2>2
<1>6. \A a \in addr..T : a >= end => G(a)
  BY <1>1
<1> HIDE DEF G
<1>7. g = Body(g)
  <2> SUFFICES ASSUME NEW a \in addr..T
               PROVE  G(a) <=> (a >= end \/ \E v \in Load!Found(a) : Lets(v, a) /\ g[v.vm_end])
    BY DEF G
  <2>1. \A v \in Load!Found(a) : g[v.vm_end] = G(v.vm_end)
    BY <1>4
  <2>2. a < end \/ a >= end
    BY <1>1
  <2> HIDE DEF g
  <2> QED
    BY <1>5, <1>6, <2>1, <2>2
<1>8. ok = Body(ok)
  <2> HIDE DEF g
  <2> QED
    BY <1>7
<1> HIDE DEF ok, g
<1>9. \A a \in addr..T : ok[a] <=> (a >= end \/ \E v \in Load!Found(a) : Lets(v, a) /\ ok[v.vm_end])
  BY <1>8
<1> DEFINE I == {k \in Nat : \A a \in addr..T : T - a <= k => (ok[a] <=> G(a))}
<1>10. 0 \in I
  <2> SUFFICES ASSUME NEW a \in addr..T, T - a <= 0 PROVE ok[a] <=> G(a)
    OBVIOUS
  <2>1. a >= end
    BY <1>1
  <2> QED
    BY <1>6, <1>9, <2>1
<1>11. ASSUME NEW k \in Nat, k \in I PROVE k + 1 \in I
  <2> SUFFICES ASSUME NEW a \in addr..T, T - a <= k + 1 PROVE ok[a] <=> G(a)
    OBVIOUS
  <2>1. ASSUME NEW v \in Load!Found(a) PROVE ok[v.vm_end] <=> G(v.vm_end)
    <3>1. v.vm_end \in addr..T /\ a < v.vm_end
      BY <1>4
    <3>2. T - v.vm_end <= k
      BY <1>1, <3>1
    <3> QED
      BY <1>11, <3>1, <3>2
  <2>2. a < end \/ a >= end
    BY <1>1
  <2> HIDE DEF I
  <2> QED
    BY <1>5, <1>6, <1>9, <2>1, <2>2
<1>12. Nat \subseteq I
  <2> HIDE DEF I
  <2> QED
    BY <1>10, <1>11, NatInd
<1>13. ok[addr] <=> G(addr)
  <2>1. T - addr \in Nat /\ addr \in addr..T
    BY <1>1
  <2> QED
    BY <1>12, <2>1
<1> QED
  BY <1>2, <1>13 DEF G, end

\* An address from which a system call may read has its page to read.
LEMMA PageRead ==
    ASSUME InOrder(mmap_list), NEW s \in Nat, NEW part \in Nat \ {0},
           s + part <= Load!RoundDown(s + PGSIZE, PGSIZE), USERBASE <= s
    PROVE  /\ Load!UserMemCheck(s, part, FALSE) <=> Load!Allowed(s, FALSE)
           /\ \A x \in s..(s + part - 1) : Load!Allowed(x, FALSE) <=> Load!Allowed(s, FALSE)
<1> DEFINE top == Load!RoundDown(s + PGSIZE, PGSIZE)
<1>1. /\ Multiple(top, PGSIZE) /\ top \in Nat /\ top <= s + PGSIZE /\ s < top
      /\ PGSIZE \in Nat \ {0} /\ USTACKTOP \in Nat /\ Multiple(USTACKTOP, PGSIZE)
  <2>1. s + PGSIZE \in Nat /\ PGSIZE \in Nat \ {0}
    BY LoadFacts
  <2>2. Multiple(top, PGSIZE) /\ top <= s + PGSIZE /\ s + PGSIZE < top + PGSIZE
    BY <2>1, Rounded
  <2> HIDE DEF top
  <2> QED
    BY <2>1, <2>2, LoadFacts DEF Multiple
<1>2. s + part <= top
  OBVIOUS
<1> HIDE DEF top
<1>3. \A m : Multiple(m, PGSIZE) => m \in Nat /\ (s < m => top <= m) /\ (m < top => m <= s)
  <2> SUFFICES ASSUME NEW m, Multiple(m, PGSIZE) PROVE m \in Nat /\ (s < m => top <= m) /\ (m < top => m <= s)
    OBVIOUS
  <2>1. m \in Nat
    BY DEF Multiple
  <2>2. m < top => m + PGSIZE <= top
    BY <1>1, NextMultiple
  <2> QED
    BY <1>1, <2>1, <2>2
<1>4. \A x : Load!Allowed(x, FALSE) <=> \E v \in Load!Found(x) : "R" \in v.vm_flags
  BY DEF Load!Allowed
<1>5. ASSUME NEW x \in s..(s + part - 1), NEW y \in s..(s + part - 1), NEW v \in Load!Found(x)
      PROVE  v \in Load!Found(y) /\ y < USTACKTOP
  <2>1. x \in Nat /\ y \in Nat /\ s <= x /\ x < top /\ s <= y /\ y < top
    BY <1>1, <1>2
  <2>2. /\ GoodArea(v) /\ v.vm_start \in Nat /\ v.vm_end \in Nat
        /\ v.vm_start <= x /\ x < v.vm_end /\ v.vm_end <= USTACKTOP
        /\ \A z \in Nat : v.vm_start <= z /\ z < v.vm_end => v \in Load!Found(z)
    BY <2>1, FoundIs
  <2>3. Multiple(v.vm_start, PGSIZE) /\ Multiple(v.vm_end, PGSIZE)
    BY <2>2 DEF GoodArea
  <2>4. v.vm_start < top /\ s < v.vm_end
    BY <1>1, <2>1, <2>2
  <2>5. v.vm_start <= s /\ top <= v.vm_end
    BY <1>3, <2>3, <2>4
  <2> QED
    BY <1>1, <2>1, <2>2, <2>5
<1>6. s \in s..(s + part - 1)
  OBVIOUS
<1>7. \A x \in s..(s + part - 1) : Load!Allowed(x, FALSE) <=> Load!Allowed(s, FALSE)
  BY <1>4, <1>5, <1>6
<1>8. CASE s < USTACKTOP
  <2>1. top <= USTACKTOP
    BY <1>1, <1>3, <1>8
  <2>2. s + part <= USTACKTOP
    BY <1>1, <1>2, <2>1
  <2>3. Load!UserMemCheck(s, part, FALSE) <=> \A x \in s..(s + part - 1) : Load!Allowed(x, FALSE)
    BY <2>2, UserMemCheckIs
  <2> QED
    BY <1>6, <1>7, <2>3
<1>9. CASE ~ (s < USTACKTOP)
  <2>1. ~ Load!Allowed(s, FALSE)
    BY <1>4, <1>5, <1>6, <1>9
  <2>2. ~ Load!USER_ACCESS(s, s + part)
    BY <1>1, <1>9 DEF Load!USER_ACCESS
  <2>3. ~ Load!UserMemCheck(s, part, FALSE)
    BY <2>2 DEF Load!UserMemCheck
  <2> QED
    BY <1>7, <2>1, <2>3
<1> QED
  BY <1>7, <1>8, <1>9

\* copy_string goes from page to page, as far as the end of the string.
LEMMA CopyStringIs ==
    ASSUME InOrder(mmap_list), NEW src \in Nat, USERBASE <= src, NEW maxn \in Nat \ {0},
           NEW end \in src..(src + maxn)
    PROVE  Load!CopyString(src, end, maxn) <=>
              end < src + maxn /\ \A x \in src..end : Load!Allowed(x, FALSE)
<1> DEFINE L == src + maxn
           rest(s) == Load!RoundDown(s + PGSIZE, PGSIZE) - s
           part(s) == IF rest(s) > L - s THEN L - s ELSE rest(s)
           A(x) == Load!Allowed(x, FALSE)
           U(s) == Load!UserMemCheck(s, part(s), FALSE)
           G(s) == end < L /\ \A x \in s..end : A(x)
           Is(s, more) == /\ U(s)
                          /\ end < s + part(s) \/ (part(s) # L - s /\ more)
           Body(f) == [s \in src..(L - 1) |-> Is(s, f[s + part(s)])]
           ok == CHOOSE f : f = Body(f)
           g == [s \in src..(L - 1) |-> IF s <= end THEN G(s) ELSE Is(s, FALSE)]
<1>1. L \in Nat /\ end \in Nat /\ src < L /\ PGSIZE \in Nat \ {0} /\ src <= end /\ end <= L
  BY LoadFacts
<1>2. Load!CopyString(src, end, maxn) = ok[src]
  BY DEF Load!CopyString
<1>3. ASSUME NEW s \in src..(L - 1)
      PROVE  /\ part(s) \in Nat \ {0} /\ s + part(s) <= L
             /\ s + part(s) <= Load!RoundDown(s + PGSIZE, PGSIZE)
             /\ (part(s) = L - s <=> s + part(s) = L)
  <2> DEFINE top == Load!RoundDown(s + PGSIZE, PGSIZE)
  <2>1. s \in Nat /\ s + PGSIZE \in Nat /\ s < L
    BY <1>1
  <2>2. top \in Nat /\ s + PGSIZE < top + PGSIZE
    BY <1>1, <2>1, Rounded DEF Multiple
  <2> HIDE DEF top
  <2>3. top - s \in Nat \ {0} /\ L - s \in Nat \ {0}
    BY <1>1, <2>1, <2>2
  <2>4. part(s) = IF top - s > L - s THEN L - s ELSE top - s
    BY DEF top
  <2> HIDE DEF L, part
  <2> QED
    BY <1>1, <2>1, <2>2, <2>3, <2>4 DEF top
<1> HIDE DEF L, part
<1>4. ASSUME NEW s \in src..(L - 1)
      PROVE  (U(s) <=> A(s)) /\ \A x \in s..(s + part(s) - 1) : A(x) <=> A(s)
  <2>1. s \in Nat /\ USERBASE <= s
    BY <1>1, LoadFacts
  <2>2. part(s) \in Nat \ {0} /\ s + part(s) <= Load!RoundDown(s + PGSIZE, PGSIZE)
    BY <1>3
  <2> DEFINE q == part(s)
  <2> HIDE DEF q
  <2>3. /\ Load!UserMemCheck(s, q, FALSE) <=> Load!Allowed(s, FALSE)
        /\ \A x \in s..(s + q - 1) : Load!Allowed(x, FALSE) <=> Load!Allowed(s, FALSE)
    BY <2>1, <2>2, PageRead DEF q
  <2> QED
    BY <2>3 DEF q
<1> HIDE DEF A, U
<1>5. ASSUME NEW s \in src..(L - 1), s <= end
      PROVE  /\ G(s) <=> Is(s, s + part(s) \in src..(L - 1) /\ G(s + part(s)))
             /\ ~ (end < s + part(s)) /\ part(s) # L - s =>
                  s + part(s) \in src..(L - 1) /\ s + part(s) <= end
  <2> DEFINE t == s + part(s)
  <2>1. /\ s \in Nat /\ t \in Nat /\ s < t /\ t <= L /\ (part(s) = L - s <=> t = L)
        /\ (U(s) <=> A(s)) /\ \A x \in s..(t - 1) : A(x) <=> A(s)
    <3>1. s \in Nat /\ part(s) \in Nat \ {0} /\ t <= L /\ (part(s) = L - s <=> t = L)
      BY <1>1, <1>3
    <3>2. s..(s + part(s) - 1) = s..(t - 1)
      BY <3>1
    <3>3. (U(s) <=> A(s)) /\ \A x \in s..(t - 1) : A(x) <=> A(s)
      BY <1>4, <3>2
    <3>4. t \in Nat /\ s < t
      BY <3>1
    <3> QED
      BY <3>1, <3>3, <3>4
  <2>2. Is(s, t \in src..(L - 1) /\ G(t)) <=>
          A(s) /\ (end < t \/ (t # L /\ t \in src..(L - 1) /\ G(t)))
    BY <2>1
  <2> HIDE DEF t, Is
  <2>3. G(s) <=> end < L /\ \A x \in s..end : A(x)
    OBVIOUS
  <2>4. G(t) <=> end < L /\ \A x \in t..end : A(x)
    OBVIOUS
  <2> HIDE DEF G
  <2>5. CASE end < t
    <3>1. end < L /\ \A x \in s..end : A(x) <=> A(s)
      BY <1>1, <1>5, <2>1, <2>5
    <3>2. s \in s..end
      BY <1>1, <1>5, <2>1
    <3>3. G(s) <=> A(s)
      BY <2>3, <3>1, <3>2
    <3> QED
      BY <2>2, <2>5, <3>3 DEF t
  <2>6. CASE ~ (end < t) /\ t = L
    <3>1. ~ (end < L)
      BY <2>6
    <3> QED
      BY <2>1, <2>2, <2>3, <2>6, <3>1 DEF t
  <2>7. CASE ~ (end < t) /\ t # L
    <3>1. t \in src..(L - 1) /\ t <= end /\ s \in s..(t - 1) /\ \A x \in s..(t - 1) : x \in s..end
      BY <1>1, <2>1, <2>7
    <3>2. \A x \in s..end : x \in s..(t - 1) \/ x \in t..end
      BY <1>1, <2>1
    <3>3. \A x \in t..end : x \in s..end
      BY <1>1, <2>1
    <3>4. G(s) <=> A(s) /\ G(t)
      BY <2>1, <2>3, <2>4, <3>1, <3>2, <3>3
    <3> QED
      BY <2>2, <2>7, <3>1, <3>4 DEF t
  <2> QED
    BY <2>5, <2>6, <2>7
<1>6. ASSUME NEW s \in src..(L - 1), ~ (s <= end), NEW more \in BOOLEAN
      PROVE  Is(s, more) <=> Is(s, FALSE)
  <2>1. end < s + part(s)
    BY <1>1, <1>3, <1>6
  <2> QED
    BY <2>1
<1>7. g = Body(g)
  <2> SUFFICES ASSUME NEW s \in src..(L - 1)
               PROVE  (IF s <= end THEN G(s) ELSE Is(s, FALSE)) = Is(s, g[s + part(s)])
    OBVIOUS
  <2>1. CASE s <= end
    <3>1. s + part(s) \in src..(L - 1) /\ s + part(s) <= end => g[s + part(s)] = G(s + part(s))
      OBVIOUS
    <3>2. CASE end < s + part(s)
      BY <1>5, <2>1, <3>2
    <3>3. CASE ~ (end < s + part(s)) /\ part(s) = L - s
      BY <1>5, <2>1, <3>3
    <3>4. CASE ~ (end < s + part(s)) /\ part(s) # L - s
      <4>1. g[s + part(s)] = G(s + part(s)) /\ s + part(s) \in src..(L - 1)
        BY <1>5, <2>1, <3>1, <3>4
      <4>2. Is(s, g[s + part(s)]) <=> Is(s, s + part(s) \in src..(L - 1) /\ G(s + part(s)))
        BY <4>1
      <4>3. G(s) <=> Is(s, s + part(s) \in src..(L - 1) /\ G(s + part(s)))
        BY <1>5, <2>1
      <4>4. G(s) <=> Is(s, g[s + part(s)])
        <5> HIDE DEF g, G, Is
        <5> QED
          BY <4>2, <4>3, Zenon
      <4>5. G(s) \in BOOLEAN /\ Is(s, g[s + part(s)]) \in BOOLEAN
        OBVIOUS
      <4> HIDE DEF g, G, Is
      <4> QED
        BY <2>1, <4>4, <4>5
    <3> QED
      BY <3>2, <3>3, <3>4
  <2>2. CASE ~ (s <= end)
    <3>1. end < s + part(s)
      BY <1>1, <1>3, <2>2
    <3>2. Is(s, FALSE) <=> Is(s, g[s + part(s)])
      BY <3>1
    <3> HIDE DEF g, G
    <3> QED
      BY <2>2, <3>2
  <2> QED
    BY <2>1, <2>2
<1>8. ok = Body(ok)
  <2> HIDE DEF g
  <2> QED
    BY <1>7
<1> HIDE DEF ok, g, G
<1>9. \A s \in src..(L - 1) : ok[s] \in BOOLEAN /\ (ok[s] <=> Is(s, ok[s + part(s)]))
  BY <1>8
<1> HIDE DEF Is
<1> DEFINE I == {k \in Nat : \A s \in src..(L - 1) : s <= end /\ L - s <= k => (ok[s] <=> G(s))}
<1>10. 0 \in I
  <2>1. \A s \in src..(L - 1) : ~ (L - s <= 0)
    BY <1>1
  <2> QED
    BY <2>1
<1>11. ASSUME NEW k \in Nat, k \in I PROVE k + 1 \in I
  <2> SUFFICES ASSUME NEW s \in src..(L - 1), s <= end, L - s <= k + 1 PROVE ok[s] <=> G(s)
    OBVIOUS
  <2> DEFINE t == s + part(s)
  <2>0. /\ G(s) <=> Is(s, t \in src..(L - 1) /\ G(t))
        /\ ~ (end < t) /\ part(s) # L - s => t \in src..(L - 1) /\ t <= end
    BY <1>5
  <2>1. ok[s] <=> Is(s, ok[t])
    BY <1>9
  <2>2. s < t /\ t \in Nat
    BY <1>1, <1>3
  <2>3. t \in src..(L - 1) /\ t <= end => (ok[t] <=> G(t))
    <3> HIDE DEF t
    <3>1. t \in src..(L - 1) => L - t <= k
      BY <1>1, <2>2
    <3> QED
      BY <1>11, <3>1
  <2>4. end < t \/ part(s) = L - s \/ (t \in src..(L - 1) /\ t <= end)
    BY <2>0
  <2> HIDE DEF I
  <2>5. CASE end < t
    BY <2>0, <2>1, <2>5 DEF Is
  <2>6. CASE ~ (end < t) /\ part(s) = L - s
    BY <2>0, <2>1, <2>6 DEF Is
  <2>7. CASE t \in src..(L - 1) /\ t <= end
    BY <2>0, <2>1, <2>3, <2>7 DEF Is
  <2> QED
    BY <2>4, <2>5, <2>6, <2>7
<1>12. Nat \subseteq I
  <2> HIDE DEF I
  <2> QED
    BY <1>10, <1>11, NatInd
<1>13. ASSUME src \in src..(L - 1)
       PROVE  Load!CopyString(src, end, maxn) <=>
                 end < L /\ \A x \in src..end : Load!Allowed(x, FALSE)
  <2>1. L - src \in Nat /\ src <= end
    BY <1>1
  <2>2. ok[src] <=> G(src)
    BY <1>12, <1>13, <2>1
  <2>3. ok[src] \in BOOLEAN
    BY <1>9, <1>13
  <2> QED
    BY <1>2, <2>2, <2>3 DEF G, A
<1>14. src \in src..(L - 1)
  <2>1. src <= L - 1
    BY <1>1
  <2> QED
    BY <2>1
<1>15. src + maxn = L
  BY DEF L
<1> HIDE DEF L
<1> QED
  BY <1>13, <1>14, <1>15

\* Areas in order give exact answers.
LEMMA InOrderIsExact ==
    ASSUME InOrder(mmap_list) PROVE Load!AreasExact
<1>1. /\ USERBASE \in Nat \ {0} /\ USTACKTOP \in Nat \ {0} /\ PGSIZE \in Nat \ {0}
      /\ Len(mmap_list) \in Nat
  BY LoadFacts DEF InOrder
<1>2. \A i \in 1..(Len(mmap_list) - 1) : mmap_list[i].vm_end <= mmap_list[i + 1].vm_start
  <2> SUFFICES ASSUME NEW i \in 1..(Len(mmap_list) - 1)
               PROVE  mmap_list[i].vm_end <= mmap_list[i + 1].vm_start
    OBVIOUS
  <2>1. i \in 1..Len(mmap_list) /\ i + 1 \in 1..Len(mmap_list) /\ i < i + 1
    BY <1>1
  <2> QED
    BY <2>1 DEF InOrder
<1>3. Load!DupMmap(mmap_list) = mmap_list
  BY DupIs
<1>4. ASSUME NEW from \in USERBASE..(USTACKTOP - 1), NEW write \in BOOLEAN,
             NEW to \in (from + 1)..USTACKTOP
      PROVE  Load!UserMemCheck(from, to - from, write) <=>
                \A x \in from..(to - 1) : Load!Allowed(x, write)
  <2> DEFINE len == to - from
  <2>1. from \in Nat /\ len \in Nat \ {0} /\ USERBASE <= from /\ from + len = to /\ to <= USTACKTOP
    BY <1>1
  <2> HIDE DEF len
  <2>2. Load!UserMemCheck(from, len, write) <=> \A x \in from..(from + len - 1) : Load!Allowed(x, write)
    BY <2>1, UserMemCheckIs
  <2>3. from + len - 1 = to - 1
    BY <2>1
  <2> QED
    BY <2>2, <2>3 DEF len
<1>5. ASSUME NEW src \in USERBASE..(USTACKTOP - 1), NEW maxn \in 1..(2 * PGSIZE + 1),
             NEW end \in src..(src + maxn)
      PROVE  Load!CopyString(src, end, maxn) <=>
                end < src + maxn /\ \A x \in src..end : Load!Allowed(x, FALSE)
  <2>1. src \in Nat /\ USERBASE <= src /\ maxn \in Nat \ {0}
    BY <1>1
  <2> QED
    BY <2>1, CopyStringIs
<1> QED
  BY <1>2, <1>3, <1>4, <1>5 DEF Load!AreasExact

-----------------------------------------------------------------------------
\* What writing to memory changes
LEMMA PutIs ==
    ASSUME NEW m, NEW a \in Nat, NEW s, NEW n \in Int, DOMAIN s = 1..n,
           \A x \in DOMAIN m : x \in Nat
    PROVE  /\ DOMAIN Load!Put(m, a, s) = DOMAIN m
           /\ \A x \in DOMAIN m : Load!Put(m, a, s)[x] =
                 IF a <= x /\ x < a + n THEN s[x - a + 1] ELSE m[x]
<1>1. Load!Put(m, a, s) = [x \in DOMAIN m |-> IF x - a + 1 \in DOMAIN s THEN s[x - a + 1] ELSE m[x]]
  BY DEF Load!Put
<1>2. \A x \in DOMAIN m : x - a + 1 \in 1..n <=> a <= x /\ x < a + n
  OBVIOUS
<1> QED
  BY <1>1, <1>2

\* What a program p has of its file when list are its areas and m its memory:
\* segment k has an area of its own, byte j of it is right, and so are the first
\* n segments.
SegArea(p, k) == Load!Area(p[k].va, p[k].memsz, p[k].flags)

Placed(p, list, k) == SegArea(p, k) \in Elems(list) /\ p[k].filesz <= p[k].memsz

Right(p, m, k, j) ==
    /\ p[k].va + j \in DOMAIN m
    /\ m[p[k].va + j] = IF j < p[k].filesz THEN Load!Cell("file", k, j) ELSE Load!Zero

Done(p, list, m, n) ==
    \A k \in 1..n : Placed(p, list, k) /\ \A j \in 0..(p[k].memsz - 1) : Right(p, m, k, j)

\* Segment g has its bytes up to a, of those before end, and l is the next page
\* or the one that a is in.
Filling(p, list, m, g, a, l, end) ==
    /\ g \in 1..Len(p) /\ Done(p, list, m, g - 1) /\ Placed(p, list, g)
    /\ \A k \in 1..(g - 1) : AreasApart(SegArea(p, k), SegArea(p, g))
    /\ a \in Nat /\ Multiple(l, PGSIZE) /\ p[g].va <= a /\ a <= end
    /\ \/ a = p[g].va /\ l = Load!RoundDown(p[g].va, PGSIZE)
       \/ a = l
       \/ a = end /\ a <= l
    /\ \A j \in 0..(p[g].memsz - 1) : p[g].va + j < a => Right(p, m, g, j)

\* Every page lies in an area.
Mapped(list, m) == \A x \in DOMAIN m : x \in Nat /\ \E v \in Elems(list) : Load!In(v, x)

StackAt == Load!Area(USTACKTOP - USTACKSIZE, USTACKSIZE, {"R", "W", "STACK"})

LoadInv ==
    /\ program \in Program /\ kargv \in Kargv /\ seg \in Nat \ {0}
    /\ InOrder(mmap_list) /\ Mapped(mmap_list, mem)
    /\ phase = "segment" => seg \in 1..(Len(program) + 1) /\ Done(program, mmap_list, mem, seg - 1)
    /\ phase = "file" => Filling(program, mmap_list, mem, seg, start, la,
                                 program[seg].va + program[seg].filesz)
    /\ phase = "bss" => /\ Filling(program, mmap_list, mem, seg, start, la,
                                   program[seg].va + program[seg].memsz)
                        /\ program[seg].va + program[seg].filesz <= start
    /\ phase = "args" => \A k \in 1..Len(program) : AreasApart(SegArea(program, k), StackAt)
    /\ phase \in {"args", "done"} => Done(program, mmap_list, mem, Len(program))

\* A segment of a program, and the area it is given
LEMMA SegmentIs ==
    ASSUME NEW p \in Program, NEW k \in 1..Len(p)
    PROVE  /\ Len(p) \in Nat /\ p[k].va \in Nat /\ p[k].filesz \in Nat /\ p[k].memsz \in Nat
           /\ p[k].flags \in SUBSET {"R", "W", "X"}
<1> DEFINE T == [va : Nat, filesz : Nat, memsz : Nat, flags : SUBSET {"R", "W", "X"}]
<1>1. p \in Seq(T)
  BY LoadArea DEF Load!LoadAssumption
<1>2. Len(p) \in Nat /\ p[k] \in T
  <2> HIDE DEF T
  <2> QED
    BY <1>1
<1> QED
  BY <1>2

\* The pages of an area hold its addresses.
LEMMA AreaIs ==
    ASSUME NEW a \in Nat, NEW n \in Nat, NEW flags \in SUBSET {"R", "W", "X", "STACK"}
    PROVE  LET v == Load!Area(a, n, flags)
           IN  /\ v \in AnyArea /\ Multiple(v.vm_start, PGSIZE) /\ Multiple(v.vm_end, PGSIZE)
               /\ v.vm_start = Load!RoundDown(a, PGSIZE) /\ v.vm_start <= a /\ a + n <= v.vm_end
<1>1. PGSIZE \in Nat \ {0} /\ a + n \in Nat
  BY LoadFacts
<1> DEFINE v == Load!Area(a, n, flags)
<1>2. v = [vm_start |-> Load!RoundDown(a, PGSIZE), vm_end |-> Load!RoundUp(a + n, PGSIZE),
           vm_flags |-> flags]
  BY DEF Load!Area
<1>3. /\ Multiple(Load!RoundDown(a, PGSIZE), PGSIZE) /\ Load!RoundDown(a, PGSIZE) <= a
      /\ Multiple(Load!RoundUp(a + n, PGSIZE), PGSIZE) /\ a + n <= Load!RoundUp(a + n, PGSIZE)
  BY <1>1, Rounded
<1> QED
  BY <1>2, <1>3 DEF AnyArea, Multiple

\* The pages of a segment are within its area, and within the user's addresses.
LEMMA SegAreaIs ==
    ASSUME NEW p \in Program, NEW list, InOrder(list), NEW k \in 1..Len(p), Placed(p, list, k)
    PROVE  LET v == SegArea(p, k)
           IN  /\ GoodArea(v) /\ v \in Elems(list) /\ v.vm_start \in Nat /\ v.vm_end \in Nat
               /\ v.vm_start = Load!RoundDown(p[k].va, PGSIZE) /\ v.vm_start <= p[k].va
               /\ p[k].va + p[k].memsz <= v.vm_end /\ v.vm_start < v.vm_end
               /\ v.vm_end <= USTACKTOP
<1> DEFINE v == SegArea(p, k)
<1>1. p[k].va \in Nat /\ p[k].memsz \in Nat /\ p[k].flags \in SUBSET {"R", "W", "X", "STACK"}
  BY SegmentIs
<1>2. /\ v.vm_start = Load!RoundDown(p[k].va, PGSIZE) /\ v.vm_start <= p[k].va
      /\ p[k].va + p[k].memsz <= v.vm_end
  BY <1>1, AreaIs DEF SegArea
<1>3. v \in Elems(list) /\ GoodArea(v)
  BY DEF Placed, InOrder, Elems
<1> HIDE DEF v
<1> QED
  BY <1>2, <1>3 DEF GoodArea, AnyArea, v

\* What lies apart from a segment leaves it as it is.
LEMMA DoneKept ==
    ASSUME NEW p \in Program, NEW list, InOrder(list), NEW list2, Elems(list) \subseteq Elems(list2),
           NEW m, NEW m2, NEW n \in Int, n <= Len(p), Done(p, list, m, n),
           \A k \in 1..n : \A x \in DOMAIN m :
              Load!In(SegArea(p, k), x) => x \in DOMAIN m2 /\ m2[x] = m[x]
    PROVE  Done(p, list2, m2, n)
<1> SUFFICES ASSUME NEW k \in 1..n
             PROVE  Placed(p, list2, k) /\ \A j \in 0..(p[k].memsz - 1) : Right(p, m2, k, j)
  BY DEF Done
<1>1. Placed(p, list, k) /\ \A j \in 0..(p[k].memsz - 1) : Right(p, m, k, j)
  BY DEF Done
<1>2. p \in Seq([va : Nat, filesz : Nat, memsz : Nat, flags : SUBSET {"R", "W", "X"}])
  BY LoadArea DEF Load!LoadAssumption
<1>3. k \in 1..Len(p)
  BY <1>2
<1>4. ASSUME NEW j \in 0..(p[k].memsz - 1) PROVE Right(p, m2, k, j)
  <2> DEFINE x == p[k].va + j
             v == SegArea(p, k)
  <2>1. x \in DOMAIN m /\ m[x] = IF j < p[k].filesz THEN Load!Cell("file", k, j) ELSE Load!Zero
    BY <1>1 DEF Right
  <2>2. p[k].va \in Nat /\ p[k].memsz \in Nat
    BY <1>3, SegmentIs
  <2>3. v.vm_start \in Nat /\ v.vm_end \in Nat /\ v.vm_start <= p[k].va /\ p[k].va + p[k].memsz <= v.vm_end
    BY <1>1, <1>3, SegAreaIs
  <2>4. v.vm_start <= x /\ x < v.vm_end
    <3> HIDE DEF v
    <3> QED
      BY <2>2, <2>3
  <2>5. Load!In(v, x)
    BY <2>4 DEF Load!In
  <2> HIDE DEF x, v
  <2>6. x \in DOMAIN m2 /\ m2[x] = m[x]
    BY <2>1, <2>5 DEF v
  <2> QED
    BY <2>1, <2>6 DEF Right, x
<1> QED
  BY <1>1, <1>4 DEF Placed

\* A page for the next bytes of a segment, and the bytes
LEMMA PageFilled ==
    ASSUME NEW p \in Program, NEW list, InOrder(list), NEW m, Mapped(list, m),
           NEW g, NEW a, NEW l, NEW end \in Nat, Filling(p, list, m, g, a, l, end), a < end,
           end <= p[g].va + p[g].memsz,
           NEW stop, stop = IF end < l + PGSIZE THEN end ELSE l + PGSIZE,
           NEW s, DOMAIN s = 1..(stop - a),
           \A j \in 0..(p[g].memsz - 1) : a <= p[g].va + j /\ p[g].va + j < stop =>
              s[(p[g].va + j) - a + 1] = IF j < p[g].filesz THEN Load!Cell("file", g, j) ELSE Load!Zero
    PROVE  LET m2 == Load!Put(Load!MapPage(m, l), a, s)
           IN  Mapped(list, m2) /\ Filling(p, list, m2, g, stop, l + PGSIZE, end)
<1> DEFINE m1 == Load!MapPage(m, l)
           m2 == Load!Put(m1, a, s)
           v == SegArea(p, g)
           va == p[g].va
<1>1. /\ PGSIZE \in Nat \ {0} /\ g \in 1..Len(p) /\ Len(p) \in Nat /\ g \in Nat /\ va \in Nat
      /\ p[g].memsz \in Nat
  <2>1. g \in 1..Len(p)
    BY DEF Filling
  <2> QED
    BY <2>1, SegmentIs, LoadFacts
<1>2. /\ Placed(p, list, g) /\ a \in Nat /\ Multiple(l, PGSIZE) /\ l \in Nat /\ va <= a
      /\ (a = va /\ l = Load!RoundDown(va, PGSIZE)) \/ a = l
  BY DEF Filling, Multiple
<1>3. /\ GoodArea(v) /\ v \in Elems(list) /\ v.vm_start \in Nat /\ v.vm_end \in Nat
      /\ v.vm_start = Load!RoundDown(va, PGSIZE) /\ v.vm_start <= va
      /\ va + p[g].memsz <= v.vm_end
      /\ Multiple(v.vm_end, PGSIZE)
  <2>1. /\ GoodArea(v) /\ v \in Elems(list) /\ v.vm_start \in Nat /\ v.vm_end \in Nat
        /\ v.vm_start = Load!RoundDown(va, PGSIZE) /\ v.vm_start <= va
        /\ va + p[g].memsz <= v.vm_end
    BY <1>1, <1>2, SegAreaIs
  <2> QED
    BY <2>1 DEF GoodArea
<1>4. l <= a /\ v.vm_start <= l /\ a < l + PGSIZE
  <2>1. CASE a = l
    <3> HIDE DEF v, va
    <3> QED
      BY <1>1, <1>2, <1>3, <2>1
  <2>2. CASE a = va /\ l = Load!RoundDown(va, PGSIZE)
    <3>1. l <= va /\ va < l + PGSIZE
      BY <1>1, <2>2, Rounded
    <3> HIDE DEF v, va
    <3> QED
      BY <1>3, <2>2, <3>1
  <2> QED
    BY <1>2, <2>1, <2>2
<1>5. l + PGSIZE <= v.vm_end
  <2>1. l < v.vm_end
    <3> HIDE DEF v
    <3> QED
      BY <1>1, <1>2, <1>3, <1>4
  <2> HIDE DEF v
  <2> QED
    BY <1>1, <1>2, <1>3, <2>1, NextMultiple
<1>6. stop \in Nat /\ a < stop /\ stop <= l + PGSIZE /\ stop <= end /\ (stop = l + PGSIZE \/ stop = end)
  BY <1>1, <1>2, <1>4
<1>7. /\ DOMAIN m1 = DOMAIN m \cup Load!Page(l)
      /\ \A x \in DOMAIN m : x \notin Load!Page(l) => m1[x] = m[x]
      /\ \A x : x \in Load!Page(l) <=> x \in Nat /\ l <= x /\ x < l + PGSIZE
  <2>1. Load!Page(l) = l..(l + PGSIZE - 1)
    BY DEF Load!Page
  <2>2. \A x : x \in Load!Page(l) <=> x \in Nat /\ l <= x /\ x < l + PGSIZE
    BY <1>1, <1>2, <2>1
  <2> QED
    BY <2>2 DEF Load!MapPage
<1> HIDE DEF m1, v, va
<1>8. \A x \in DOMAIN m1 : x \in Nat
  BY <1>7 DEF Mapped
<1>9. /\ DOMAIN m2 = DOMAIN m1
      /\ \A x \in DOMAIN m1 : m2[x] = IF a <= x /\ x < stop THEN s[x - a + 1] ELSE m1[x]
  <2> DEFINE n == stop - a
  <2>1. n \in Int /\ a + n = stop
    BY <1>2, <1>6
  <2> HIDE DEF n
  <2>2. DOMAIN s = 1..n
    BY DEF n
  <2>3. /\ DOMAIN m2 = DOMAIN m1
        /\ \A x \in DOMAIN m1 : m2[x] = IF a <= x /\ x < a + n THEN s[x - a + 1] ELSE m1[x]
    BY <1>2, <1>8, <2>1, <2>2, PutIs
  <2> QED
    BY <2>1, <2>3
<1> HIDE DEF m2
<1>10. \A x \in Nat : l <= x /\ x < l + PGSIZE => Load!In(v, x)
  BY <1>1, <1>2, <1>3, <1>4, <1>5 DEF Load!In
<1>11. \A x \in DOMAIN m : ~ Load!In(v, x) => x \in DOMAIN m2 /\ m2[x] = m[x]
  <2> SUFFICES ASSUME NEW x \in DOMAIN m, ~ Load!In(v, x) PROVE x \in DOMAIN m2 /\ m2[x] = m[x]
    OBVIOUS
  <2>1. x \in Nat /\ x \notin Load!Page(l) /\ ~ (l <= x /\ x < l + PGSIZE)
    BY <1>7, <1>10 DEF Mapped
  <2>2. ~ (a <= x /\ x < stop)
    BY <1>1, <1>2, <1>4, <1>6, <2>1
  <2> QED
    BY <1>7, <1>9, <2>1, <2>2
<1>12. Mapped(list, m2)
  <2> SUFFICES ASSUME NEW x \in DOMAIN m2 PROVE x \in Nat /\ \E w \in Elems(list) : Load!In(w, x)
    BY DEF Mapped
  <2>1. CASE x \in DOMAIN m
    BY <2>1 DEF Mapped
  <2>2. CASE x \in Load!Page(l)
    BY <1>3, <1>7, <1>10, <2>2
  <2> QED
    BY <1>7, <1>9, <2>1, <2>2
<1>13. Done(p, list, m2, g - 1)
  <2>1. g - 1 \in Int /\ g - 1 <= Len(p) /\ Done(p, list, m, g - 1)
    BY <1>1 DEF Filling
  <2>2. ASSUME NEW k \in 1..(g - 1), NEW x \in DOMAIN m, Load!In(SegArea(p, k), x)
        PROVE  x \in DOMAIN m2 /\ m2[x] = m[x]
    <3>1. AreasApart(SegArea(p, k), v) /\ x \in Nat
      BY DEF Filling, v, Mapped
    <3>2. k \in 1..Len(p) /\ Placed(p, list, k)
      BY <1>1, <2>1 DEF Done
    <3> DEFINE w == SegArea(p, k)
    <3>3. w.vm_start \in Nat /\ w.vm_end \in Nat
      BY <3>2, SegAreaIs
    <3>4. AreasApart(w, v) /\ Load!In(w, x)
      BY <2>2, <3>1
    <3> HIDE DEF w
    <3>5. ~ Load!In(v, x)
      BY <1>3, <3>1, <3>3, <3>4 DEF AreasApart, Load!In
    <3> QED
      BY <1>11, <3>5
  <2> QED
    BY <2>1, <2>2, DoneKept
<1>14. ASSUME NEW j \in 0..(p[g].memsz - 1), va + j < stop PROVE Right(p, m2, g, j)
  <2> DEFINE x == va + j
  <2>1. j \in Nat /\ x \in Nat /\ j = x - va
    BY <1>1
  <2>2. CASE a <= x
    <3>1. l <= x /\ x < l + PGSIZE /\ x < stop
      <4>1. x < stop
        BY <1>14
      <4> HIDE DEF x
      <4> QED
        BY <1>1, <1>2, <1>4, <1>6, <2>1, <2>2, <4>1
    <3>2. x \in DOMAIN m2 /\ m2[x] = s[x - a + 1]
      <4> HIDE DEF x
      <4> QED
        BY <1>7, <1>9, <2>1, <2>2, <3>1
    <3>3. s[x - a + 1] = IF j < p[g].filesz THEN Load!Cell("file", g, j) ELSE Load!Zero
      BY <2>2, <3>1 DEF va
    <3> QED
      BY <3>2, <3>3 DEF Right, va
  <2>3. CASE ~ (a <= x)
    <3>1. x < a
      <4> HIDE DEF x
      <4> QED
        BY <1>2, <2>1, <2>3
    <3>2. Right(p, m, g, j)
      BY <3>1 DEF Filling, va
    <3>3. x \in DOMAIN m /\ m[x] = IF j < p[g].filesz THEN Load!Cell("file", g, j) ELSE Load!Zero
      BY <3>2 DEF Right, va
    <3>4. x \notin Load!Page(l)
      <4>1. a = va \/ a = l
        BY <1>2
      <4>2. va <= x
        BY <1>1
      <4> HIDE DEF x
      <4> QED
        BY <1>1, <1>2, <1>7, <2>1, <3>1, <4>1, <4>2
    <3>5. x \in DOMAIN m2 /\ m2[x] = m[x]
      <4> HIDE DEF x
      <4> QED
        BY <1>7, <1>9, <2>3, <3>3, <3>4
    <3> QED
      BY <3>3, <3>5 DEF Right, va
  <2> QED
    BY <2>2, <2>3
<1>15. Filling(p, list, m2, g, stop, l + PGSIZE, end)
  <2>1. Multiple(l + PGSIZE, PGSIZE)
    BY <1>1, <1>2, NextMultiple
  <2>2. /\ g \in 1..Len(p) /\ Placed(p, list, g)
        /\ \A k \in 1..(g - 1) : AreasApart(SegArea(p, k), SegArea(p, g))
    BY DEF Filling
  <2>3. va <= stop /\ stop <= end
    BY <1>1, <1>2, <1>6
  <2>4. stop = l + PGSIZE \/ (stop = end /\ stop <= l + PGSIZE)
    BY <1>6
  <2> QED
    BY <1>6, <1>13, <1>14, <2>1, <2>2, <2>3, <2>4 DEF Filling, va
<1> QED
  BY <1>12, <1>15 DEF m1, m2

\* An area that is mapped is in order with the others, and apart from them.
LEMMA MmMapIs ==
    ASSUME InOrder(mmap_list), NEW v, v \in AnyArea, Multiple(v.vm_start, PGSIZE),
           Multiple(v.vm_end, PGSIZE), NEW then, then # "check_vma_overlap", Load!MmMap(v, then)
    PROVE  /\ phase' \in {"check_vma_overlap", then}
           /\ InOrder(mmap_list') /\ Elems(mmap_list) \subseteq Elems(mmap_list')
           /\ phase' = then => /\ v \in Elems(mmap_list')
                               /\ \A w \in Elems(mmap_list) : AreasApart(w, v)
<1>1. GoodArea(v) /\ \A w \in Elems(mmap_list) : ~ Load!In(w, v.vm_start)
  <2>1. Load!USER_ACCESS(v.vm_start, v.vm_end) /\ Load!Found(v.vm_start) = {}
    BY DEF Load!MmMap, Load!Maps
  <2>2. GoodArea(v)
    BY <2>1 DEF Load!USER_ACCESS, GoodArea
  <2> QED
    BY <2>1, <2>2 DEF Load!Found, Load!Elems, Elems
<1>2. CASE Load!Overlaps(mmap_list, v)
  <2>1. phase' = "check_vma_overlap" /\ mmap_list' = mmap_list
    BY <1>2 DEF Load!MmMap
  <2> QED
    BY <2>1
<1>3. CASE ~ Load!Overlaps(mmap_list, v)
  <2>1. phase' = then /\ mmap_list' = Load!Insert(mmap_list, v)
    BY <1>3 DEF Load!MmMap
  <2>2. /\ InOrder(Load!Insert(mmap_list, v))
        /\ Elems(Load!Insert(mmap_list, v)) = Elems(mmap_list) \cup {v}
        /\ \A w \in Elems(mmap_list) : AreasApart(w, v)
    BY <1>1, <1>3, InsertsInOrder
  <2> QED
    BY <2>1, <2>2
<1> QED
  BY <1>2, <1>3

\* An area for the next segment
LEMMA SegmentMapped ==
    ASSUME LoadInv, Load!MapSegment PROVE LoadInv'
<1> DEFINE p == program
           va == p[seg].va
           v == SegArea(p, seg)
<1>1. /\ p \in Program /\ kargv \in Kargv /\ seg \in Nat \ {0} /\ InOrder(mmap_list)
      /\ Mapped(mmap_list, mem) /\ Done(p, mmap_list, mem, seg - 1)
  BY DEF LoadInv, Load!MapSegment
<1>2. /\ seg \in 1..Len(p) /\ p[seg].filesz <= p[seg].memsz
      /\ Load!MmMap(v, "file")
      /\ start' = va /\ la' = Load!RoundDown(va, PGSIZE)
      /\ program' = p /\ kargv' = kargv /\ seg' = seg /\ mem' = mem
  <2>1. p \in Seq([va : Nat, filesz : Nat, memsz : Nat, flags : SUBSET {"R", "W", "X"}])
    BY <1>1, LoadArea DEF Load!LoadAssumption
  <2>2. DOMAIN p = 1..Len(p)
    BY <2>1
  <2> QED
    BY <2>2 DEF Load!MapSegment, Load!S, SegArea
<1>3. Len(p) \in Nat /\ va \in Nat /\ p[seg].filesz \in Nat /\ p[seg].memsz \in Nat
      /\ p[seg].flags \in SUBSET {"R", "W", "X", "STACK"}
  BY <1>1, <1>2, SegmentIs
<1>4. v \in AnyArea /\ Multiple(v.vm_start, PGSIZE) /\ Multiple(v.vm_end, PGSIZE)
  BY <1>3, AreaIs DEF SegArea
<1> HIDE DEF v
<1>5. /\ phase' \in {"check_vma_overlap", "file"}
      /\ InOrder(mmap_list') /\ Elems(mmap_list) \subseteq Elems(mmap_list')
      /\ phase' = "file" => /\ v \in Elems(mmap_list')
                            /\ \A w \in Elems(mmap_list) : AreasApart(w, v)
  BY <1>1, <1>2, <1>4, MmMapIs
<1>6. Mapped(mmap_list', mem)
  BY <1>1, <1>5 DEF Mapped
<1>7. ASSUME phase' = "file"
      PROVE  Filling(p, mmap_list', mem, seg, va, Load!RoundDown(va, PGSIZE), va + p[seg].filesz)
  <2>1. Done(p, mmap_list', mem, seg - 1)
    <3>1. seg - 1 \in Int /\ seg - 1 <= Len(p)
      BY <1>2, <1>3
    <3> DEFINE list2 == mmap_list'
               n == seg - 1
    <3>2. Elems(mmap_list) \subseteq Elems(list2)
      BY <1>5
    <3> HIDE DEF p, list2, n
    <3> QED
      BY <1>1, <3>1, <3>2, DoneKept DEF list2, n
  <2>2. Placed(p, mmap_list', seg)
    BY <1>2, <1>5, <1>7 DEF Placed, v
  <2>3. \A k \in 1..(seg - 1) : AreasApart(SegArea(p, k), SegArea(p, seg))
    BY <1>1, <1>5, <1>7 DEF Done, Placed, v
  <2>4. Multiple(Load!RoundDown(va, PGSIZE), PGSIZE)
    BY <1>3, LoadFacts, Rounded
  <2>5. va <= va /\ va <= va + p[seg].filesz
    BY <1>3
  <2>6. \A j \in 0..(p[seg].memsz - 1) : ~ (va + j < va)
    BY <1>3
  <2> QED
    BY <1>2, <1>3, <2>1, <2>2, <2>3, <2>4, <2>5, <2>6 DEF Filling
<1> QED
  BY <1>1, <1>2, <1>5, <1>6, <1>7 DEF LoadInv

\* A page of the file's bytes
LEMMA FilePageLoaded ==
    ASSUME LoadInv, Load!LoadPage PROVE LoadInv'
<1> DEFINE p == program
           va == p[seg].va
           end == va + p[seg].filesz
           stop == IF end < la + PGSIZE THEN end ELSE la + PGSIZE
           s == [j \in 1..(stop - start) |-> Load!Cell("file", seg, start - va + j - 1)]
<1>1. /\ p \in Program /\ kargv \in Kargv /\ seg \in Nat \ {0} /\ InOrder(mmap_list)
      /\ Mapped(mmap_list, mem) /\ Filling(p, mmap_list, mem, seg, start, la, end)
  BY DEF LoadInv, Load!LoadPage
<1>2. /\ start < end /\ mem' = Load!Put(Load!MapPage(mem, la), start, s)
      /\ start' = stop /\ la' = la + PGSIZE
      /\ program' = p /\ kargv' = kargv /\ phase' = "file" /\ seg' = seg /\ mmap_list' = mmap_list
  BY DEF Load!LoadPage, Load!FileEnd, Load!S, Load!Stop
<1>3. /\ seg \in 1..Len(p) /\ va \in Nat /\ p[seg].filesz \in Nat /\ p[seg].memsz \in Nat
      /\ start \in Nat /\ va <= start /\ p[seg].filesz <= p[seg].memsz
  <2>1. seg \in 1..Len(p) /\ start \in Nat /\ va <= start /\ p[seg].filesz <= p[seg].memsz
    BY <1>1 DEF Filling, Placed
  <2> QED
    BY <1>1, <2>1, SegmentIs
<1>4. end \in Nat /\ end <= va + p[seg].memsz
  BY <1>3
<1>5. la \in Nat /\ PGSIZE \in Nat /\ stop \in Nat /\ stop <= end
  <2>1. la \in Nat /\ PGSIZE \in Nat
    BY <1>1, LoadFacts DEF Filling, Multiple
  <2> QED
    BY <1>4, <2>1
<1>6. ASSUME NEW j \in 0..(p[seg].memsz - 1), start <= va + j, va + j < stop
      PROVE  s[(va + j) - start + 1] =
                IF j < p[seg].filesz THEN Load!Cell("file", seg, j) ELSE Load!Zero
  <2> DEFINE i == (va + j) - start + 1
  <2>1. i \in 1..(stop - start) /\ start - va + i - 1 = j
    <3> DEFINE x == va + j
    <3>1. j \in Nat /\ x \in Nat /\ start \in Nat /\ stop \in Nat /\ va \in Nat /\ x - va = j
          /\ start <= x /\ x < stop
      <4>1. j \in Nat
        BY <1>3
      <4> HIDE DEF stop, va
      <4> QED
        BY <1>3, <1>5, <1>6, <4>1
    <3>2. i = (x - start) + 1
      OBVIOUS
    <3> HIDE DEF stop, va, x, i
    <3> QED
      BY <3>1, <3>2
  <2>2. j < p[seg].filesz
    <3>1. va + j < va + p[seg].filesz
      <4> HIDE DEF stop
      <4> QED
        BY <1>3, <1>4, <1>5, <1>6
    <3> HIDE DEF va
    <3> QED
      BY <1>3, <3>1
  <2> HIDE DEF i, stop
  <2> QED
    BY <2>1, <2>2 DEF i
<1> HIDE DEF s, end
<1>7. DOMAIN s = 1..(stop - start)
  BY DEF s
<1>8. stop = IF end < la + PGSIZE THEN end ELSE la + PGSIZE
  BY DEF end
<1> HIDE DEF stop
<1>9. /\ Mapped(mmap_list, Load!Put(Load!MapPage(mem, la), start, s))
      /\ Filling(p, mmap_list, Load!Put(Load!MapPage(mem, la), start, s), seg, stop, la + PGSIZE, end)
  <2> HIDE DEF p
  <2> QED
    BY <1>1, <1>2, <1>4, <1>6, <1>7, <1>8, PageFilled
<1> QED
  BY <1>1, <1>2, <1>9 DEF LoadInv, end

\* A page of zeroes
LEMMA ZeroPageLoaded ==
    ASSUME LoadInv, Load!ZeroPage PROVE LoadInv'
<1> DEFINE p == program
           va == p[seg].va
           end == va + p[seg].memsz
           stop == IF end < la + PGSIZE THEN end ELSE la + PGSIZE
           s == [j \in 1..(stop - start) |-> Load!Zero]
<1>1. /\ p \in Program /\ kargv \in Kargv /\ seg \in Nat \ {0} /\ InOrder(mmap_list)
      /\ Mapped(mmap_list, mem) /\ Filling(p, mmap_list, mem, seg, start, la, end)
      /\ va + p[seg].filesz <= start
  BY DEF LoadInv, Load!ZeroPage
<1>2. /\ start < end /\ mem' = Load!Put(Load!MapPage(mem, la), start, s)
      /\ start' = stop /\ la' = la + PGSIZE
      /\ program' = p /\ kargv' = kargv /\ phase' = "bss" /\ seg' = seg /\ mmap_list' = mmap_list
  BY DEF Load!ZeroPage, Load!MemEnd, Load!S, Load!Stop
<1>3. /\ seg \in 1..Len(p) /\ va \in Nat /\ p[seg].filesz \in Nat /\ p[seg].memsz \in Nat
      /\ start \in Nat /\ va <= start /\ p[seg].filesz <= p[seg].memsz
  <2>1. seg \in 1..Len(p) /\ start \in Nat /\ va <= start /\ p[seg].filesz <= p[seg].memsz
    BY <1>1 DEF Filling, Placed
  <2> QED
    BY <1>1, <2>1, SegmentIs
<1>4. end \in Nat /\ end <= va + p[seg].memsz
  BY <1>3
<1>5. la \in Nat /\ PGSIZE \in Nat /\ stop \in Nat
  <2>1. la \in Nat /\ PGSIZE \in Nat
    BY <1>1, LoadFacts DEF Filling, Multiple
  <2> QED
    BY <1>4, <2>1
<1>6. ASSUME NEW j \in 0..(p[seg].memsz - 1), start <= va + j, va + j < stop
      PROVE  s[(va + j) - start + 1] =
                IF j < p[seg].filesz THEN Load!Cell("file", seg, j) ELSE Load!Zero
  <2> DEFINE i == (va + j) - start + 1
  <2>1. i \in 1..(stop - start)
    <3> HIDE DEF stop, va
    <3> QED
      BY <1>3, <1>5, <1>6
  <2>2. ~ (j < p[seg].filesz)
    <3> HIDE DEF stop, va
    <3> QED
      BY <1>1, <1>3, <1>6
  <2> HIDE DEF i, stop
  <2> QED
    BY <2>1, <2>2 DEF i
<1> HIDE DEF s, end
<1>7. DOMAIN s = 1..(stop - start)
  BY DEF s
<1>8. stop = IF end < la + PGSIZE THEN end ELSE la + PGSIZE
  BY DEF end
<1> HIDE DEF stop
<1>9. /\ Mapped(mmap_list, Load!Put(Load!MapPage(mem, la), start, s))
      /\ Filling(p, mmap_list, Load!Put(Load!MapPage(mem, la), start, s), seg, stop, la + PGSIZE, end)
  <2> HIDE DEF p
  <2> QED
    BY <1>1, <1>2, <1>4, <1>6, <1>7, <1>8, PageFilled
<1>10. start <= stop
  BY <1>9, <1>1, <1>2, <1>3, <1>4, <1>5, <1>8 DEF Filling, Multiple
<1>11. va + p[seg].filesz <= stop
  <2> HIDE DEF va
  <2> QED
    BY <1>1, <1>3, <1>5, <1>10
<1> QED
  BY <1>1, <1>2, <1>9, <1>11 DEF LoadInv, end

\* A segment is done when its bytes and zeroes are.
LEMMA SegmentDone ==
    ASSUME NEW p \in Program, NEW list, NEW m, NEW g, NEW a, NEW l, NEW end,
           Filling(p, list, m, g, a, l, end), p[g].va + p[g].memsz <= a
    PROVE  Done(p, list, m, g)
<1>1. /\ g \in 1..Len(p) /\ Done(p, list, m, g - 1) /\ Placed(p, list, g) /\ a \in Nat
      /\ \A j \in 0..(p[g].memsz - 1) : p[g].va + j < a => Right(p, m, g, j)
  BY DEF Filling
<1>2. Len(p) \in Nat /\ p[g].va \in Nat /\ p[g].memsz \in Nat
  BY <1>1, SegmentIs
<1>3. \A j \in 0..(p[g].memsz - 1) : p[g].va + j < a
  BY <1>1, <1>2
<1>4. \A k \in 1..g : k = g \/ k \in 1..(g - 1)
  BY <1>1, <1>2
<1> QED
  BY <1>1, <1>3, <1>4 DEF Done

\* The file's bytes are there: on to the zeroes, to the next segment, or the
\* assertion on start fails.
LEMMA FileEnded ==
    ASSUME LoadInv, Load!EndOfFile PROVE LoadInv'
<1> DEFINE p == program
           va == p[seg].va
           fileEnd == va + p[seg].filesz
           memEnd == va + p[seg].memsz
           stop == IF memEnd < la THEN memEnd ELSE la
<1>1. /\ p \in Program /\ kargv \in Kargv /\ seg \in Nat \ {0} /\ InOrder(mmap_list)
      /\ Mapped(mmap_list, mem) /\ Filling(p, mmap_list, mem, seg, start, la, fileEnd)
  BY DEF LoadInv, Load!EndOfFile
<1>2. start >= fileEnd /\ program' = p /\ kargv' = kargv /\ la' = la /\ mmap_list' = mmap_list
  BY DEF Load!EndOfFile, Load!FileEnd, Load!S
<1>3. /\ seg \in 1..Len(p) /\ Len(p) \in Nat /\ va \in Nat /\ p[seg].filesz \in Nat
      /\ p[seg].memsz \in Nat /\ start \in Nat /\ la \in Nat /\ PGSIZE \in Nat \ {0}
      /\ p[seg].filesz <= p[seg].memsz
  <2>1. seg \in 1..Len(p) /\ start \in Nat /\ la \in Nat /\ p[seg].filesz <= p[seg].memsz
    BY <1>1 DEF Filling, Placed, Multiple
  <2> QED
    BY <1>1, <2>1, SegmentIs, LoadFacts
<1>4. fileEnd \in Nat /\ memEnd \in Nat /\ fileEnd <= memEnd /\ start = fileEnd
  <2>1. fileEnd \in Nat /\ memEnd \in Nat /\ fileEnd <= memEnd
    BY <1>3
  <2>2. start <= fileEnd
    BY <1>1 DEF Filling
  <2> HIDE DEF fileEnd, memEnd
  <2> QED
    BY <1>2, <1>3, <2>1, <2>2
<1>5. CASE start < la /\ start = memEnd
  <2>1. phase' = "segment" /\ seg' = seg + 1 /\ mem' = mem
    BY <1>5 DEF Load!EndOfFile, Load!MemEnd, Load!S, Load!NextSegment
  <2>2. memEnd <= start
    BY <1>3, <1>5
  <2>3. Done(p, mmap_list, mem, seg)
    <3> HIDE DEF p
    <3> QED
      BY <1>1, <2>2, SegmentDone
  <2>4. seg' \in 1..(Len(p) + 1) /\ seg' - 1 = seg /\ seg' \in Nat \ {0}
    BY <1>3, <2>1
  <2> QED
    BY <1>1, <1>2, <2>1, <2>3, <2>4 DEF LoadInv
<1>6. CASE start < la /\ start # memEnd
  <2> DEFINE off == start - la
             size == PGSIZE - off - (IF memEnd < la THEN la - memEnd ELSE 0)
  <2>1. Load!Rest
    BY <1>6 DEF Load!EndOfFile, Load!MemEnd, Load!S
  <2>2. /\ mem' = Load!Put(mem, la - PGSIZE, [j \in 1..(off + size) |-> Load!Zero])
        /\ start' = start + size /\ seg' = seg
        /\ phase' = IF start' = stop THEN "bss" ELSE "end of bss"
    BY <2>1 DEF Load!Rest, Load!MemEnd, Load!S
  <2>3. start + size # stop
    <3> HIDE DEF memEnd
    <3> QED
      BY <1>3, <1>4
  <2> HIDE DEF off, size, stop
  <2>4. phase' = "end of bss"
    BY <2>2, <2>3
  <2>5. DOMAIN mem' = DOMAIN mem
    BY <2>2 DEF Load!Put
  <2>6. Mapped(mmap_list, mem')
    BY <1>1, <2>5 DEF Mapped
  <2> QED
    BY <1>1, <1>2, <2>2, <2>4, <2>6 DEF LoadInv
<1>7. CASE ~ (start < la)
  <2>1. phase' = "bss" /\ seg' = seg /\ start' = start /\ mem' = mem
    BY <1>7 DEF Load!EndOfFile
  <2>2. (start = va /\ la = Load!RoundDown(va, PGSIZE)) \/ start = la
    BY <1>1, <1>3, <1>7 DEF Filling
  <2>3. start <= memEnd /\ fileEnd <= start
    BY <1>3, <1>4
  <2>4. Filling(p, mmap_list, mem, seg, start, la, memEnd)
    <3> HIDE DEF fileEnd, memEnd
    <3> QED
      BY <1>1, <2>2, <2>3 DEF Filling
  <2> QED
    BY <1>1, <1>2, <2>1, <2>3, <2>4 DEF LoadInv
<1> QED
  BY <1>5, <1>6, <1>7

\* The zeroes are there.
LEMMA BssEnded ==
    ASSUME LoadInv, Load!EndOfBss PROVE LoadInv'
<1> DEFINE p == program
           memEnd == p[seg].va + p[seg].memsz
<1>1. /\ p \in Program /\ kargv \in Kargv /\ seg \in Nat \ {0} /\ InOrder(mmap_list)
      /\ Mapped(mmap_list, mem) /\ Filling(p, mmap_list, mem, seg, start, la, memEnd)
  BY DEF LoadInv, Load!EndOfBss
<1>2. /\ start >= memEnd /\ phase' = "segment" /\ seg' = seg + 1
      /\ program' = p /\ kargv' = kargv /\ mmap_list' = mmap_list /\ mem' = mem
  BY DEF Load!EndOfBss, Load!MemEnd, Load!S, Load!NextSegment
<1>3. seg \in 1..Len(p) /\ Len(p) \in Nat /\ memEnd \in Nat /\ start \in Nat
  <2>1. seg \in 1..Len(p) /\ start \in Nat
    BY <1>1 DEF Filling
  <2>2. Len(p) \in Nat /\ p[seg].va \in Nat /\ p[seg].memsz \in Nat
    BY <1>1, <2>1, SegmentIs
  <2> QED
    BY <2>1, <2>2
<1>4. Done(p, mmap_list, mem, seg)
  <2>1. memEnd <= start
    <3> HIDE DEF memEnd
    <3> QED
      BY <1>2, <1>3
  <2> HIDE DEF p
  <2> QED
    BY <1>1, <2>1, SegmentDone
<1>5. seg' \in 1..(Len(p) + 1) /\ seg' - 1 = seg /\ seg' \in Nat \ {0}
  BY <1>2, <1>3
<1> QED
  BY <1>1, <1>2, <1>4, <1>5 DEF LoadInv

\* The area of the stack is below USTACKTOP, where no segment is.
LEMMA StackIs ==
    /\ StackAt \in AnyArea /\ Multiple(StackAt.vm_start, PGSIZE) /\ Multiple(StackAt.vm_end, PGSIZE)
    /\ StackAt.vm_start <= USTACKTOP - USTACKSIZE /\ USTACKTOP <= StackAt.vm_end
    /\ StackAt.vm_start \in Nat /\ StackAt.vm_end \in Nat
<1> DEFINE a == USTACKTOP - USTACKSIZE
<1>1. a \in Nat /\ USTACKSIZE \in Nat /\ a + USTACKSIZE = USTACKTOP
  BY LoadFacts
<1> DEFINE F == {"R", "W", "STACK"}
<1>2. F \in SUBSET {"R", "W", "X", "STACK"}
  OBVIOUS
<1>3. StackAt = Load!Area(a, USTACKSIZE, F)
  BY DEF StackAt
<1> HIDE DEF a, F
<1>4. /\ StackAt \in AnyArea /\ Multiple(StackAt.vm_start, PGSIZE) /\ Multiple(StackAt.vm_end, PGSIZE)
      /\ StackAt.vm_start <= a /\ a + USTACKSIZE <= StackAt.vm_end
  BY <1>1, <1>2, <1>3, AreaIs
<1> QED
  BY <1>1, <1>4 DEF a, Multiple

\* Writing to the stack leaves the segments as they are.
LEMMA StackWritten ==
    ASSUME NEW p \in Program, NEW list, InOrder(list), NEW list2, Elems(list) \subseteq Elems(list2),
           NEW m, Mapped(list, m), NEW m2, Done(p, list, m, Len(p)),
           \A k \in 1..Len(p) : AreasApart(SegArea(p, k), StackAt),
           \A x \in DOMAIN m : x < USTACKTOP - USTACKSIZE => x \in DOMAIN m2 /\ m2[x] = m[x]
    PROVE  Done(p, list2, m2, Len(p))
<1>1. p \in Seq([va : Nat, filesz : Nat, memsz : Nat, flags : SUBSET {"R", "W", "X"}])
  BY LoadArea DEF Load!LoadAssumption
<1>2. Len(p) \in Int /\ Len(p) <= Len(p)
  BY <1>1
<1>3. ASSUME NEW k \in 1..Len(p), NEW x \in DOMAIN m, Load!In(SegArea(p, k), x)
      PROVE  x \in DOMAIN m2 /\ m2[x] = m[x]
  <2> DEFINE v == SegArea(p, k)
  <2>1. Placed(p, list, k)
    BY DEF Done
  <2>2. /\ v.vm_start \in Nat /\ v.vm_end \in Nat /\ v.vm_start < v.vm_end /\ v.vm_end <= USTACKTOP
    BY <2>1, SegAreaIs
  <2>3. AreasApart(v, StackAt) /\ Load!In(v, x) /\ x \in Nat
    BY <1>3 DEF Mapped
  <2> HIDE DEF v
  <2>4. v.vm_end <= StackAt.vm_start
    BY <2>2, <2>3, StackIs, LoadFacts DEF AreasApart
  <2>5. x < USTACKTOP - USTACKSIZE
    BY <2>2, <2>3, <2>4, StackIs, LoadFacts DEF Load!In
  <2> QED
    BY <2>5
<1> QED
  BY <1>2, <1>3, DoneKept

\* The stack, when the segments are done
LEMMA StackMapped ==
    ASSUME LoadInv, Load!Stack PROVE LoadInv'
<1> DEFINE p == program
           n == Len(p)
           m2 == Load!StackMem
<1>1. /\ p \in Program /\ kargv \in Kargv /\ seg \in Nat \ {0} /\ InOrder(mmap_list)
      /\ Mapped(mmap_list, mem) /\ seg \in 1..(n + 1) /\ Done(p, mmap_list, mem, seg - 1)
  BY DEF LoadInv, Load!Stack
<1>2. /\ seg \notin DOMAIN p /\ Load!MmMap(StackAt, "args")
      /\ mem' = IF phase' = "args" THEN m2 ELSE mem
      /\ program' = p /\ kargv' = kargv /\ seg' = seg
  BY DEF Load!Stack, Load!StackArea, StackAt
<1>3. n \in Nat /\ DOMAIN p = 1..n
  <2>1. p \in Seq([va : Nat, filesz : Nat, memsz : Nat, flags : SUBSET {"R", "W", "X"}])
    BY <1>1, LoadArea DEF Load!LoadAssumption
  <2> QED
    BY <2>1
<1>4. seg - 1 = n
  BY <1>1, <1>2, <1>3
<1>5. Done(p, mmap_list, mem, n)
  BY <1>1, <1>4
<1>6. /\ phase' \in {"check_vma_overlap", "args"}
      /\ InOrder(mmap_list') /\ Elems(mmap_list) \subseteq Elems(mmap_list')
      /\ phase' = "args" => /\ StackAt \in Elems(mmap_list')
                            /\ \A w \in Elems(mmap_list) : AreasApart(w, StackAt)
  BY <1>1, <1>2, StackIs, MmMapIs
<1> DEFINE list2 == mmap_list'
<1>7. /\ DOMAIN m2 = DOMAIN mem \cup Load!StackPages
      /\ \A x \in DOMAIN mem : x \notin Load!StackPages => m2[x] = mem[x]
  BY DEF Load!StackMem
<1>8. \A x \in Load!StackPages : x \in Nat /\ USTACKTOP - USTACKSIZE <= x /\ x < USTACKTOP
  <2> DEFINE w == STACK_PAGES * PGSIZE
  <2>1. w \in 1..USTACKSIZE /\ USTACKTOP \in Nat /\ USTACKSIZE \in Nat
        /\ 0 < USTACKTOP - USTACKSIZE
    BY LoadFacts
  <2>2. Load!StackPages = (USTACKTOP - w)..(USTACKTOP - 1)
    BY DEF Load!StackPages
  <2> HIDE DEF w
  <2> QED
    BY <2>1, <2>2
<1> HIDE DEF list2, m2, n
<1>9. ASSUME phase' = "args"
      PROVE  /\ Mapped(list2, m2) /\ Done(p, list2, m2, n)
             /\ \A k \in 1..n : AreasApart(SegArea(p, k), StackAt)
  <2>1. \A k \in 1..n : AreasApart(SegArea(p, k), StackAt)
    BY <1>5, <1>6, <1>9 DEF Done, Placed
  <2>2. \A x \in Load!StackPages : Load!In(StackAt, x)
    BY <1>8, StackIs, LoadFacts DEF Load!In
  <2>3. Mapped(list2, m2)
    BY <1>1, <1>6, <1>7, <1>8, <1>9, <2>2 DEF Mapped, list2
  <2>4. \A x \in DOMAIN mem : x < USTACKTOP - USTACKSIZE => x \in DOMAIN m2 /\ m2[x] = mem[x]
    <3> SUFFICES ASSUME NEW x \in DOMAIN mem, x < USTACKTOP - USTACKSIZE
                 PROVE  x \in DOMAIN m2 /\ m2[x] = mem[x]
      OBVIOUS
    <3>1. x \in Nat
      BY <1>1 DEF Mapped
    <3>2. x \notin Load!StackPages
      BY <1>8, <3>1, LoadFacts
    <3> QED
      BY <1>7, <3>2
  <2>5. Elems(mmap_list) \subseteq Elems(list2)
    BY <1>6 DEF list2
  <2>6. Done(p, list2, m2, n)
    <3> HIDE DEF p
    <3> QED
      BY <1>1, <1>5, <2>1, <2>4, <2>5, StackWritten DEF n
  <2> QED
    BY <2>1, <2>3, <2>6
<1>10. Mapped(list2, mem)
  BY <1>1, <1>6 DEF Mapped, list2
<1>11. CASE phase' = "args"
  <2>1. mem' = m2 /\ InOrder(mmap_list')
    BY <1>2, <1>6, <1>11
  <2> QED
    BY <1>1, <1>2, <1>9, <1>11, <2>1 DEF LoadInv, list2, n
<1>12. CASE phase' = "check_vma_overlap"
  BY <1>1, <1>2, <1>6, <1>10, <1>12 DEF LoadInv, list2
<1> QED
  BY <1>6, <1>11, <1>12

\* A failure of the stack stops the kernel; one before it gives back all there is.
LEMMA LoadFailed ==
    ASSUME LoadInv, Load!StackPageMissing \/ Load!Fail PROVE LoadInv'
<1>1. /\ program \in Program /\ kargv \in Kargv /\ seg \in Nat \ {0} /\ InOrder(mmap_list)
      /\ Mapped(mmap_list, mem)
  BY DEF LoadInv
<1>2. CASE Load!StackPageMissing
  <2>1. /\ phase' = "stack page" /\ program' = program /\ kargv' = kargv /\ seg' = seg
        /\ mmap_list' = mmap_list /\ mem' = mem
    BY <1>2 DEF Load!StackPageMissing
  <2> QED
    BY <1>1, <2>1 DEF LoadInv
<1>3. CASE Load!Fail
  <2>1. /\ phase' = "failed" /\ program' = program /\ kargv' = kargv /\ seg' = seg
        /\ mmap_list' = <<>>
        /\ mem' = [x \in {y \in DOMAIN mem : Load!Found(y) = {}} |-> mem[x]]
    BY <1>3 DEF Load!Fail
  <2>2. \A y \in DOMAIN mem : Load!Found(y) # {}
    BY <1>1 DEF Mapped, Load!Found, Load!Elems, Elems
  <2>3. DOMAIN mem' = {}
    BY <2>1, <2>2
  <2>4. InOrder(<<>>)
    BY DEF InOrder
  <2>5. Mapped(mmap_list', mem')
    BY <2>3 DEF Mapped
  <2> QED
    BY <1>1, <2>1, <2>4, <2>5 DEF LoadInv
<1> QED
  BY <1>2, <1>3

\* The k-th argument from the end, and the pointer to it, go to the stack, of
\* which each argument takes no more than its part.
ArgsIn(k, c, m) ==
    /\ Multiple(c.top, WORD) /\ c.top <= USTACKTOP
    /\ Len(kargv) * (USTACKTOP - c.top) <= k * USTACKSIZE
    /\ DOMAIN c.mem = DOMAIN m
    /\ \A x \in DOMAIN m : x < USTACKTOP - USTACKSIZE => c.mem[x] = m[x]

\* One argument more
LEMMA ArgumentIs ==
    ASSUME kargv \in Kargv, NEW i \in 1..Len(kargv), NEW k \in 0..(Len(kargv) - 1), NEW c, NEW m,
           \A x \in DOMAIN m : x \in Nat, ArgsIn(k, c, m)
    PROVE  ArgsIn(k + 1, Load!Argument(i, c), m)
<1> DEFINE n == Len(kargv)
           T == USTACKTOP
           U == USTACKSIZE
           y == c.top
           cm == c.mem
           len == kargv[i] + 1
           r == Load!RoundUp(len, WORD)
           t == Load!RoundDown(y - len, WORD)
           str == [j \in 1..len |-> Load!Cell("arg", i, j)]
           ptr == [j \in 1..WORD |-> Load!Cell("ptr", t, j)]
           at == Load!argv + (i - 1) * WORD
           new == Load!Argument(i, c)
<1>1. n \in Nat /\ i \in 1..n /\ len \in Nat \ {0} /\ n * r <= U /\ n # 0
  <2>1. kargv \in Seq(Nat) /\ \A j \in DOMAIN kargv : n * Load!RoundUp(kargv[j] + 1, WORD) <= U
    BY LoadArea DEF Load!LoadAssumption
  <2>2. n \in Nat /\ i \in DOMAIN kargv /\ kargv[i] \in Nat
    BY <2>1
  <2> HIDE DEF r
  <2> QED
    BY <2>1, <2>2 DEF r
<1>2. T \in Nat /\ U \in Nat /\ T - U \in Nat /\ WORD \in Nat \ {0}
  BY LoadFacts
<1>3. Multiple(r, WORD) /\ r \in Nat /\ len <= r /\ WORD <= r
  <2>1. Multiple(r, WORD) /\ len <= r
    BY <1>1, <1>2, Rounded
  <2>2. r \in Nat /\ 0 < r
    <3> HIDE DEF r, len
    <3> QED
      BY <1>1, <2>1 DEF Multiple
  <2>3. Multiple(0, WORD)
    BY <1>2 DEF Multiple
  <2>4. 0 + WORD <= r
    <3> HIDE DEF r
    <3> QED
      BY <1>2, <2>1, <2>2, <2>3, NextMultiple
  <2> HIDE DEF r
  <2> QED
    BY <1>2, <2>1, <2>2, <2>4
<1>4. /\ Multiple(y, WORD) /\ y \in Nat /\ y <= T /\ n * (T - y) <= k * U
      /\ DOMAIN cm = DOMAIN m
      /\ \A x \in DOMAIN m : x < T - U => cm[x] = m[x]
  BY DEF ArgsIn, Multiple
<1>5. new = [top |-> t,
             mem |-> IF Load!HasPage(t) THEN Load!Put(Load!Put(cm, t, str), at, ptr) ELSE cm]
  BY DEF Load!Argument
<1> HIDE DEF n, T, U, len, r, y, cm
<1> DEFINE d == (T - y) + r
<1>6. d \in Nat /\ n * d <= (k + 1) * U
  <2> DEFINE d0 == T - y
  <2>1. d0 \in Nat
    BY <1>2, <1>4
  <2>2. n * d0 <= k * U
    BY <1>4
  <2> HIDE DEF d0
  <2>3. n * (d0 + r) = n * d0 + n * r
    BY <1>1, <1>3, <2>1
  <2>4. k \in Nat
    BY DEF n
  <2>5. (k + 1) * U = k * U + U
    BY <1>2, <2>4
  <2>6. n * d0 \in Nat /\ n * r \in Nat /\ k * U \in Nat
    BY <1>1, <1>2, <1>3, <2>1, <2>4
  <2>7. n * (d0 + r) <= (k + 1) * U
    BY <1>1, <1>2, <2>2, <2>3, <2>5, <2>6
  <2>8. d0 + r \in Nat
    BY <1>3, <2>1
  <2> QED
    BY <2>7, <2>8 DEF d0
<1> HIDE DEF d
<1>7. \A a, b \in Nat : n * a <= n * b => a <= b
  BY <1>1
<1>8. \A a, b \in Nat : a <= b => n * a <= n * b
  BY <1>1
<1>9. d <= U
  <2>1. k + 1 \in Nat /\ k + 1 <= n
    BY <1>1 DEF n
  <2>2. (k + 1) * U <= n * U
    BY <1>1, <1>2, <2>1
  <2>3. n * d <= n * U
    <3>1. n * d \in Nat /\ n * U \in Nat /\ (k + 1) * U \in Nat
      BY <1>1, <1>2, <1>6, <2>1
    <3> QED
      BY <1>6, <2>2, <3>1
  <2> QED
    BY <1>2, <1>6, <1>7, <2>3
<1>10. y - r \in Nat /\ T - U <= y - r /\ y - len \in Nat /\ y - r <= y - len
  <2>1. (T - y) + r <= U
    BY <1>9 DEF d
  <2>2. y \in Int /\ r \in Int /\ len \in Int /\ len <= r
    BY <1>1, <1>3, <1>4
  <2>3. T - U <= y - r
    BY <1>2, <2>1, <2>2
  <2>4. y - r \in Nat
    BY <1>2, <2>2, <2>3
  <2>5. y - r <= y - len
    BY <2>2
  <2>6. y - len \in Nat
    BY <2>2, <2>4, <2>5
  <2> QED
    BY <2>3, <2>4, <2>5, <2>6
<1>11. Multiple(t, WORD) /\ t \in Nat /\ t <= y - len /\ y - len < t + WORD
  <2> DEFINE z == y - len
  <2>1. z \in Nat
    BY <1>10
  <2> HIDE DEF z
  <2>2. /\ Multiple(Load!RoundDown(z, WORD), WORD) /\ Load!RoundDown(z, WORD) <= z
        /\ z < Load!RoundDown(z, WORD) + WORD
    BY <1>2, <2>1, Rounded
  <2> QED
    BY <2>2 DEF z, Multiple
<1> HIDE DEF t
<1>12. y - r <= t
  <2>1. Multiple(y - r, WORD)
    <3>1. r <= y
      BY <1>3, <1>4, <1>10
    <3> QED
      BY <1>2, <1>3, <1>4, <3>1, NextMultiple
  <2> DEFINE z == y - r
  <2>2. Multiple(z, WORD) /\ z \in Nat /\ z <= y - len
    BY <1>10, <2>1
  <2> HIDE DEF z
  <2>3. t < z => t + WORD <= z
    BY <1>2, <1>11, <2>2, NextMultiple
  <2>4. z <= t
    BY <1>2, <1>10, <1>11, <2>2, <2>3
  <2> QED
    BY <2>4 DEF z
<1>13. t <= T /\ n * (T - t) <= (k + 1) * U /\ T - U <= t
  <2>1. t <= T
    BY <1>1, <1>2, <1>4, <1>10, <1>11
  <2>2. T - U <= t
    BY <1>2, <1>10, <1>11, <1>12
  <2>6. T - t \in Nat
    BY <1>2, <1>11, <2>1
  <2>7. T - t <= d
    <3>1. y - r <= t /\ y \in Int /\ r \in Int /\ t \in Int /\ T \in Int
      BY <1>2, <1>3, <1>4, <1>11, <1>12
    <3>2. T - t <= (T - y) + r
      BY <3>1
    <3> QED
      BY <3>2 DEF d
  <2> DEFINE z == T - t
  <2> HIDE DEF z
  <2>3. n * z <= n * d
    BY <1>6, <1>8, <2>6, <2>7 DEF z
  <2>4. n * z \in Nat /\ n * d \in Nat /\ (k + 1) * U \in Nat
    <3>1. k + 1 \in Nat /\ z \in Nat
      BY <1>1, <2>6 DEF z, n
    <3> QED
      BY <1>1, <1>2, <1>6, <3>1
  <2>5. n * z <= (k + 1) * U
    BY <1>6, <2>3, <2>4
  <2> QED
    BY <2>1, <2>2, <2>5 DEF z
<1>14. at \in Nat /\ T - U <= at
  <2> DEFINE w == n * WORD
             o == (i - 1) * WORD
  <2>1. w \in Nat /\ w <= U
    <3>1. n * WORD <= n * r
      BY <1>2, <1>3, <1>8
    <3>2. n * WORD \in Nat /\ n * r \in Nat
      BY <1>1, <1>2, <1>3
    <3> QED
      BY <1>1, <1>2, <3>1, <3>2
  <2>2. o \in Nat
    <3>1. i - 1 \in Nat
      BY <1>1
    <3> QED
      BY <1>2, <3>1
  <2>3. at = (T - w) + o
    BY DEF Load!argv, T, n
  <2> HIDE DEF w, o, at
  <2> QED
    BY <1>2, <2>1, <2>2, <2>3
<1> HIDE DEF at
<1> DEFINE m1 == Load!Put(cm, t, str)
           m2 == Load!Put(m1, at, ptr)
<1>15. /\ DOMAIN m1 = DOMAIN m
       /\ \A x \in DOMAIN m : m1[x] = IF t <= x /\ x < t + len THEN str[x - t + 1] ELSE cm[x]
  <2>1. DOMAIN str = 1..len /\ len \in Int
    BY <1>1
  <2>2. \A x \in DOMAIN cm : x \in Nat
    BY <1>4
  <2> HIDE DEF str
  <2>3. /\ DOMAIN Load!Put(cm, t, str) = DOMAIN cm
        /\ \A x \in DOMAIN cm : Load!Put(cm, t, str)[x] =
              IF t <= x /\ x < t + len THEN str[x - t + 1] ELSE cm[x]
    BY <1>11, <2>1, <2>2, PutIs
  <2> QED
    BY <1>4, <2>3
<1> HIDE DEF m1
<1>16. /\ DOMAIN m2 = DOMAIN m
       /\ \A x \in DOMAIN m : m2[x] = IF at <= x /\ x < at + WORD THEN ptr[x - at + 1] ELSE m1[x]
  <2>1. DOMAIN ptr = 1..WORD /\ WORD \in Int
    BY <1>2
  <2> HIDE DEF ptr
  <2> QED
    BY <1>14, <1>15, <2>1, PutIs
<1> HIDE DEF m2
<1>17. \A x \in DOMAIN m : x < T - U => m2[x] = m[x]
  <2> SUFFICES ASSUME NEW x \in DOMAIN m, x < T - U PROVE m2[x] = m[x]
    OBVIOUS
  <2>1. x \in Nat /\ ~ (t <= x) /\ ~ (at <= x)
    BY <1>2, <1>11, <1>13, <1>14
  <2> QED
    BY <1>4, <1>15, <1>16, <2>1
<1>18. new.top = t /\ (new.mem = m2 \/ new.mem = cm)
  BY <1>5 DEF m1, m2
<1>19. DOMAIN new.mem = DOMAIN m /\ \A x \in DOMAIN m : x < T - U => new.mem[x] = m[x]
  <2> HIDE DEF new
  <2>1. CASE new.mem = m2
    BY <1>16, <1>17, <2>1
  <2>2. CASE new.mem = cm
    BY <1>4, <2>2
  <2> QED
    BY <1>18, <2>1, <2>2
<1> HIDE DEF new
<1> QED
  BY <1>11, <1>13, <1>18, <1>19 DEF ArgsIn, new, n, T, U

\* All of them: the walk from the last argument to the first
LEMMA ArgumentsAre ==
    ASSUME kargv \in Kargv, \A x \in DOMAIN mem : x \in Nat
    PROVE  ArgsIn(Len(kargv), Load!Arguments, mem)
<1> DEFINE n == Len(kargv)
           x0 == [top |-> USTACKTOP, mem |-> mem]
           Body(f, h) == [k \in 0..h |-> IF k = 0 THEN x0 ELSE Load!Argument(n + 1 - k, f[k - 1])]
           c == CHOOSE f : f = Body(f, n)
<1>1. n \in Nat
  <2>1. kargv \in Seq(Nat)
    BY LoadArea DEF Load!LoadAssumption
  <2> QED
    BY <2>1
<1>2. Load!Arguments = c[n]
  BY DEF Load!Arguments
<1> HIDE DEF n
<1> DEFINE I == {h \in Nat : \E f : f = Body(f, h)}
<1>3. 0 \in I
  <2> DEFINE g == [k \in 0..0 |-> x0]
  <2>1. g = Body(g, 0)
    OBVIOUS
  <2>2. \E f : f = Body(f, 0)
    <3> HIDE DEF g
    <3> QED
      BY <2>1
  <2> HIDE DEF Body
  <2> QED
    BY <2>2
<1>4. ASSUME NEW h \in Nat, h \in I PROVE h + 1 \in I
  <2>1. PICK f : f = Body(f, h)
    BY <1>4
  <2> DEFINE g == [k \in 0..(h + 1) |-> IF k <= h THEN f[k] ELSE Load!Argument(n + 1 - k, f[k - 1])]
  <2>2. ASSUME NEW k \in 0..(h + 1)
        PROVE  g[k] = IF k = 0 THEN x0 ELSE Load!Argument(n + 1 - k, g[k - 1])
    <3>0. \A i \in 0..h : f[i] = IF i = 0 THEN x0 ELSE Load!Argument(n + 1 - i, f[i - 1])
      BY <2>1
    <3>1. \A i \in 0..h : g[i] = f[i]
      OBVIOUS
    <3>2. CASE k = 0
      <4>1. 0 \in 0..h
        OBVIOUS
      <4> QED
        BY <3>0, <3>1, <3>2, <4>1
    <3>3. CASE k # 0 /\ k <= h
      <4>1. k \in 0..h /\ k - 1 \in 0..h
        BY <3>3
      <4> QED
        BY <3>0, <3>1, <3>3, <4>1
    <3>4. CASE k # 0 /\ ~ (k <= h)
      <4>1. k - 1 \in 0..h
        BY <3>4
      <4>2. g[k] = Load!Argument(n + 1 - k, f[k - 1])
        BY <3>4
      <4> QED
        BY <3>1, <3>4, <4>1, <4>2
    <3> QED
      BY <3>2, <3>3, <3>4
  <2>3. g = [k \in 0..(h + 1) |-> g[k]]
    OBVIOUS
  <2> HIDE DEF g, x0
  <2>4. g = Body(g, h + 1)
    BY <2>2, <2>3
  <2>5. \E e : e = Body(e, h + 1)
    <3> HIDE DEF Body
    <3> QED
      BY <2>4
  <2> HIDE DEF Body
  <2> QED
    BY <2>5
<1>5. n \in I
  <2> HIDE DEF I
  <2> QED
    BY <1>1, <1>3, <1>4, NatInd
<1>6. c = Body(c, n)
  <2>1. \E f : f = Body(f, n)
    BY <1>5
  <2> HIDE DEF Body
  <2> QED
    BY <2>1
<1> HIDE DEF c, I
<1>7. \A k \in 0..n : c[k] = IF k = 0 THEN x0 ELSE Load!Argument(n + 1 - k, c[k - 1])
  BY <1>6
<1> DEFINE J == {k \in Nat : k <= n => ArgsIn(k, c[k], mem)}
<1>8. 0 \in J
  <2>1. 0 \in 0..n
    BY <1>1
  <2>2. c[0] = x0
    BY <1>7, <2>1
  <2>3. n * (USTACKTOP - USTACKTOP) <= 0 * USTACKSIZE
    BY <1>1, LoadFacts
  <2>4. ArgsIn(0, x0, mem)
    BY <2>3, LoadFacts DEF ArgsIn, n
  <2> QED
    BY <2>2, <2>4
<1>9. ASSUME NEW k \in Nat, k \in J PROVE k + 1 \in J
  <2> SUFFICES ASSUME k + 1 <= n PROVE ArgsIn(k + 1, c[k + 1], mem)
    OBVIOUS
  <2>1. k + 1 \in 0..n /\ k + 1 # 0 /\ (k + 1) - 1 = k /\ k <= n
    BY <1>1
  <2> DEFINE i == n + 1 - (k + 1)
  <2>2. c[k + 1] = Load!Argument(i, c[k])
    BY <1>7, <2>1
  <2>3. i \in 1..Len(kargv) /\ k \in 0..(Len(kargv) - 1)
    BY <1>1 DEF n
  <2>4. ArgsIn(k, c[k], mem)
    BY <1>9, <2>1
  <2> HIDE DEF i, x0
  <2>5. ArgsIn(k + 1, Load!Argument(i, c[k]), mem)
    BY <2>3, <2>4, ArgumentIs
  <2> QED
    BY <2>2, <2>5
<1>10. Nat \subseteq J
  <2> HIDE DEF J
  <2> QED
    BY <1>8, <1>9, NatInd
<1>11. ArgsIn(n, c[n], mem)
  BY <1>1, <1>10
<1> QED
  BY <1>2, <1>11 DEF n

\* The arguments go to the stack, where no segment is, all of them or up to the
\* one that finds no page.
LEMMA ArgsStored ==
    ASSUME LoadInv, Load!Args PROVE LoadInv'
<1> DEFINE p == program
           m2 == Load!Arguments.mem
<1>1. /\ p \in Program /\ kargv \in Kargv /\ seg \in Nat \ {0} /\ InOrder(mmap_list)
      /\ Mapped(mmap_list, mem) /\ Done(p, mmap_list, mem, Len(p))
      /\ \A k \in 1..Len(p) : AreasApart(SegArea(p, k), StackAt)
  BY DEF LoadInv, Load!Args
<1>2. /\ phase' \in {"done", "store page fault"} /\ mem' = m2
      /\ program' = p /\ kargv' = kargv /\ seg' = seg /\ mmap_list' = mmap_list
  BY DEF Load!Args
<1>3. ArgsIn(Len(kargv), Load!Arguments, mem)
  BY <1>1, ArgumentsAre DEF Mapped
<1>4. DOMAIN m2 = DOMAIN mem
      /\ \A x \in DOMAIN mem : x < USTACKTOP - USTACKSIZE => m2[x] = mem[x]
  BY <1>3 DEF ArgsIn
<1> HIDE DEF m2
<1>5. Mapped(mmap_list, m2)
  BY <1>1, <1>4 DEF Mapped
<1>6. Done(p, mmap_list, m2, Len(p))
  <2> HIDE DEF p
  <2>1. \A x \in DOMAIN mem : x < USTACKTOP - USTACKSIZE => x \in DOMAIN m2 /\ m2[x] = mem[x]
    BY <1>4
  <2>2. Elems(mmap_list) \subseteq Elems(mmap_list)
    OBVIOUS
  <2> QED
    BY <1>1, <2>1, <2>2, StackWritten
<1> QED
  BY <1>1, <1>2, <1>5, <1>6 DEF LoadInv

\* At first nothing is mapped.
LEMMA LoadInit ==
    ASSUME Load!Init PROVE LoadInv
<1>1. /\ program \in Program /\ kargv \in Kargv /\ phase = "segment" /\ seg = 1
      /\ mmap_list = <<>> /\ mem = <<>>
  BY DEF Load!Init
<1>2. Len(program) \in Nat
  <2>1. program \in Seq([va : Nat, filesz : Nat, memsz : Nat, flags : SUBSET {"R", "W", "X"}])
    BY <1>1, LoadArea DEF Load!LoadAssumption
  <2> QED
    BY <2>1
<1>3. InOrder(mmap_list) /\ Mapped(mmap_list, mem)
  BY <1>1 DEF InOrder, Mapped
<1>4. Done(program, mmap_list, mem, seg - 1)
  BY <1>1 DEF Done
<1> QED
  BY <1>1, <1>2, <1>3, <1>4 DEF LoadInv

\* Each step of load_icode keeps what is loaded.
LEMMA LoadStep ==
    ASSUME LoadInv, Load!Next PROVE LoadInv'
BY SegmentMapped, FilePageLoaded, FileEnded, ZeroPageLoaded, BssEnded, StackMapped, LoadFailed,
   ArgsStored DEF Load!Next

\* What is kept says that a program is loaded right.
LEMMA LoadIsExact ==
    ASSUME LoadInv PROVE Load!ProgramLoaded /\ Load!AreasExact
<1>1. program \in Program /\ InOrder(mmap_list) /\ Mapped(mmap_list, mem)
  BY DEF LoadInv
<1>2. Load!AreasExact
  BY <1>1, InOrderIsExact
<1>3. \A x \in DOMAIN mem : Load!Found(x) # {}
  BY <1>1 DEF Mapped, Load!Found, Load!Elems, Elems
<1>4. ASSUME phase = "done", NEW k \in DOMAIN program, NEW j \in 0..(program[k].memsz - 1)
      PROVE  mem[program[k].va + j] = IF j < program[k].filesz THEN Load!Cell("file", k, j) ELSE Load!Zero
  <2>1. program \in Seq([va : Nat, filesz : Nat, memsz : Nat, flags : SUBSET {"R", "W", "X"}])
    BY <1>1, LoadArea DEF Load!LoadAssumption
  <2>2. k \in 1..Len(program)
    BY <2>1
  <2>3. Right(program, mem, k, j)
    BY <1>4, <2>2 DEF LoadInv, Done
  <2> QED
    BY <2>3 DEF Right
<1> QED
  BY <1>2, <1>3, <1>4 DEF Load!ProgramLoaded

-----------------------------------------------------------------------------
\* What the memory management keeps: of each allocator and of the address
\* spaces what the lemmas above show they keep
IInv ==
    /\ manager \in {"best_fit", "default", "buddy", "slob", "cow", "load"}
    /\ IsFit => FitInv
    /\ manager = "buddy" => BuddyInv
    /\ manager = "slob" => SlobInv
    /\ manager = "cow" => CowInv
    /\ manager = "load" => LoadInv

\* The invariant holds at first; nothing is handed out, and PrivateMemory
\* begins as it may.
LEMMA MemoryInit ==
    ASSUME Init PROVE IInv /\ Pool!Init /\ Private!Init
<1>1. CASE Fit!Init
  <2>1. manager \in {"best_fit", "default"} /\ owned = {}
    BY <1>1 DEF Fit!Init
  <2>2. FitInv
    BY <1>1, FitInit, MemoryAssumption
  <2>3. Held = {} /\ Private!Init
    BY <2>1, NoMemory DEF Held, IsFit, Private!Init
  <2> QED
    BY <2>1, <2>2, <2>3 DEF IInv, IsFit, Pool!Init
<1>2. CASE manager = "buddy" /\ Buddy!Init
  <2>1. BuddyInv /\ blocks = {}
    BY <1>2, BuddyInit DEF Buddy!Init
  <2>2. Held = {} /\ Private!Init
    BY <1>2, <2>1, NoMemory DEF Held, IsFit, Buddy!Owned, Private!Init
  <2> QED
    BY <1>2, <2>1, <2>2 DEF IInv, IsFit, Pool!Init
<1>3. CASE manager = "slob" /\ Slob!Init
  <2>1. SlobInv /\ allocated = {} /\ bigblocks = {}
    BY <1>3, SlobInit DEF Slob!Init
  <2>2. Held = (UNION {Slob!Block(b) : b \in Slob!Small})
               \cup UNION {p..(p + PAGE_UNITS - 1) : p \in Slob!BigPages}
    BY <1>3 DEF Held, IsFit
  <2>3. Slob!Small = {} /\ Slob!BigPages = {}
    BY <2>1 DEF Slob!Small, Slob!BigPages
  <2>4. Held = {} /\ Private!Init
    BY <1>3, <2>2, <2>3, NoMemory DEF Private!Init
  <2> QED
    BY <1>3, <2>1, <2>4 DEF IInv, IsFit, Pool!Init
<1>4. CASE manager = "cow" /\ Cow!Init
  <2>1. Held = {}
    BY <1>4 DEF Held, IsFit
  <2> QED
    BY <1>4, <2>1, CowInit DEF IInv, IsFit, Pool!Init
<1>5. CASE manager = "load" /\ Load!Init
  <2>1. Held = {} /\ Private!Init
    BY <1>5, NoMemory DEF Held, IsFit, Private!Init
  <2> QED
    BY <1>5, <2>1, LoadInit DEF IInv, IsFit, Pool!Init
<1> QED
  BY <1>1, <1>2, <1>3, <1>4, <1>5 DEF Init

vars == <<manager, next, property, nr_free, fitOnly, buddyOnly, slobOnly, cowOnly, loadOnly>>

\* A kernel has one page allocator, and a step is a step of that one.
LEMMA ManagerKept ==
    ASSUME [Next]_vars PROVE manager' = manager
<1>1. ASSUME Fit!Next PROVE manager' = manager
  BY <1>1 DEF Fit!Next, Fit!Alloc, Fit!Free
<1> QED
  BY <1>1 DEF Next, vars

\* A step of nobody changes nothing of what is kept and promised.
LEMMA MemoryStutter ==
    ASSUME IInv, vars' = vars
    PROVE  IInv' /\ Area' = Area /\ Held' = Held /\ Memory' = Memory
<1>1. /\ manager' = manager /\ next' = next /\ property' = property /\ nr_free' = nr_free
      /\ prev' = prev /\ PG_property' = PG_property /\ owned' = owned
      /\ first' = first /\ free_list' = free_list /\ blocks' = blocks
      /\ units' = units /\ slobfree' = slobfree /\ pages' = pages
      /\ allocated' = allocated /\ bigblocks' = bigblocks
      /\ enable_cow' = enable_cow /\ pte' = pte /\ ref' = ref /\ free' = free /\ content' = content
      /\ program' = program /\ kargv' = kargv /\ phase' = phase /\ seg' = seg
      /\ start' = start /\ la' = la /\ mmap_list' = mmap_list /\ mem' = mem
  BY DEF vars, fitOnly, buddyOnly, slobOnly, cowOnly, loadOnly
<1>2. FitInv' <=> FitInv
  BY <1>1 DEF FitInv, Begin
<1>3. BuddyInv' <=> BuddyInv
  BY <1>1 DEF BuddyInv, BuddyTypeOK, BuddyLists, BuddyTiles, BuddyMerged, FreeTiles, Buddy!Merges
<1>4. SlobInv' <=> SlobInv
  BY <1>1 DEF SlobInv, Slob!List
<1>5. CowInv' <=> CowInv
  BY <1>1 DEF CowInv, CowTypeOK, Cow!SharedExact, Cow!Mappers, Cow!HasMm, Cow!Frames
<1>10. LoadInv' <=> LoadInv
  BY <1>1 DEF LoadInv
<1>6. IInv'
  BY <1>1, <1>2, <1>3, <1>4, <1>5, <1>10 DEF IInv, IsFit
<1>7. Area' = Area
  BY <1>1 DEF Area, IsFit
<1>8. Held' = Held
  BY <1>1 DEF Held, IsFit, Buddy!Owned, Slob!Small, Slob!BigPages, Slob!Block
<1>9. Memory' = Memory
  BY <1>1 DEF Memory, Cow!Memory, Cow!HasMm
<1> QED
  BY <1>6, <1>7, <1>8, <1>9

\* A step of one allocator, or of the address spaces: it keeps the invariant, and
\* is a step of the pool and of PrivateMemory or leaves them as they are.
LEMMA MemoryNext ==
    ASSUME IInv, [Next]_vars
    PROVE  /\ IInv'
           /\ [Area' = Area /\ (Pool!Allocate \/ Pool!Release)]_<<Area, Held>>
           /\ [Private!Next]_Memory
<1>1. manager' = manager
  BY ManagerKept
<1>2. CASE vars' = vars
  BY <1>2, MemoryStutter
<1>4. manager # "cow" => Memory' = Memory
  BY <1>1, NoMemory DEF Memory
<1>5. CASE Next /\ IsFit
  <2>1. Fit!Next /\ (manager = "default" => N - 1 \notin owned')
    BY <1>5 DEF Next, IsFit
  <2>2. FitInv' /\ Area' = Area /\ (Pool!Allocate \/ Pool!Release)
    BY <1>1, <1>5, <2>1, FitStep DEF IInv
  <2> QED
    BY <1>1, <1>4, <1>5, <2>2 DEF IInv, IsFit
<1>6. CASE Next /\ manager = "buddy"
  <2>1. Buddy!Next
    BY <1>6 DEF Next
  <2>2. BuddyInv'
    BY <1>6, <2>1, BuddyStep DEF IInv
  <2>3. Area' = Area /\ (Pool!Allocate \/ Pool!Release)
    BY <1>1, <1>6, <2>1, <2>2, BuddyPool DEF IInv
  <2> QED
    BY <1>1, <1>4, <1>6, <2>2, <2>3 DEF IInv, IsFit
<1>7. CASE Next /\ manager = "slob"
  <2>1. Slob!Next
    BY <1>7 DEF Next
  <2>2. SlobInv' /\ Area' = Area /\ (Held' = Held \/ Pool!Allocate \/ Pool!Release)
    BY <1>1, <1>7, <2>1, SlobPool DEF IInv
  <2> QED
    BY <1>1, <1>4, <1>7, <2>2 DEF IInv, IsFit
<1>8. CASE Next /\ manager \in {"cow", "load"}
  <2>1. Area' = Area /\ Held' = Held
    BY <1>1, <1>8 DEF Area, Held, IsFit
  <2>2. CASE manager = "cow"
    <3>1. Cow!Next
      BY <1>8, <2>2 DEF Next
    <3> QED
      BY <1>1, <2>1, <2>2, <3>1, CowStep DEF IInv, IsFit
  <2>3. CASE manager = "load"
    <3>1. Load!Next
      BY <1>8, <2>3 DEF Next
    <3>2. LoadInv'
      BY <2>3, <3>1, LoadStep DEF IInv
    <3> QED
      BY <1>1, <1>4, <2>1, <2>3, <3>2 DEF IInv, IsFit
  <2> QED
    BY <1>8, <2>2, <2>3
<1> QED
  BY <1>2, <1>5, <1>6, <1>7, <1>8 DEF IInv, IsFit, vars

\* The allocators' lists say which memory is free, after any sequence of
\* allocations and frees and for memories of any size: of best fit and of first
\* fit (best_fit_pmm.c and default_pmm.c, *_alloc_pages and *_free_pages), of
\* the buddy allocator wherever its area begins (buddy_pmm.c), and of kmalloc
\* (kmalloc.c, slob_alloc and slob_free).
THEOREM ListsAreExact ==
    Spec => []ListsExact
<1>1. Init => IInv
  BY MemoryInit
<1>2. IInv /\ [Next]_vars => IInv'
  BY MemoryNext
<1>3. IInv => ListsExact
  BY FitIsExact, BuddyIsExact, SlobIsExact DEF IInv, ListsExact
<1> QED
  BY <1>1, <1>2, <1>3, PTL DEF Spec, vars

\* A program that load_icode has loaded finds the bytes of its file and zeroes
\* behind them, a load that fails leaves no page, and the list of its areas
\* (mmap_list, which do_fork copies) says which addresses user_mem_check and
\* copy_string let a system call at (proc.c, load_icode; vmm.c), for programs
\* of any segments and for every size of page and stack.
THEOREM ProgramIsLoaded ==
    Spec => []ProgramLoaded
<1>1. Init => IInv
  BY MemoryInit
<1>2. IInv /\ [Next]_vars => IInv'
  BY MemoryNext
<1>3. IInv => ProgramLoaded
  BY LoadIsExact DEF IInv, ProgramLoaded
<1> QED
  BY <1>1, <1>2, <1>3, PTL DEF Spec, vars

\* What alloc_pages and kmalloc promise: nobody is given memory somebody else
\* has, whatever the lists look like, and a free gives back memory that was
\* handed out; each allocator is a PagePool.
THEOREM MemoryIsPooled ==
    Spec => ImplementsPool
<1>1. Init => IInv /\ Pool!Init
  BY MemoryInit
<1>2. IInv /\ [Next]_vars =>
        IInv' /\ [Area' = Area /\ (Pool!Allocate \/ Pool!Release)]_<<Area, Held>>
  BY MemoryNext
<1> QED
  BY <1>1, <1>2, PTL DEF Spec, vars, ImplementsPool, Pool!Spec

\* The pages of the processes are counted, and a page that can be written is
\* mapped by one process only: whatever forks, copies, exits, execs and faults
\* of lab5 came before (pmm.c, copy_range_cow and page_remove_pte; vmm.c,
\* do_pgfault_cow).
THEOREM PagesAreCounted ==
    Spec => [](manager = "cow" => Cow!SharedExact)
<1>1. Init => IInv
  BY MemoryInit
<1>2. IInv /\ [Next]_vars => IInv'
  BY MemoryNext
<1>3. IInv => (manager = "cow" => Cow!SharedExact)
  BY DEF IInv, CowInv
<1> QED
  BY <1>1, <1>2, <1>3, PTL DEF Spec, vars

\* What fork, execve, exit and the faults of lab5 promise a program: no step of
\* one process changes what another reads, with copy-on-write or without.
THEOREM MemoryIsPrivate ==
    Spec => ImplementsPrivateMemory
<1>1. Init => IInv /\ Private!Init
  BY MemoryInit
<1>2. IInv /\ [Next]_vars => IInv' /\ [Private!Next]_Memory
  BY MemoryNext
<1> QED
  BY <1>1, <1>2, PTL DEF Spec, vars, ImplementsPrivateMemory, Private!Spec

=============================================================================
