------------------------------- MODULE SfsProofs -------------------------------
(***************************************************************************)
(* The safety of SFS files, for any number of files, descriptors and       *)
(* blocks, any layout of the block map and any size of a block: blocks are *)
(* neither lost nor shared, files have no holes, requests are cut into     *)
(* accesses that cover them, and what is closed is stored.                 *)
(***************************************************************************)
EXTENDS SfsProps, Foundations, FiniteSetTheorems, TLAPS

Ino  == Block \cup {0}
Last == SFS_NDIRECT + SFS_BLK_NENTRY

\* The contexts operations work on
Ctx == [sin : Inode, free : SUBSET Block, unused_blocks : Nat, super_dirty : BOOLEAN,
        table : [Block -> [Entries -> Ino]], ino : Ino, err : Failed \cup {"E_NO_MEM"}]

\* What an operation returns or stops with
Harmless == {"", "E_NO_MEM", "index <= din->blocks", "tblks == din->blocks"}

Runs(c) == c.err = ""

\* Where an inode points to, slot by slot
Pointers(sin, tab) ==
    [k \in Slots |-> IF k < SFS_NDIRECT THEN sin.direct[k]
                     ELSE IF k = Last THEN sin.indirect
                     ELSE IF sin.indirect = 0 THEN 0
                     ELSE tab[sin.indirect][k - SFS_NDIRECT]]
Ptr(c) == Pointers(c.sin, c.table)

\* The pointers P of an inode, in order, are the blocks that are neither free
\* nor of other inodes, each once.
Exact(P, avail, others) ==
    /\ P \in [Slots -> Ino] /\ others \subseteq Block
    /\ avail \cap others = {}
    /\ \A k \in Slots : P[k] # 0 => P[k] \in Block \ (avail \cup others)
    /\ \A k, l \in Slots : P[k] = P[l] /\ P[k] # 0 => k = l
    /\ \A b \in Block \ (avail \cup others) : \E k \in Slots : P[k] = b

\* The first n of them are there.
Full(P, n) == n <= Last /\ \A k \in 0..(n - 1) : P[k] # 0

\* What an operation on one inode finds and leaves, `others' being the blocks
\* of the other inodes
Good(c, others) ==
    /\ c \in Ctx
    /\ Exact(Ptr(c), c.free, others)
    /\ Full(Ptr(c), c.sin.blocks)
    /\ c.unused_blocks = Cardinality(c.free)
    /\ c.err \in Harmless

\* ... and what it does between: no block of another inode is written, and
\* without a dirty mark nothing changes but that blocks are counted.
Keeps(c, n, others) ==
    /\ Good(n, others)
    /\ \A b \in others : n.table[b] = c.table[b]
    /\ n.sin.dirty = FALSE => /\ c.sin.dirty = FALSE /\ c.sin.blocks <= n.sin.blocks
                              /\ n.sin.size = c.sin.size /\ n.sin.direct = c.sin.direct
                              /\ n.sin.indirect = c.sin.indirect
    /\ n.super_dirty = FALSE => c.super_dirty = FALSE /\ n.free = c.free

-----------------------------------------------------------------------------
\* The constants.
LEMMA Sizes ==
    /\ SFS_NDIRECT \in Nat \ {0} /\ SFS_BLK_NENTRY \in Nat \ {0} /\ Last \in Nat
    /\ Slots = 0..Last /\ Last \in Slots /\ Block \subseteq Nat \ {0} /\ 0 \notin Block
    /\ Entries = 0..(SFS_BLK_NENTRY - 1) /\ Zeros \in [Entries -> Ino]
    /\ \A S \in SUBSET Block : IsFiniteSet(S) /\ Cardinality(S) \in Nat
<1> USE BlockAssumption DEF Last, Slots, Entries, Zeros, Ino
<1>1. \A S \in SUBSET Block : IsFiniteSet(S) /\ Cardinality(S) \in Nat
  BY FS_Subset, FS_CardinalityType
<1>2. Slots = 0..Last /\ Last \in Slots /\ Last \in Nat
  OBVIOUS
<1>3. Zeros \in [Entries -> Ino] /\ Block \subseteq Nat \ {0} /\ 0 \notin Block
  OBVIOUS
<1> QED
  BY <1>1, <1>2, <1>3

\* The fields of a context.
LEMMA Fields ==
    ASSUME NEW c \in Ctx
    PROVE  /\ c.sin \in Inode /\ c.free \in SUBSET Block /\ c.unused_blocks \in Nat
           /\ c.super_dirty \in BOOLEAN /\ c.table \in [Block -> [Entries -> Ino]]
           /\ c.ino \in Ino /\ c.err \in Failed \cup {"E_NO_MEM"}
           /\ c.sin.size \in 0..SFS_MAX_FILE_SIZE /\ c.sin.blocks \in Nat
           /\ c.sin.direct \in [0..(SFS_NDIRECT - 1) -> Ino] /\ c.sin.indirect \in Ino
           /\ c.sin.dirty \in BOOLEAN
BY DEF Ctx, Inode, Ino

\* Pointers are block numbers or 0.
LEMMA PointersType ==
    ASSUME NEW sin \in Inode, NEW tab \in [Block -> [Entries -> Ino]]
    PROVE  Pointers(sin, tab) \in [Slots -> Ino]
<1> SUFFICES ASSUME NEW k \in Slots PROVE Pointers(sin, tab)[k] \in Ino
  BY DEF Pointers
<1>1. CASE k < SFS_NDIRECT
  <2>1. k \in 0..(SFS_NDIRECT - 1)
    BY <1>1, Sizes
  <2> QED
    BY <1>1, <2>1 DEF Pointers, Inode, Ino
<1>2. CASE ~ (k < SFS_NDIRECT) /\ k # Last /\ sin.indirect # 0
  <2>1. k - SFS_NDIRECT \in Entries
    BY <1>2, Sizes DEF Last
  <2>2. sin.indirect \in Block
    BY <1>2 DEF Inode
  <2>3. tab[sin.indirect][k - SFS_NDIRECT] \in Ino
    BY <2>1, <2>2
  <2> QED
    BY <1>2, <2>3 DEF Pointers
<1>3. CASE ~ (k < SFS_NDIRECT) /\ ~ (k # Last /\ sin.indirect # 0)
  BY <1>3 DEF Pointers, Inode, Ino
<1> QED
  BY <1>1, <1>2, <1>3

\* A pointer that was 0 is set to a free block.
LEMMA Taken ==
    ASSUME NEW P, NEW avail, NEW others, Exact(P, avail, others),
           NEW j \in Slots, P[j] = 0, NEW b \in avail, b \in Block
    PROVE  Exact([P EXCEPT ![j] = b], avail \ {b}, others)
<1> DEFINE Q == [P EXCEPT ![j] = b]
<1>1. /\ Q \in [Slots -> Ino] /\ Q[j] = b /\ \A k \in Slots : k # j => Q[k] = P[k]
      /\ b # 0 /\ b \notin others
  BY Sizes DEF Exact, Ino
<1> HIDE DEF Q
<1>2. \A k \in Slots : P[k] # b
  BY <1>1 DEF Exact
<1>3. \A k \in Slots : Q[k] # 0 => Q[k] \in Block \ ((avail \ {b}) \cup others)
  BY <1>1 DEF Exact
<1>4. \A k, l \in Slots : Q[k] = Q[l] /\ Q[k] # 0 => k = l
  BY <1>1, <1>2 DEF Exact
<1>5. \A x \in Block \ ((avail \ {b}) \cup others) : \E k \in Slots : Q[k] = x
  <2> SUFFICES ASSUME NEW x \in Block \ ((avail \ {b}) \cup others) PROVE \E k \in Slots : Q[k] = x
    OBVIOUS
  <2>1. CASE x = b
    BY <2>1, <1>1
  <2>2. CASE x # b
    <3>1. PICK k \in Slots : P[k] = x
      BY <2>2 DEF Exact
    <3>2. x # 0
      BY Sizes
    <3> QED
      BY <3>1, <3>2, <1>1
  <2> QED
    BY <2>1, <2>2
<1> QED
  BY <1>1, <1>3, <1>4, <1>5 DEF Exact, Q

\* A pointer is cleared and its block free.
LEMMA Given ==
    ASSUME NEW P, NEW avail, NEW others, Exact(P, avail, others), NEW j \in Slots, P[j] # 0
    PROVE  Exact([P EXCEPT ![j] = 0], avail \cup {P[j]}, others)
<1> DEFINE Q == [P EXCEPT ![j] = 0]
<1>1. /\ Q \in [Slots -> Ino] /\ Q[j] = 0 /\ \A k \in Slots : k # j => Q[k] = P[k]
      /\ P[j] \in Block \ (avail \cup others)
  BY DEF Exact, Ino
<1> HIDE DEF Q
<1>2. \A k \in Slots : Q[k] # 0 => k # j /\ Q[k] = P[k] /\ Q[k] # P[j]
  BY <1>1 DEF Exact
<1>3. \A k \in Slots : Q[k] # 0 => Q[k] \in Block \ ((avail \cup {P[j]}) \cup others)
  BY <1>2 DEF Exact
<1>4. \A k, l \in Slots : Q[k] = Q[l] /\ Q[k] # 0 => k = l
  BY <1>2 DEF Exact
<1>5. \A x \in Block \ ((avail \cup {P[j]}) \cup others) : \E k \in Slots : Q[k] = x
  BY <1>1 DEF Exact
<1> QED
  BY <1>1, <1>3, <1>4, <1>5 DEF Exact, Q

\* The disk is full before a file has every block its inode can point to.
LEMMA NotFull ==
    ASSUME NEW P, NEW avail, NEW others, NEW n \in Nat, Exact(P, avail, others), Full(P, n),
           (P[Last] = 0 => P[SFS_NDIRECT] = 0)
    PROVE  n < Last
<1> SUFFICES ASSUME n = Last PROVE FALSE
  BY Sizes DEF Full
<1>1. \A k \in Slots : P[k] # 0
  <2>1. \A k \in 0..(Last - 1) : P[k] # 0
    BY DEF Full
  <2>2. SFS_NDIRECT \in 0..(Last - 1)
    BY Sizes DEF Last
  <2>3. P[Last] # 0
    BY <2>1, <2>2
  <2> QED
    BY <2>1, <2>3, Sizes
<1>2. P \in [Slots -> Block] /\ \A k, l \in Slots : P[k] = P[l] => k = l
  BY <1>1 DEF Exact, Ino
<1>3. P \in Injection(Slots, Block)
  BY <1>2 DEF Injection, IsInjective
<1>4. Cardinality(Slots) <= Cardinality(Block)
  BY <1>3, FS_Injection, BlockAssumption
<1>5. Cardinality(Slots) = Last + 1
  BY Sizes, FS_Interval
<1> QED
  BY <1>4, <1>5, Sizes, ImageAssumption DEF Last

\* ... in a context:
LEMMA RoomLeft ==
    ASSUME NEW c, NEW others, Good(c, others)
    PROVE  c.sin.blocks < Last
<1>1. c \in Ctx /\ Exact(Ptr(c), c.free, others) /\ Full(Ptr(c), c.sin.blocks)
  BY DEF Good
<1>2. Ptr(c)[Last] = 0 => Ptr(c)[SFS_NDIRECT] = 0
  <2>1. SFS_NDIRECT \in Slots /\ Last \in Slots /\ SFS_NDIRECT # Last /\ ~ (SFS_NDIRECT < SFS_NDIRECT)
        /\ ~ (Last < SFS_NDIRECT)
    BY Sizes DEF Last
  <2> QED
    BY <2>1 DEF Ptr, Pointers
<1>3. c.sin.blocks \in Nat
  BY <1>1, Fields
<1> QED
  BY <1>1, <1>2, <1>3, NotFull

\* bitmap_alloc on a disk that is not full.
LEMMA AllocIs ==
    ASSUME NEW c \in Ctx, c.free # {}
    PROVE  LET n == BlockAlloc(c)
           IN  /\ n.ino \in c.free /\ n.free = c.free \ {n.ino} /\ n.super_dirty = TRUE
               /\ n.sin = c.sin /\ n.err = c.err /\ n.table = [c.table EXCEPT ![n.ino] = Zeros]
               /\ n.unused_blocks = c.unused_blocks - 1
               /\ c.unused_blocks = Cardinality(c.free) =>
                     n \in Ctx /\ n.unused_blocks = Cardinality(n.free)
<1> DEFINE b == CHOOSE x \in c.free : \A y \in c.free : x <= y
    n == BlockAlloc(c)
<1>1. c.free \in SUBSET Nat
  BY Fields, Sizes
<1>2. \E x \in c.free : \A y \in c.free : x <= y
  BY <1>1, LeastNatural
<1>3. b \in c.free
  BY <1>2
<1> HIDE DEF b
<1>4. n = [c EXCEPT !.free = c.free \ {b}, !.unused_blocks = c.unused_blocks - 1, !.super_dirty = TRUE,
                    !.table = [c.table EXCEPT ![b] = Zeros], !.ino = b]
  BY DEF BlockAlloc, b, Ctx
<1>5. /\ n.ino = b /\ n.free = c.free \ {b} /\ n.super_dirty = TRUE /\ n.sin = c.sin /\ n.err = c.err
      /\ n.table = [c.table EXCEPT ![b] = Zeros] /\ n.unused_blocks = c.unused_blocks - 1
  BY <1>4 DEF Ctx
<1>6. ASSUME c.unused_blocks = Cardinality(c.free)
      PROVE  n \in Ctx /\ n.unused_blocks = Cardinality(n.free)
  <2>1. IsFiniteSet(c.free) /\ Cardinality(c.free \ {b}) = Cardinality(c.free) - 1
    BY <1>3, Fields, Sizes, FS_RemoveElement
  <2>2. c.free \ {b} \in SUBSET Block /\ b \in Ino /\ Cardinality(c.free \ {b}) \in Nat
    BY <1>3, Fields, Sizes DEF Ino
  <2>3. [c.table EXCEPT ![b] = Zeros] \in [Block -> [Entries -> Ino]]
    BY Fields, Sizes
  <2>5. c.unused_blocks - 1 \in Nat
    BY <1>6, <2>1, <2>2
  <2>4. n \in Ctx
    BY <1>4, <2>2, <2>3, <2>5 DEF Ctx
  <2> QED
    BY <1>5, <1>6, <2>1, <2>4
<1> QED
  BY <1>3, <1>5, <1>6

\* bitmap_free.
LEMMA FreeIs ==
    ASSUME NEW c \in Ctx, c.unused_blocks = Cardinality(c.free), NEW b \in Block, b \notin c.free
    PROVE  LET n == BlockFree(c, b)
           IN  /\ n \in Ctx /\ n.free = c.free \cup {b} /\ n.unused_blocks = Cardinality(n.free)
               /\ n.super_dirty = TRUE /\ n.sin = c.sin /\ n.table = c.table /\ n.err = c.err
               /\ n.ino = c.ino
<1> DEFINE n == BlockFree(c, b)
<1>1. n = [c EXCEPT !.free = c.free \cup {b}, !.unused_blocks = c.unused_blocks + 1,
                    !.super_dirty = TRUE]
  BY DEF BlockFree, Ctx
<1>2. Cardinality(c.free \cup {b}) = Cardinality(c.free) + 1
  BY Fields, Sizes, FS_AddElement
<1>3. c.free \cup {b} \in SUBSET Block /\ c.unused_blocks + 1 \in Nat
  BY Fields
<1>4. n \in Ctx
  BY <1>1, <1>3 DEF Ctx
<1> QED
  BY <1>1, <1>2, <1>4 DEF Ctx

-----------------------------------------------------------------------------
\* What a good context says of its fields.
LEMMA GoodIs ==
    ASSUME NEW c, NEW others, Good(c, others)
    PROVE  /\ c \in Ctx /\ Exact(Ptr(c), c.free, others) /\ Full(Ptr(c), c.sin.blocks)
           /\ c.unused_blocks = Cardinality(c.free)
           /\ c.err \in Harmless
           /\ c.sin \in Inode /\ c.free \subseteq Block /\ others \subseteq Block
           /\ c.free \cap others = {} /\ c.table \in [Block -> [Entries -> Ino]]
           /\ Ptr(c) \in [Slots -> Ino] /\ c.sin.blocks \in Nat
<1>1. c \in Ctx /\ Exact(Ptr(c), c.free, others)
  BY DEF Good
<1>2. others \subseteq Block /\ c.free \cap others = {} /\ Ptr(c) \in [Slots -> Ino]
  BY <1>1 DEF Exact
<1> QED
  BY <1>1, <1>2, Fields DEF Good

\* The indirect block of an inode is a block that is used, and by no other inode.
LEMMA IndirectUsed ==
    ASSUME NEW c, NEW others, Good(c, others)
    PROVE  /\ Ptr(c)[Last] = c.sin.indirect /\ c.sin.indirect \in Ino
           /\ c.sin.indirect # 0 => c.sin.indirect \in Block \ (c.free \cup others)
<1>1. ~ (Last < SFS_NDIRECT) /\ Last \in Slots
  BY Sizes DEF Last
<1>2. Ptr(c)[Last] = c.sin.indirect
  BY <1>1 DEF Ptr, Pointers
<1>3. Exact(Ptr(c), c.free, others) /\ Ptr(c) \in [Slots -> Ino]
  BY GoodIs
<1>4. \A k \in Slots : Ptr(c)[k] # 0 => Ptr(c)[k] \in Block \ (c.free \cup others)
  BY <1>3 DEF Exact
<1> QED
  BY <1>1, <1>2, <1>3, <1>4

\* Writing blocks that are free moves no pointer.
LEMMA FreeWritten ==
    ASSUME NEW c, NEW others, Good(c, others), NEW tab, \A b \in Block \ c.free : tab[b] = c.table[b]
    PROVE  Pointers(c.sin, tab) = Ptr(c) /\ \A b \in others : tab[b] = c.table[b]
<1>1. c.sin.indirect # 0 => c.sin.indirect \in Block \ c.free
  BY IndirectUsed
<1>2. Pointers(c.sin, tab) = Ptr(c)
  BY <1>1 DEF Ptr, Pointers
<1>3. others \subseteq Block /\ c.free \cap others = {}
  BY GoodIs
<1> QED
  BY <1>2, <1>3

\* An operation that leaves the inode and the freemap as they are.
LEMMA SameKeeps ==
    ASSUME NEW c, NEW n \in Ctx, NEW others, Good(c, others),
           n.sin = c.sin, n.free = c.free, n.unused_blocks = c.unused_blocks,
           \A b \in Block \ c.free : n.table[b] = c.table[b],
           n.super_dirty = FALSE => c.super_dirty = FALSE,
           n.err \in Harmless
    PROVE  Keeps(c, n, others) /\ Ptr(n) = Ptr(c)
<1>1. /\ Exact(Ptr(c), c.free, others) /\ Full(Ptr(c), c.sin.blocks)
      /\ c.unused_blocks = Cardinality(c.free) /\ c.sin.blocks \in Nat
  BY GoodIs
<1>2. Ptr(n) = Ptr(c) /\ \A b \in others : n.table[b] = c.table[b]
  <2>1. Pointers(c.sin, n.table) = Ptr(c) /\ \A b \in others : n.table[b] = c.table[b]
    BY FreeWritten
  <2> QED
    BY <2>1 DEF Ptr
<1>3. Good(n, others)
  BY <1>1, <1>2 DEF Good
<1>4. c.sin.blocks <= n.sin.blocks
  BY <1>1
<1> QED
  BY <1>2, <1>3, <1>4 DEF Keeps

\* An operation that finds a block.
LEMMA InoKeeps ==
    ASSUME NEW c, NEW others, Good(c, others), NEW x \in Ino
    PROVE  LET n == [c EXCEPT !.ino = x]
           IN  /\ Keeps(c, n, others) /\ Ptr(n) = Ptr(c) /\ n.ino = x /\ n.err = c.err
               /\ n.sin = c.sin /\ n.free = c.free /\ n.table = c.table
               /\ n.unused_blocks = c.unused_blocks /\ n.super_dirty = c.super_dirty
<1> DEFINE n == [c EXCEPT !.ino = x]
<1>1. c \in Ctx /\ c.err \in Harmless
  BY GoodIs
<1>2. /\ n \in Ctx /\ n.ino = x /\ n.err = c.err
      /\ n.sin = c.sin /\ n.free = c.free /\ n.table = c.table
      /\ n.unused_blocks = c.unused_blocks /\ n.super_dirty = c.super_dirty
  BY <1>1 DEF Ctx
<1> HIDE DEF n
<1>3. Keeps(c, n, others) /\ Ptr(n) = Ptr(c)
  BY <1>1, <1>2, SameKeeps
<1> QED
  BY <1>2, <1>3 DEF n

\* An operation that fails.
LEMMA ErrKeeps ==
    ASSUME NEW c, NEW others, Good(c, others), NEW e \in Harmless
    PROVE  LET n == [c EXCEPT !.err = e]
           IN  Keeps(c, n, others) /\ n.err = e /\ n.sin = c.sin
<1> DEFINE n == [c EXCEPT !.err = e]
<1>1. c \in Ctx /\ e \in Failed \cup {"E_NO_MEM"}
  BY GoodIs DEF Harmless, Failed
<1>2. /\ n \in Ctx /\ n.err = e /\ n.sin = c.sin /\ n.free = c.free /\ n.table = c.table
      /\ n.unused_blocks = c.unused_blocks /\ n.super_dirty = c.super_dirty
  BY <1>1 DEF Ctx
<1> HIDE DEF n
<1>3. Keeps(c, n, others)
  BY <1>2, SameKeeps
<1> QED
  BY <1>2, <1>3 DEF n

\* Pointers that are kept keep a file full.
LEMMA StillFull ==
    ASSUME NEW P, NEW Q, NEW m \in Nat, Full(P, m), \A k \in Slots : P[k] # 0 => Q[k] # 0
    PROVE  Full(Q, m)
<1>1. \A k \in 0..(m - 1) : k \in Slots
  BY Sizes DEF Full
<1> QED
  BY <1>1 DEF Full

\* An operation that takes a block and marks what it changes.
LEMMA TakenKeeps ==
    ASSUME NEW c, NEW n \in Ctx, NEW others, Good(c, others),
           n.sin.dirty = TRUE \/ n.sin = c.sin, n.super_dirty = TRUE,
           n.sin.blocks = c.sin.blocks, n.err = c.err,
           n.unused_blocks = Cardinality(n.free),
           Exact(Ptr(n), n.free, others),
           \A k \in Slots : Ptr(c)[k] # 0 => Ptr(n)[k] # 0,
           \A b \in others : n.table[b] = c.table[b]
    PROVE  Keeps(c, n, others)
<1>1. Full(Ptr(c), c.sin.blocks) /\ c.sin.blocks \in Nat
      /\ c.err \in Harmless
  BY GoodIs
<1>3. Full(Ptr(n), n.sin.blocks)
  BY <1>1, StillFull
<1>4. Good(n, others)
  BY <1>1, <1>3 DEF Good
<1>5. c.sin.blocks <= n.sin.blocks
  BY <1>1
<1> QED
  BY <1>4, <1>5 DEF Keeps

\* sfs_bmap_get_nolock takes a block for a direct entry.
LEMMA DirectNew ==
    ASSUME NEW c, NEW others, Good(c, others), c.free # {},
           NEW i \in 0..(SFS_NDIRECT - 1), c.sin.direct[i] = 0
    PROVE  LET a == BlockAlloc(c)
               n == [a EXCEPT !.sin.direct[i] = a.ino, !.sin.dirty = TRUE]
           IN  /\ Keeps(c, n, others) /\ n.sin.blocks = c.sin.blocks /\ n.err = c.err
               /\ n.ino # 0 /\ Ptr(n)[i] = n.ino
<1> DEFINE a == BlockAlloc(c)
           b == a.ino
           sin2 == [c.sin EXCEPT !.direct = [c.sin.direct EXCEPT ![i] = b], !.dirty = TRUE]
           n == [a EXCEPT !.sin.direct[i] = a.ino, !.sin.dirty = TRUE]
<1>0. /\ c \in Ctx /\ Exact(Ptr(c), c.free, others) /\ c.unused_blocks = Cardinality(c.free)
      /\ c.sin \in Inode /\ c.free \subseteq Block /\ others \subseteq Block
      /\ c.free \cap others = {} /\ c.table \in [Block -> [Entries -> Ino]]
      /\ Ptr(c) \in [Slots -> Ino]
  BY GoodIs
<1>1. /\ b \in c.free /\ a.free = c.free \ {b} /\ a.super_dirty = TRUE
      /\ a.sin = c.sin /\ a.err = c.err /\ a.table = [c.table EXCEPT ![b] = Zeros]
      /\ a \in Ctx /\ a.unused_blocks = Cardinality(a.free)
  BY <1>0, AllocIs
<1> HIDE DEF a, b
<1>2. b \in Block /\ b # 0 /\ b \in Ino
  BY <1>0, <1>1, Sizes DEF Ino
<1>3. i \in Slots /\ i < SFS_NDIRECT /\ i # Last
  BY Sizes DEF Last
<1>4. sin2 \in Inode /\ sin2.dirty = TRUE /\ sin2.blocks = c.sin.blocks /\ sin2.indirect = c.sin.indirect
      /\ sin2.direct = [c.sin.direct EXCEPT ![i] = b] /\ c.sin.direct \in [0..(SFS_NDIRECT - 1) -> Ino]
  BY <1>0, <1>2 DEF Inode, Ino
<1>5. n = [a EXCEPT !.sin = sin2]
  BY <1>1 DEF b
<1> HIDE DEF sin2
<1>6. /\ n \in Ctx /\ n.sin = sin2 /\ n.free = a.free /\ n.super_dirty = TRUE /\ n.table = a.table
      /\ n.unused_blocks = a.unused_blocks /\ n.err = a.err /\ n.ino = b
  BY <1>1, <1>4, <1>5 DEF Ctx, b
<1> HIDE DEF n
<1>7. \A x \in Block \ c.free : a.table[x] = c.table[x]
  BY <1>0, <1>1
<1>8. Pointers(c.sin, a.table) = Ptr(c) /\ \A x \in others : a.table[x] = c.table[x]
  BY <1>7, FreeWritten
<1>9. Pointers(sin2, a.table) = [Pointers(c.sin, a.table) EXCEPT ![i] = b]
  <2>1. \A k \in Slots : k < SFS_NDIRECT => k \in 0..(SFS_NDIRECT - 1)
    BY Sizes
  <2>2. ASSUME NEW k \in Slots
        PROVE  Pointers(sin2, a.table)[k] = [Pointers(c.sin, a.table) EXCEPT ![i] = b][k]
    BY <1>3, <1>4, <2>1 DEF Pointers
  <2> QED
    BY <2>2 DEF Pointers
<1>10. Ptr(n) = [Ptr(c) EXCEPT ![i] = b]
  BY <1>6, <1>8, <1>9 DEF Ptr
<1>11. Ptr(c)[i] = 0
  BY <1>3 DEF Ptr, Pointers
<1>12. Exact(Ptr(n), n.free, others)
  <2>1. Exact([Ptr(c) EXCEPT ![i] = b], c.free \ {b}, others)
    BY <1>0, <1>1, <1>2, <1>3, <1>11, Taken
  <2> QED
    BY <2>1, <1>1, <1>6, <1>10
<1>13. \A k \in Slots : Ptr(c)[k] # 0 => Ptr(n)[k] # 0
  BY <1>0, <1>2, <1>10
<1>14. Ptr(n)[i] = b
  BY <1>0, <1>3, <1>10
<1>15. n.sin.dirty = TRUE /\ n.super_dirty = TRUE /\ n.sin.blocks = c.sin.blocks /\ n.err = c.err
       /\ n.unused_blocks = Cardinality(n.free) /\ \A x \in others : n.table[x] = c.table[x]
  BY <1>1, <1>4, <1>6, <1>8
<1>16. Keeps(c, n, others)
  <2>1. n.sin.dirty = TRUE \/ n.sin = c.sin
    BY <1>15
  <2> QED
    BY <1>6, <1>12, <1>13, <1>15, <2>1, TakenKeeps
<1>17. n.ino # 0 /\ Ptr(n)[i] = n.ino
  BY <1>2, <1>6, <1>14
<1> QED
  BY <1>15, <1>16, <1>17 DEF n, a

\* Where an index beyond the direct entries points.
LEMMA IndirectAt ==
    ASSUME NEW sin \in Inode, NEW tab, NEW i \in Entries
    PROVE  /\ i + SFS_NDIRECT \in Slots /\ i + SFS_NDIRECT # Last
           /\ Pointers(sin, tab)[i + SFS_NDIRECT] = IF sin.indirect = 0 THEN 0 ELSE tab[sin.indirect][i]
<1>1. /\ i + SFS_NDIRECT \in Slots /\ i + SFS_NDIRECT # Last /\ ~ (i + SFS_NDIRECT < SFS_NDIRECT)
      /\ (i + SFS_NDIRECT) - SFS_NDIRECT = i
  BY Sizes DEF Last
<1> QED
  BY <1>1 DEF Pointers

\* Setting an entry of the indirect block sets one pointer.
LEMMA EntrySet ==
    ASSUME NEW sin \in Inode, sin.indirect # 0, NEW tab \in [Block -> [Entries -> Ino]],
           NEW tab2 \in [Block -> [Entries -> Ino]], NEW i \in Entries, NEW d \in Ino,
           tab2[sin.indirect][i] = d,
           \A j \in Entries : j # i => tab2[sin.indirect][j] = tab[sin.indirect][j]
    PROVE  \A k \in Slots : Pointers(sin, tab2)[k]
              = IF k = i + SFS_NDIRECT THEN d ELSE Pointers(sin, tab)[k]
<1> DEFINE e == sin.indirect
           P == Pointers(sin, tab)
           Q == Pointers(sin, tab2)
<1>1. e \in Block /\ e # 0
  BY DEF Inode
<1>2. tab2[e][i] = d /\ \A j \in Entries : j # i => tab2[e][j] = tab[e][j]
  OBVIOUS
<1>3. /\ i + SFS_NDIRECT \in Slots /\ i + SFS_NDIRECT # Last /\ ~ (i + SFS_NDIRECT < SFS_NDIRECT)
      /\ (i + SFS_NDIRECT) - SFS_NDIRECT = i
  BY Sizes DEF Last
<1>4. \A k \in Slots : ~ (k < SFS_NDIRECT) /\ k # Last
                          => k - SFS_NDIRECT \in Entries /\ (k - SFS_NDIRECT = i => k = i + SFS_NDIRECT)
  BY Sizes DEF Last
<1>5. ASSUME NEW k \in Slots PROVE Q[k] = IF k = i + SFS_NDIRECT THEN d ELSE P[k]
  <2>1. CASE k = i + SFS_NDIRECT
    <3>1. Q[k] = tab2[e][i]
      BY <1>1, <1>3, <2>1 DEF Pointers
    <3>2. Q[k] = d
      BY <1>2, <3>1
    <3> QED
      BY <1>3, <2>1, <3>2 DEF Pointers
  <2>2. CASE k # i + SFS_NDIRECT
    <3>2. CASE k < SFS_NDIRECT \/ k = Last
      BY <2>2, <3>2 DEF Pointers
    <3>3. CASE ~ (k < SFS_NDIRECT) /\ k # Last
      <4>1. k - SFS_NDIRECT \in Entries /\ k - SFS_NDIRECT # i
        BY <1>4, <2>2, <3>3
      <4>2. tab2[e][k - SFS_NDIRECT] = tab[e][k - SFS_NDIRECT]
        BY <1>2, <4>1
      <4>3. Q[k] = tab2[e][k - SFS_NDIRECT] /\ P[k] = tab[e][k - SFS_NDIRECT]
        BY <1>1, <3>3 DEF Pointers
      <4> QED
        BY <2>2, <4>2, <4>3
    <3> QED
      BY <3>2, <3>3
  <2> QED
    BY <2>1, <2>2
<1> QED
  BY <1>5

\* sfs_bmap_get_sub_nolock takes a block for an entry of the indirect block.
LEMMA IndirectNew ==
    ASSUME NEW c, NEW others, Good(c, others), c.sin.indirect # 0,
           NEW i \in Entries, c.table[c.sin.indirect][i] = 0, c.free # {}
    PROVE  LET ent == c.sin.indirect
               tab == [c EXCEPT !.ino = ent]
               data == BlockAlloc(tab)
               n == [data EXCEPT !.table[tab.ino][i] = data.ino, !.sin.indirect = tab.ino,
                                 !.sin.dirty = @ \/ tab.ino # ent]
           IN  /\ Keeps(c, n, others) /\ n.sin.blocks = c.sin.blocks /\ n.err = c.err
               /\ n.ino # 0 /\ Ptr(n)[i + SFS_NDIRECT] = n.ino
<1> DEFINE ent == c.sin.indirect
           tab == [c EXCEPT !.ino = ent]
           data == BlockAlloc(tab)
           d == data.ino
           n == [data EXCEPT !.table[tab.ino][i] = data.ino, !.sin.indirect = tab.ino,
                             !.sin.dirty = @ \/ tab.ino # ent]
           tab2 == [data.table EXCEPT ![ent][i] = d]
           k == i + SFS_NDIRECT
<1>0. /\ c \in Ctx /\ Exact(Ptr(c), c.free, others) /\ c.unused_blocks = Cardinality(c.free)
      /\ c.sin \in Inode /\ c.free \subseteq Block /\ others \subseteq Block
      /\ c.free \cap others = {} /\ c.table \in [Block -> [Entries -> Ino]]
      /\ Ptr(c) \in [Slots -> Ino]
  BY GoodIs
<1>1. ent \in Block \ (c.free \cup others) /\ ent \in Ino
  BY IndirectUsed
<1>2. /\ Good(tab, others) /\ tab.ino = ent /\ tab.err = c.err /\ tab.sin = c.sin
      /\ tab.free = c.free /\ tab.table = c.table /\ tab.unused_blocks = c.unused_blocks
  BY <1>1, InoKeeps DEF Keeps
<1> HIDE DEF tab
<1>3. /\ d \in c.free /\ data.free = c.free \ {d} /\ data.super_dirty = TRUE
      /\ data.sin = c.sin /\ data.err = c.err /\ data.table = [c.table EXCEPT ![d] = Zeros]
      /\ data \in Ctx /\ data.unused_blocks = Cardinality(data.free)
  <2>1. tab \in Ctx /\ tab.free # {} /\ tab.unused_blocks = Cardinality(tab.free)
    BY <1>0, <1>2, GoodIs
  <2> QED
    BY <1>2, <2>1, AllocIs
<1> HIDE DEF data
<1>4. d \in Block /\ d # 0 /\ d \in Ino /\ d # ent
  BY <1>0, <1>1, <1>3, Sizes DEF Ino
<1>5. [c.sin EXCEPT !.indirect = ent, !.dirty = c.sin.dirty \/ ent # ent] = c.sin
  <2>1. (c.sin.dirty \/ ent # ent) = c.sin.dirty
    <3>1. c.sin.dirty \in BOOLEAN
      BY <1>0 DEF Inode
    <3> QED
      BY <3>1, Zenon
  <2> HIDE DEF ent
  <2>2. [c.sin EXCEPT !.indirect = ent, !.dirty = c.sin.dirty] = c.sin
    BY <1>0 DEF Inode, ent
  <2> QED
    BY <2>1, <2>2
<1>6. n = [data EXCEPT !.table = tab2]
  <2>1. n = [data EXCEPT !.table = tab2,
                         !.sin = [c.sin EXCEPT !.indirect = ent, !.dirty = c.sin.dirty \/ ent # ent]]
    BY <1>2, <1>3 DEF Ctx
  <2> HIDE DEF n, tab2
  <2>2. n = [data EXCEPT !.table = tab2, !.sin = c.sin]
    BY <1>5, <2>1
  <2> QED
    BY <1>3, <2>2 DEF Ctx
<1>7. data.table \in [Block -> [Entries -> Ino]] /\ tab2 \in [Block -> [Entries -> Ino]]
  <2>1. data.table \in [Block -> [Entries -> Ino]]
    BY <1>3, Fields
  <2> QED
    BY <2>1, <1>4
<1> HIDE DEF n, tab2
<1>8. /\ n \in Ctx /\ n.sin = c.sin /\ n.free = data.free /\ n.super_dirty = TRUE /\ n.table = tab2
      /\ n.unused_blocks = data.unused_blocks /\ n.err = data.err /\ n.ino = d
  BY <1>3, <1>6, <1>7 DEF Ctx
<1>9. \A x \in Block \ c.free : data.table[x] = c.table[x]
  BY <1>0, <1>3
<1>10. Pointers(c.sin, data.table) = Ptr(c) /\ \A x \in others : data.table[x] = c.table[x]
  BY <1>9, FreeWritten
<1>11. Ptr(n) = [Ptr(c) EXCEPT ![k] = d]
  <2>1. \A l \in Slots : Pointers(c.sin, tab2)[l] = IF l = k THEN d ELSE Pointers(c.sin, data.table)[l]
    <3>1. /\ tab2[c.sin.indirect][i] = d
          /\ \A j \in Entries : j # i => tab2[c.sin.indirect][j] = data.table[c.sin.indirect][j]
      BY <1>1, <1>7 DEF tab2
    <3> QED
      <4> DEFINE u == data.table
                 sin == c.sin
      <4>1. /\ sin \in Inode /\ sin.indirect # 0 /\ u \in [Block -> [Entries -> Ino]]
            /\ tab2 \in [Block -> [Entries -> Ino]] /\ i \in Entries /\ d \in Ino
            /\ tab2[sin.indirect][i] = d
            /\ \A j \in Entries : j # i => tab2[sin.indirect][j] = u[sin.indirect][j]
        BY <1>0, <1>4, <1>7, <3>1
      <4> HIDE DEF sin, u
      <4>2. \A l \in Slots : Pointers(sin, tab2)[l]
                = IF l = i + SFS_NDIRECT THEN d ELSE Pointers(sin, u)[l]
        BY <4>1, EntrySet
      <4> QED
        BY <4>2 DEF sin, u
  <2>2. \A l \in Slots : Ptr(n)[l] = [Ptr(c) EXCEPT ![k] = d][l]
    BY <1>0, <1>8, <1>10, <2>1 DEF Ptr
  <2> QED
    BY <2>2 DEF Ptr, Pointers
<1>12. k \in Slots /\ Ptr(c)[k] = 0
  BY <1>0, IndirectAt DEF Ptr
<1> HIDE DEF k
<1>13. Exact(Ptr(n), n.free, others)
  <2>1. Exact([Ptr(c) EXCEPT ![k] = d], c.free \ {d}, others)
    BY <1>0, <1>3, <1>4, <1>12, Taken
  <2> QED
    BY <2>1, <1>3, <1>8, <1>11
<1>14. \A l \in Slots : Ptr(c)[l] # 0 => Ptr(n)[l] # 0
  BY <1>0, <1>4, <1>11
<1>15. Ptr(n)[k] = d
  BY <1>0, <1>11, <1>12
<1>16. \A x \in others : n.table[x] = c.table[x]
  <2>1. \A x \in others : tab2[x] = data.table[x]
    BY <1>0, <1>1, <1>7 DEF tab2
  <2> QED
    BY <2>1, <1>8, <1>10
<1>17. n.super_dirty = TRUE /\ n.sin.blocks = c.sin.blocks /\ n.err = c.err
       /\ n.unused_blocks = Cardinality(n.free)
  BY <1>3, <1>8
<1>18. Keeps(c, n, others)
  <2>1. n.sin.dirty = TRUE \/ n.sin = c.sin
    BY <1>8
  <2> QED
    BY <1>8, <1>13, <1>14, <1>16, <1>17, <2>1, TakenKeeps
<1>19. n.ino # 0 /\ Ptr(n)[k] = n.ino
  BY <1>4, <1>8, <1>15
<1> QED
  BY <1>17, <1>18, <1>19 DEF n, tab, data, k

\* A new indirect block is empty.
LEMMA IndirectEmpty ==
    ASSUME NEW sin \in Inode, sin.indirect = 0, NEW sin2 \in Inode, sin2.indirect # 0,
           sin2.direct = sin.direct, NEW tab, NEW tab2, tab2[sin2.indirect] = Zeros
    PROVE  \A l \in Slots : Pointers(sin2, tab2)[l]
                                = IF l = Last THEN sin2.indirect ELSE Pointers(sin, tab)[l]
<1> SUFFICES ASSUME NEW l \in Slots
             PROVE  Pointers(sin2, tab2)[l] = IF l = Last THEN sin2.indirect ELSE Pointers(sin, tab)[l]
  OBVIOUS
<1>1. ~ (Last < SFS_NDIRECT)
  BY Sizes DEF Last
<1>2. CASE l < SFS_NDIRECT
  <2>1. l # Last
    BY <1>1, <1>2
  <2> QED
    BY <1>2, <2>1 DEF Pointers
<1>3. CASE l = Last
  BY <1>1, <1>3 DEF Pointers
<1>4. CASE ~ (l < SFS_NDIRECT) /\ l # Last
  <2>1. l - SFS_NDIRECT \in Entries
    BY <1>4, Sizes DEF Last
  <2>2. tab2[sin2.indirect][l - SFS_NDIRECT] = 0
    BY <2>1 DEF Zeros
  <2>3. Pointers(sin2, tab2)[l] = tab2[sin2.indirect][l - SFS_NDIRECT]
    BY <1>4 DEF Pointers
  <2>4. Pointers(sin, tab)[l] = 0
    BY <1>4 DEF Pointers
  <2> QED
    BY <1>4, <2>2, <2>3, <2>4
<1> QED
  BY <1>2, <1>3, <1>4

\* sfs_bmap_get_nolock takes an indirect block and a block for its entry.
LEMMA IndirectFirst ==
    ASSUME NEW c, NEW others, Good(c, others), c.sin.indirect = 0,
           NEW i \in Entries, c.free # {}, BlockAlloc(c).free # {}
    PROVE  LET ent == c.sin.indirect
               tab == BlockAlloc(c)
               data == BlockAlloc(tab)
               n == [data EXCEPT !.table[tab.ino][i] = data.ino, !.sin.indirect = tab.ino,
                                 !.sin.dirty = @ \/ tab.ino # ent]
           IN  /\ Keeps(c, n, others) /\ n.sin.blocks = c.sin.blocks /\ n.err = c.err
               /\ n.ino # 0 /\ Ptr(n)[i + SFS_NDIRECT] = n.ino
<1> DEFINE ent == c.sin.indirect
           tab == BlockAlloc(c)
           t == tab.ino
           data == BlockAlloc(tab)
           d == data.ino
           u == data.table
           n == [data EXCEPT !.table[tab.ino][i] = data.ino, !.sin.indirect = tab.ino,
                             !.sin.dirty = @ \/ tab.ino # ent]
           tab2 == [u EXCEPT ![t][i] = d]
           sin == c.sin
           sin2 == [sin EXCEPT !.indirect = t, !.dirty = TRUE]
           k == i + SFS_NDIRECT
           Q == [Ptr(c) EXCEPT ![Last] = t]
<1>0. /\ c \in Ctx /\ Exact(Ptr(c), c.free, others) /\ c.unused_blocks = Cardinality(c.free)
      /\ c.sin \in Inode /\ c.free \subseteq Block /\ others \subseteq Block
      /\ c.free \cap others = {} /\ c.table \in [Block -> [Entries -> Ino]]
      /\ Ptr(c) \in [Slots -> Ino]
  BY GoodIs
<1>1. /\ t \in c.free /\ tab.free = c.free \ {t} /\ tab.super_dirty = TRUE
      /\ tab.sin = sin /\ tab.err = c.err /\ tab.table = [c.table EXCEPT ![t] = Zeros]
      /\ tab \in Ctx /\ tab.unused_blocks = Cardinality(tab.free)
  BY <1>0, AllocIs
<1>2. tab.free # {}
  OBVIOUS
<1> HIDE DEF tab
<1>3. /\ d \in tab.free /\ data.free = tab.free \ {d} /\ data.super_dirty = TRUE
      /\ data.sin = tab.sin /\ data.err = tab.err /\ u = [tab.table EXCEPT ![d] = Zeros]
      /\ data \in Ctx /\ data.unused_blocks = Cardinality(data.free)
  BY <1>1, <1>2, AllocIs
<1> HIDE DEF data
<1>4. /\ t \in Block /\ t # 0 /\ t \in Ino /\ d \in Block /\ d # 0 /\ d \in Ino /\ d # t
      /\ t \notin others /\ d \notin others /\ d \in c.free
  BY <1>0, <1>1, <1>3, Sizes DEF Ino
<1>5. /\ sin2 \in Inode /\ sin2.dirty = TRUE /\ sin2.blocks = c.sin.blocks /\ sin2.indirect = t
      /\ sin2.direct = sin.direct
  BY <1>0, <1>4 DEF Inode, Ino
<1>6. n = [data EXCEPT !.table = tab2, !.sin = sin2]
  <2>1. n = [data EXCEPT !.table = tab2,
                         !.sin = [sin EXCEPT !.indirect = t, !.dirty = sin.dirty \/ t # ent]]
    BY <1>1, <1>3 DEF Ctx
  <2>2. (sin.dirty \/ t # ent) = TRUE
    BY <1>4
  <2> HIDE DEF n, tab2, t, ent
  <2> QED
    BY <2>1, <2>2
<1>7. u \in [Block -> [Entries -> Ino]] /\ tab2 \in [Block -> [Entries -> Ino]]
  <2>1. u \in [Block -> [Entries -> Ino]]
    BY <1>3, Fields
  <2> QED
    BY <2>1, <1>4
<1> HIDE DEF n, sin2, t, d
<1>8. /\ n \in Ctx /\ n.sin = sin2 /\ n.free = data.free /\ n.super_dirty = TRUE /\ n.table = tab2
      /\ n.unused_blocks = data.unused_blocks /\ n.err = data.err /\ n.ino = d
  <2> HIDE DEF tab2
  <2> QED
    BY <1>3, <1>5, <1>6, <1>7 DEF Ctx, d
<1>9. u[t] = Zeros /\ \A x \in others : u[x] = c.table[x]
  BY <1>0, <1>1, <1>3, <1>4
<1>10. /\ tab2[t][i] = d
       /\ \A j \in Entries : j # i => tab2[t][j] = u[t][j]
       /\ \A x \in others : tab2[x] = u[x]
  BY <1>0, <1>4, <1>7
<1> HIDE DEF tab2, u, sin
<1>11. \A l \in Slots : Pointers(sin2, tab2)[l] = IF l = k THEN d ELSE Pointers(sin2, u)[l]
  <2>1. /\ sin2 \in Inode /\ sin2.indirect # 0 /\ u \in [Block -> [Entries -> Ino]]
        /\ tab2 \in [Block -> [Entries -> Ino]] /\ i \in Entries /\ d \in Ino
        /\ tab2[sin2.indirect][i] = d
        /\ \A j \in Entries : j # i => tab2[sin2.indirect][j] = u[sin2.indirect][j]
    BY <1>4, <1>5, <1>7, <1>10
  <2> QED
    BY <2>1, EntrySet
<1>12. \A l \in Slots : Pointers(sin2, u)[l] = IF l = Last THEN t ELSE Pointers(sin, c.table)[l]
  <2>1. sin \in Inode /\ sin.indirect = 0 /\ sin2.indirect # 0 /\ u[sin2.indirect] = Zeros
    BY <1>0, <1>4, <1>5, <1>9 DEF sin
  <2> QED
    BY <1>5, <2>1, IndirectEmpty
<1>13. k \in Slots /\ Ptr(c)[k] = 0 /\ Last \in Slots /\ k # Last /\ Ptr(c)[Last] = 0
  <2>1. Last \in Slots /\ c.sin.indirect = 0
    BY Sizes
  <2>2. Ptr(c)[Last] = 0
    BY <2>1, IndirectUsed
  <2>3. k \in Slots /\ k # Last /\ ~ (k < SFS_NDIRECT)
    BY Sizes DEF Last
  <2>4. Ptr(c)[k] = 0
    BY <2>1, <2>3 DEF Ptr, Pointers
  <2> QED
    BY <2>1, <2>2, <2>3, <2>4
<1> HIDE DEF k
<1>14. Ptr(n) = [Q EXCEPT ![k] = d]
  <2>1. \A l \in Slots : Ptr(n)[l] = [Q EXCEPT ![k] = d][l]
    BY <1>0, <1>8, <1>11, <1>12, <1>13 DEF Ptr, sin
  <2> QED
    BY <2>1 DEF Ptr, Pointers
<1>15. Exact(Q, c.free \ {t}, others)
  BY <1>0, <1>1, <1>4, <1>13, Taken
<1>16. Q \in [Slots -> Ino] /\ Q[k] = 0 /\ \A l \in Slots : Ptr(c)[l] # 0 => Q[l] # 0
  BY <1>0, <1>4, <1>13
<1> HIDE DEF Q
<1>17. Exact(Ptr(n), n.free, others)
  <2>1. d \in c.free \ {t}
    BY <1>1, <1>3
  <2>2. Exact([Q EXCEPT ![k] = d], (c.free \ {t}) \ {d}, others)
    BY <1>4, <1>13, <1>15, <1>16, <2>1, Taken
  <2>3. n.free = (c.free \ {t}) \ {d}
    BY <1>1, <1>3, <1>8
  <2> QED
    BY <1>14, <2>2, <2>3
<1>18. \A l \in Slots : Ptr(c)[l] # 0 => Ptr(n)[l] # 0
  BY <1>4, <1>14, <1>16
<1>19. Ptr(n)[k] = d
  BY <1>13, <1>14, <1>16
<1>20. \A x \in others : n.table[x] = c.table[x]
  BY <1>8, <1>9, <1>10
<1>21. n.super_dirty = TRUE /\ n.sin.blocks = c.sin.blocks /\ n.err = c.err
       /\ n.unused_blocks = Cardinality(n.free)
  BY <1>1, <1>3, <1>5, <1>8
<1>22. Keeps(c, n, others)
  <2>1. n.sin.dirty = TRUE \/ n.sin = c.sin
    BY <1>5, <1>8
  <2> QED
    BY <1>8, <1>17, <1>18, <1>20, <1>21, <2>1, TakenKeeps
<1>23. n.ino # 0 /\ Ptr(n)[k] = n.ino
  BY <1>4, <1>8, <1>19
<1> QED
  BY <1>21, <1>22, <1>23 DEF n, tab, data, k

\* What sfs_bmap_get_nolock returns for index k, with a block or without one
Got(c, n, others, k) ==
    /\ Keeps(c, n, others) /\ n.sin.blocks = c.sin.blocks
    /\ n.err = "E_NO_MEM" \/ (n.err = "" /\ n.ino # 0 /\ Ptr(n)[k] = n.ino)

\* A full disk.
LEMMA AllocFails ==
    ASSUME NEW c, NEW others, Good(c, others), c.free = {}
    PROVE  LET n == BlockAlloc(c)
           IN  Keeps(c, n, others) /\ n.err = "E_NO_MEM" /\ n.sin = c.sin /\ n.ino = c.ino
<1> DEFINE n == BlockAlloc(c)
<1>1. n = [c EXCEPT !.err = "E_NO_MEM"]
  BY DEF BlockAlloc
<1>2. "E_NO_MEM" \in Harmless
  BY DEF Harmless
<1>3. Keeps(c, n, others) /\ n.err = "E_NO_MEM" /\ n.sin = c.sin
  BY <1>1, <1>2, ErrKeeps
<1>4. n.ino = c.ino
  BY <1>1, GoodIs DEF Ctx
<1> QED
  BY <1>3, <1>4

\* A disk with a block for the indirect block only, which is given back.
LEMMA IndirectFails ==
    ASSUME NEW c, NEW others, Good(c, others), c.free # {}, BlockAlloc(c).free = {}
    PROVE  LET tab == BlockAlloc(c)
               data == BlockAlloc(tab)
               n == BlockFree(data, tab.ino)
           IN  /\ Keeps(c, n, others) /\ n.err = "E_NO_MEM" /\ n.sin = c.sin
               /\ data.err = "E_NO_MEM" /\ tab.ino # 0 /\ tab.err = c.err
<1> DEFINE tab == BlockAlloc(c)
           t == tab.ino
           data == BlockAlloc(tab)
           n == BlockFree(data, tab.ino)
<1>0. /\ c \in Ctx /\ c.unused_blocks = Cardinality(c.free) /\ c.free \subseteq Block
      /\ c.table \in [Block -> [Entries -> Ino]]
  BY GoodIs
<1>1. /\ t \in c.free /\ tab.free = c.free \ {t} /\ tab.super_dirty = TRUE
      /\ tab.sin = c.sin /\ tab.err = c.err /\ tab.table = [c.table EXCEPT ![t] = Zeros]
      /\ tab \in Ctx /\ tab.unused_blocks = Cardinality(tab.free)
  BY <1>0, AllocIs
<1>2. tab.free = {}
  OBVIOUS
<1> HIDE DEF tab
<1>3. t \in Block /\ t # 0
  BY <1>0, <1>1, Sizes
<1>4. data = [tab EXCEPT !.err = "E_NO_MEM"]
  BY <1>2 DEF BlockAlloc
<1> HIDE DEF data
<1>5. /\ data \in Ctx /\ data.err = "E_NO_MEM" /\ data.sin = tab.sin /\ data.free = tab.free
      /\ data.table = tab.table /\ data.unused_blocks = tab.unused_blocks
      /\ data.super_dirty = TRUE
  BY <1>1, <1>4 DEF Ctx
<1>6. data.unused_blocks = Cardinality(data.free) /\ t \notin data.free
  BY <1>1, <1>2, <1>5
<1>7. /\ n \in Ctx /\ n.free = data.free \cup {t} /\ n.unused_blocks = Cardinality(n.free)
      /\ n.super_dirty = TRUE /\ n.sin = data.sin /\ n.table = data.table /\ n.err = data.err
  BY <1>3, <1>5, <1>6, FreeIs
<1> HIDE DEF n, t
<1>8. n.free = c.free /\ n.sin = c.sin /\ n.err = "E_NO_MEM" /\ n.unused_blocks = c.unused_blocks
  <2>1. n.free = c.free
    BY <1>1, <1>5, <1>7
  <2> QED
    BY <2>1, <1>0, <1>1, <1>5, <1>7
<1>9. \A b \in Block \ c.free : n.table[b] = c.table[b]
  BY <1>0, <1>1, <1>5, <1>7
<1>10. n.err \in Harmless /\ n.super_dirty # FALSE
  <2>1. "E_NO_MEM" \in Harmless
    BY DEF Harmless
  <2> QED
    BY <2>1, <1>7, <1>8
<1>11. Keeps(c, n, others)
  BY <1>7, <1>8, <1>9, <1>10, SameKeeps
<1> QED
  BY <1>1, <1>3, <1>5, <1>8, <1>11 DEF n, data, tab, t

\* sfs_bmap_get_nolock with an index that exists or is the next.
LEMMA GetIs ==
    ASSUME NEW c, NEW others, Good(c, others), Runs(c), NEW k \in 0..c.sin.blocks
    PROVE  Got(c, BmapGet(c, k, k = c.sin.blocks), others, k)
<1> DEFINE create == k = c.sin.blocks
<1>0. /\ c \in Ctx /\ c.sin \in Inode /\ c.table \in [Block -> [Entries -> Ino]]
      /\ Full(Ptr(c), c.sin.blocks) /\ c.sin.blocks \in Nat /\ c.sin.blocks < Last
      /\ Ptr(c) \in [Slots -> Ino]
  BY GoodIs, RoomLeft
<1>1. k \in Slots /\ k # Last /\ k \in Nat /\ k < Last
  <2>1. c.sin.blocks \in Nat /\ c.sin.blocks < Last
    BY <1>0
  <2> QED
    BY <2>1, Sizes
<1>2. ~ create => Ptr(c)[k] # 0
  <2>1. ~ create => k \in 0..(c.sin.blocks - 1)
    BY <1>0
  <2> QED
    BY <1>0, <2>1 DEF Full
<1>3. CASE k < SFS_NDIRECT
  <2>1. k \in 0..(SFS_NDIRECT - 1) /\ Ptr(c)[k] = c.sin.direct[k] /\ c.sin.direct[k] \in Ino
    <3>1. k \in 0..(SFS_NDIRECT - 1)
      BY <1>1, <1>3, Sizes
    <3>2. Ptr(c)[k] = c.sin.direct[k]
      BY <1>1, <1>3 DEF Ptr, Pointers
    <3>3. c.sin.direct[k] \in Ino
      BY <1>0, <3>1 DEF Inode, Ino
    <3> QED
      BY <3>1, <3>2, <3>3
  <2>2. CASE c.sin.direct[k] # 0
    <3>1. BmapGet(c, k, create) = [c EXCEPT !.ino = c.sin.direct[k]]
      BY <1>3, <2>2 DEF BmapGet
    <3> DEFINE n == [c EXCEPT !.ino = c.sin.direct[k]]
    <3>2. Keeps(c, n, others) /\ Ptr(n) = Ptr(c) /\ n.ino = c.sin.direct[k] /\ n.err = c.err
          /\ n.sin = c.sin
      BY <2>1, InoKeeps
    <3>3. BmapGet(c, k, create) = n
      BY <3>1
    <3> HIDE DEF n
    <3> QED
      BY <2>1, <2>2, <3>2, <3>3 DEF Got, Runs
  <2>3. CASE c.sin.direct[k] = 0 /\ c.free = {}
    <3>1. BlockAlloc(c).err = "E_NO_MEM" /\ BlockAlloc(c).err # ""
      BY <2>3, AllocFails
    <3>2. BmapGet(c, k, create) = BlockAlloc(c)
      BY <1>2, <1>3, <2>1, <2>3, <3>1 DEF BmapGet
    <3>3. Keeps(c, BlockAlloc(c), others) /\ BlockAlloc(c).sin = c.sin
      BY <2>3, AllocFails
    <3> QED
      BY <3>1, <3>2, <3>3 DEF Got
  <2>4. CASE c.sin.direct[k] = 0 /\ c.free # {}
    <3> DEFINE a == BlockAlloc(c)
               n == [a EXCEPT !.sin.direct[k] = a.ino, !.sin.dirty = TRUE]
    <3>1. a.err = ""
      BY <1>0, <2>4, AllocIs DEF Runs
    <3>2. BmapGet(c, k, create) = n
      BY <1>2, <1>3, <2>1, <2>4, <3>1 DEF BmapGet
    <3>3. /\ Keeps(c, n, others) /\ n.sin.blocks = c.sin.blocks /\ n.err = c.err
          /\ n.ino # 0 /\ Ptr(n)[k] = n.ino
      BY <2>1, <2>4, DirectNew
    <3> HIDE DEF n
    <3> QED
      BY <3>2, <3>3 DEF Got, Runs
  <2> QED
    BY <2>2, <2>3, <2>4
<1>4. CASE ~ (k < SFS_NDIRECT)
  <2> DEFINE i == k - SFS_NDIRECT
             ent == c.sin.indirect
  <2>1. i \in Entries /\ i + SFS_NDIRECT = k /\ i < SFS_BLK_NENTRY
    <3>1. k \in Nat /\ k < Last /\ ~ (k < SFS_NDIRECT)
      BY <1>1, <1>4
    <3> QED
      BY <3>1, Sizes DEF Last
  <2>2. BmapGet(c, k, create) = GetIndirect(c, i, create)
    BY <1>4, <2>1 DEF BmapGet
  <2>3. Ptr(c)[k] = IF ent = 0 THEN 0 ELSE c.table[ent][i]
    BY <1>1, <1>4 DEF Ptr, Pointers
  <2>4. ent \in Ino /\ (ent # 0 => ent \in Block)
    BY <1>0 DEF Inode, Ino
  <2>5. CASE ent # 0 /\ c.table[ent][i] # 0
    <3>1. GetIndirect(c, i, create) = [c EXCEPT !.ino = c.table[ent][i]]
      BY <2>5 DEF GetIndirect
    <3>2. c.table[ent][i] \in Ino
      BY <1>0, <2>1, <2>4, <2>5
    <3> DEFINE n == [c EXCEPT !.ino = c.table[ent][i]]
    <3>3. Keeps(c, n, others) /\ Ptr(n) = Ptr(c) /\ n.ino = c.table[ent][i] /\ n.err = c.err
          /\ n.sin = c.sin
      BY <3>2, InoKeeps
    <3>4. BmapGet(c, k, create) = n
      BY <2>2, <3>1
    <3>5. Ptr(c)[k] = c.table[ent][i] /\ c.table[ent][i] # 0
      BY <2>3, <2>5
    <3> HIDE DEF n, i
    <3> QED
      BY <3>3, <3>4, <3>5 DEF Got, Runs
  <2>6. CASE ent # 0 /\ c.table[ent][i] = 0
    <3> DEFINE tab == [c EXCEPT !.ino = ent]
               data == BlockAlloc(tab)
    <3>1. create
      BY <1>2, <2>3, <2>6
    <3>2. /\ Keeps(c, tab, others) /\ tab.ino = ent /\ tab.err = c.err /\ tab.sin = c.sin
          /\ tab.free = c.free /\ tab.table = c.table /\ tab.unused_blocks = c.unused_blocks
          /\ tab.super_dirty = c.super_dirty
      BY <2>4, InoKeeps
    <3>3. Good(tab, others)
      BY <3>2 DEF Keeps
    <3>4. CASE c.free = {}
      <4>1. Keeps(tab, data, others) /\ data.err = "E_NO_MEM" /\ data.sin = tab.sin
        <5> HIDE DEF tab
        <5> QED
          BY <3>2, <3>3, <3>4, AllocFails
      <4>2. GetIndirect(c, i, create) = data
        <5>1. tab.err = ""
          BY <3>2 DEF Runs
        <5> QED
          BY <2>6, <3>1, <3>2, <4>1, <5>1 DEF GetIndirect
      <4>3. Keeps(c, data, others) /\ data.sin.blocks = c.sin.blocks
        <5> HIDE DEF tab, data
        <5> QED
          BY <3>2, <4>1 DEF Keeps
      <4> QED
        BY <2>2, <4>1, <4>2, <4>3 DEF Got
    <3>5. CASE c.free # {}
      <4> DEFINE n == [data EXCEPT !.table[tab.ino][i] = data.ino, !.sin.indirect = tab.ino,
                                   !.sin.dirty = @ \/ tab.ino # ent]
      <4>1. tab.err = "" /\ data.err = ""
        <5>1. tab \in Ctx /\ tab.free # {} /\ tab.err = ""
          BY <3>2, <3>3, <3>5, GoodIs DEF Runs
        <5> HIDE DEF tab
        <5> QED
          BY <5>1, AllocIs
      <4>2. GetIndirect(c, i, create) = n
        BY <2>6, <3>1, <4>1 DEF GetIndirect
      <4>3. /\ Keeps(c, n, others) /\ n.sin.blocks = c.sin.blocks /\ n.err = c.err
            /\ n.ino # 0 /\ Ptr(n)[i + SFS_NDIRECT] = n.ino
        BY <2>1, <2>6, <3>5, IndirectNew
      <4> HIDE DEF n, i
      <4> QED
        BY <2>1, <2>2, <4>2, <4>3 DEF Got, Runs
    <3> QED
      BY <3>4, <3>5
  <2>7. CASE ent = 0
    <3> DEFINE tab == BlockAlloc(c)
               data == BlockAlloc(tab)
    <3>1. create
      BY <1>2, <2>3, <2>7
    <3>2. CASE c.free = {}
      <4>1. Keeps(c, tab, others) /\ tab.err = "E_NO_MEM" /\ tab.sin = c.sin
        BY <3>2, AllocFails
      <4>2. GetIndirect(c, i, create) = tab
        BY <2>7, <3>1, <4>1 DEF GetIndirect, Runs
      <4> HIDE DEF tab
      <4> QED
        BY <2>2, <4>1, <4>2 DEF Got
    <3>3. CASE c.free # {} /\ tab.free = {}
      <4> DEFINE n == BlockFree(data, tab.ino)
      <4>1. /\ Keeps(c, n, others) /\ n.err = "E_NO_MEM" /\ n.sin = c.sin
            /\ data.err = "E_NO_MEM" /\ tab.ino # 0 /\ tab.err = c.err
        BY <3>3, IndirectFails
      <4>2. GetIndirect(c, i, create) = n
        BY <2>7, <3>1, <4>1 DEF GetIndirect, Runs
      <4> HIDE DEF n
      <4> QED
        BY <2>2, <4>1, <4>2 DEF Got
    <3>4. CASE c.free # {} /\ tab.free # {}
      <4> DEFINE n == [data EXCEPT !.table[tab.ino][i] = data.ino, !.sin.indirect = tab.ino,
                                   !.sin.dirty = @ \/ tab.ino # ent]
      <4>1. tab.err = "" /\ data.err = ""
        <5>1. tab \in Ctx /\ tab.err = ""
          <6>1. c \in Ctx /\ c.free # {} /\ c.unused_blocks = Cardinality(c.free)
            BY <3>4, GoodIs
          <6>2. tab \in Ctx /\ tab.err = c.err
            BY <6>1, AllocIs
          <6> QED
            BY <6>2 DEF Runs
        <5>2. tab.free # {}
          BY <3>4
        <5> HIDE DEF tab
        <5> QED
          BY <5>1, <5>2, AllocIs
      <4>2. GetIndirect(c, i, create) = n
        BY <2>7, <3>1, <4>1 DEF GetIndirect, Runs
      <4>3. /\ Keeps(c, n, others) /\ n.sin.blocks = c.sin.blocks /\ n.err = c.err
            /\ n.ino # 0 /\ Ptr(n)[i + SFS_NDIRECT] = n.ino
        BY <2>1, <2>7, <3>4, IndirectFirst
      <4> HIDE DEF n, i
      <4> QED
        BY <2>1, <2>2, <4>2, <4>3 DEF Got, Runs
    <3> QED
      BY <3>2, <3>3, <3>4
  <2> QED
    BY <2>5, <2>6, <2>7
<1> QED
  BY <1>3, <1>4

-----------------------------------------------------------------------------
\* Doing nothing.
LEMMA KeepsSame ==
    ASSUME NEW c, NEW others, Good(c, others)
    PROVE  Keeps(c, c, others)
<1>1. c \in Ctx /\ c.err \in Harmless
  BY GoodIs
<1> QED
  BY <1>1, SameKeeps

\* One operation after the other.
LEMMA KeepsThen ==
    ASSUME NEW c, NEW n, NEW m, NEW others, Good(c, others), Keeps(c, n, others), Keeps(n, m, others)
    PROVE  Keeps(c, m, others)
<1>1. Good(n, others) /\ Good(m, others)
  BY DEF Keeps
<1>2. c.sin.blocks \in Nat /\ n.sin.blocks \in Nat /\ m.sin.blocks \in Nat
  BY <1>1, GoodIs
<1>3. \A x, y, z \in Nat : x <= y /\ y <= z => x <= z
  OBVIOUS
<1>4. c.sin.blocks <= n.sin.blocks /\ n.sin.blocks <= m.sin.blocks => c.sin.blocks <= m.sin.blocks
  BY <1>2, <1>3
<1> QED
  BY <1>1, <1>4 DEF Keeps

\* sfs_bmap_load_nolock counts a block that is there.
LEMMA CountKeeps ==
    ASSUME NEW c, NEW g, NEW others, Good(c, others), Keeps(c, g, others),
           g.sin.blocks = c.sin.blocks, Ptr(g)[g.sin.blocks] # 0
    PROVE  LET n == [g EXCEPT !.sin.blocks = @ + 1]
           IN  Keeps(c, n, others) /\ n.err = g.err /\ n.sin.blocks = c.sin.blocks + 1
<1> DEFINE n == [g EXCEPT !.sin.blocks = @ + 1]
           m == g.sin.blocks
           sin2 == [g.sin EXCEPT !.blocks = m + 1]
<1>0. Good(g, others)
  BY DEF Keeps
<1>1. /\ g \in Ctx /\ g.sin \in Inode /\ Exact(Ptr(g), g.free, others) /\ Full(Ptr(g), m)
      /\ g.unused_blocks = Cardinality(g.free) /\ g.err \in Harmless /\ m \in Nat /\ m < Last
  BY <1>0, GoodIs, RoomLeft
<1>2. /\ sin2 \in Inode /\ sin2.blocks = m + 1 /\ sin2.size = g.sin.size /\ sin2.dirty = g.sin.dirty
      /\ sin2.direct = g.sin.direct /\ sin2.indirect = g.sin.indirect
  BY <1>1 DEF Inode
<1>3. n = [g EXCEPT !.sin = sin2]
  BY <1>1 DEF Ctx, Inode
<1> HIDE DEF sin2, n
<1>4. /\ n \in Ctx /\ n.sin = sin2 /\ n.free = g.free /\ n.table = g.table /\ n.err = g.err
      /\ n.unused_blocks = g.unused_blocks /\ n.super_dirty = g.super_dirty
  BY <1>1, <1>2, <1>3 DEF Ctx
<1>5. Ptr(n) = Ptr(g)
  BY <1>2, <1>4 DEF Ptr, Pointers
<1>6. Full(Ptr(n), n.sin.blocks)
  <2>1. \A k \in 0..(m - 1) : Ptr(g)[k] # 0
    BY <1>1 DEF Full
  <2>2. m + 1 <= Last /\ \A k \in 0..((m + 1) - 1) : k = m \/ k \in 0..(m - 1)
    BY <1>1, Sizes
  <2>3. \A k \in 0..((m + 1) - 1) : Ptr(g)[k] # 0
    BY <2>1, <2>2
  <2>4. Full(Ptr(g), m + 1)
    BY <2>2, <2>3 DEF Full
  <2> QED
    BY <2>4, <1>2, <1>4, <1>5
<1>7. Good(n, others)
  BY <1>1, <1>4, <1>5, <1>6 DEF Good
<1>8. c.sin.blocks <= n.sin.blocks
  BY <1>1, <1>2, <1>4
<1>9. Keeps(c, n, others)
  BY <1>2, <1>4, <1>7, <1>8 DEF Keeps
<1>10. n.sin.blocks = c.sin.blocks + 1
  BY <1>2, <1>4
<1> QED
  BY <1>4, <1>9, <1>10 DEF n

\* sfs_bmap_load_nolock.
LEMMA LoadIs ==
    ASSUME NEW c, NEW others, Good(c, others), NEW k \in Nat
    PROVE  Keeps(c, BmapLoad(c, k), others)
<1> DEFINE create == k = c.sin.blocks
           got == BmapGet(c, k, create)
<1>0. c.sin.blocks \in Nat
  BY GoodIs
<1>1. CASE ~ Runs(c)
  <2>1. BmapLoad(c, k) = c
    BY <1>1 DEF BmapLoad, Runs
  <2> QED
    BY <2>1, KeepsSame
<1>2. CASE Runs(c) /\ k > c.sin.blocks
  <2>1. BmapLoad(c, k) = [c EXCEPT !.err = "index <= din->blocks"]
    BY <1>2 DEF BmapLoad, Runs
  <2>2. "index <= din->blocks" \in Harmless
    BY DEF Harmless
  <2> DEFINE e == "index <= din->blocks"
  <2> HIDE DEF e
  <2>3. Keeps(c, [c EXCEPT !.err = e], others)
    BY <2>2, ErrKeeps DEF e
  <2> QED
    BY <2>1, <2>3 DEF e
<1>3. CASE Runs(c) /\ ~ (k > c.sin.blocks)
  <2>1. k \in 0..c.sin.blocks
    BY <1>0, <1>3
  <2>2. Got(c, got, others, k)
    BY <1>3, <2>1, GetIs
  <2> HIDE DEF got
  <2>3. CASE got.err # ""
    <3>1. BmapLoad(c, k) = got
      BY <1>3, <2>3 DEF BmapLoad, Runs, got
    <3> QED
      BY <2>2, <3>1 DEF Got
  <2>4. CASE got.err = ""
    <3>1. /\ Keeps(c, got, others) /\ got.sin.blocks = c.sin.blocks
          /\ got.ino # 0 /\ Ptr(got)[k] = got.ino
      BY <2>2, <2>4 DEF Got
    <3>2. got.ino \in Block \ got.free
      <4>1. Good(got, others)
        BY <3>1 DEF Keeps
      <4>2. Exact(Ptr(got), got.free, others) /\ c.sin.blocks < Last
        BY <4>1, GoodIs, RoomLeft
      <4>3. k \in Slots
        <5>1. \A x, y \in Nat : x \in 0..y /\ y < Last => x \in Slots
          BY Sizes
        <5> QED
          BY <1>0, <2>1, <4>2, <5>1
      <4> QED
        BY <3>1, <4>2, <4>3 DEF Exact
    <3>3. CASE create
      <4>1. BmapLoad(c, k) = [got EXCEPT !.sin.blocks = @ + 1]
        BY <1>3, <2>4, <3>2, <3>3 DEF BmapLoad, Runs, got
      <4>2. Ptr(got)[got.sin.blocks] # 0
        BY <3>1, <3>3
      <4> DEFINE n == [got EXCEPT !.sin.blocks = @ + 1]
      <4>3. Keeps(c, n, others)
        BY <3>1, <4>2, CountKeeps
      <4> HIDE DEF n
      <4>4. BmapLoad(c, k) = n
        BY <4>1 DEF n
      <4> QED
        BY <4>3, <4>4
    <3>4. CASE ~ create
      <4>1. BmapLoad(c, k) = got
        BY <1>3, <2>4, <3>2, <3>4 DEF BmapLoad, Runs, got
      <4> QED
        BY <3>1, <4>1
    <3> QED
      BY <3>3, <3>4
  <2> QED
    BY <2>3, <2>4
<1> QED
  BY <1>1, <1>2, <1>3

\* An operation that marks the inode and the superblock.
LEMMA MarkedKeeps ==
    ASSUME NEW c, NEW n \in Ctx, NEW others, Good(c, others),
           n.sin.dirty = TRUE, n.super_dirty = TRUE, n.err = c.err,
           n.unused_blocks = Cardinality(n.free),
           Exact(Ptr(n), n.free, others), Full(Ptr(n), n.sin.blocks),
           \A b \in others : n.table[b] = c.table[b]
    PROVE  Keeps(c, n, others)
<1>1. c.err \in Harmless
  BY GoodIs
<1>2. Good(n, others)
  BY <1>1 DEF Good
<1> QED
  BY <1>2 DEF Keeps

\* sfs_bmap_truncate_nolock clears the last pointer, `n' being what it leaves.
LEMMA CutKeeps ==
    ASSUME NEW c, NEW n \in Ctx, NEW others, Good(c, others), NEW k \in Nat, c.sin.blocks = k + 1,
           Ptr(n) = [Ptr(c) EXCEPT ![k] = 0], n.sin.blocks = k, n.sin.dirty = TRUE,
           n.free = c.free \cup {Ptr(c)[k]}, n.unused_blocks = Cardinality(n.free),
           n.super_dirty = TRUE, n.err = c.err, \A b \in others : n.table[b] = c.table[b]
    PROVE  Keeps(c, n, others)
<1>1. /\ Exact(Ptr(c), c.free, others) /\ Full(Ptr(c), k + 1) /\ Ptr(c) \in [Slots -> Ino]
  BY GoodIs
<1>2. k \in Slots /\ k <= Last /\ Ptr(c)[k] # 0 /\ \A l \in 0..(k - 1) : l \in Slots /\ l # k /\ Ptr(c)[l] # 0
  <2>1. k + 1 <= Last /\ \A l \in 0..((k + 1) - 1) : Ptr(c)[l] # 0
    BY <1>1 DEF Full
  <2>2. k \in 0..((k + 1) - 1) /\ \A l \in 0..(k - 1) : l \in 0..((k + 1) - 1) /\ l # k
    OBVIOUS
  <2>3. k \in Slots /\ k <= Last /\ \A l \in 0..(k - 1) : l \in Slots
    BY <2>1, Sizes
  <2> QED
    BY <2>1, <2>2, <2>3
<1>3. Exact([Ptr(c) EXCEPT ![k] = 0], c.free \cup {Ptr(c)[k]}, others)
  BY <1>1, <1>2, Given
<1>4. Exact(Ptr(n), n.free, others)
  BY <1>3
<1>5. \A l \in 0..(k - 1) : Ptr(n)[l] # 0
  BY <1>1, <1>2
<1>6. Full(Ptr(n), n.sin.blocks)
  BY <1>2, <1>5 DEF Full
<1> QED
  BY <1>4, <1>6, MarkedKeeps

\* sfs_bmap_truncate_nolock.
LEMMA TruncateIs ==
    ASSUME NEW c, NEW others, Good(c, others), NEW k \in Nat, c.sin.blocks = k + 1
    PROVE  /\ Keeps(c, BmapTruncate(c), others) /\ BmapTruncate(c).sin.blocks = k
           /\ BmapTruncate(c).err = c.err
<1> DEFINE ent == c.sin.indirect
           sin == c.sin
           t == BmapTruncate(c)
           b == Ptr(c)[k]
           f == BlockFree(c, b)
           sin1 == [sin EXCEPT !.blocks = k, !.dirty = TRUE]
           g == [f EXCEPT !.sin.blocks = k, !.sin.dirty = TRUE]
<1>0. /\ c \in Ctx /\ c.sin \in Inode /\ c.table \in [Block -> [Entries -> Ino]]
      /\ Exact(Ptr(c), c.free, others) /\ Full(Ptr(c), k + 1)
      /\ c.unused_blocks = Cardinality(c.free) /\ Ptr(c) \in [Slots -> Ino]
  BY GoodIs
<1>1. k \in Slots /\ k # Last /\ k < Last /\ b # 0 /\ b \in Block \ (c.free \cup others)
  <2>1. k + 1 <= Last /\ \A l \in 0..((k + 1) - 1) : Ptr(c)[l] # 0
    BY <1>0 DEF Full
  <2>2. k \in Slots /\ k # Last /\ k < Last /\ b # 0
    BY <2>1, Sizes
  <2>3. \A l \in Slots : Ptr(c)[l] # 0 => Ptr(c)[l] \in Block \ (c.free \cup others)
    BY <1>0 DEF Exact
  <2> QED
    BY <2>2, <2>3
<1>2. c.sin.blocks - 1 = k
  OBVIOUS
<1> HIDE DEF b
<1>3. /\ f \in Ctx /\ f.free = c.free \cup {b} /\ f.unused_blocks = Cardinality(f.free)
      /\ f.super_dirty = TRUE /\ f.sin = sin /\ f.table = c.table /\ f.err = c.err
  BY <1>0, <1>1, FreeIs
<1> HIDE DEF f
<1>4. sin1 \in Inode /\ sin1.blocks = k /\ sin1.dirty = TRUE /\ sin1.direct = sin.direct
      /\ sin1.indirect = sin.indirect
  BY <1>0 DEF Inode
<1>5. g = [f EXCEPT !.sin = sin1]
  BY <1>3 DEF Ctx
<1> HIDE DEF g, sin1
<1>6. /\ g \in Ctx /\ g.sin = sin1 /\ g.free = f.free /\ g.table = c.table /\ g.err = c.err
      /\ g.super_dirty = TRUE /\ g.unused_blocks = f.unused_blocks
  BY <1>3, <1>4, <1>5 DEF Ctx
<1>7. CASE k < SFS_NDIRECT
  <2> DEFINE sin2 == [sin1 EXCEPT !.direct = [sin1.direct EXCEPT ![k] = 0]]
             n == [g EXCEPT !.sin.direct[k] = 0]
  <2>1. k \in 0..(SFS_NDIRECT - 1)
    BY <1>7, Sizes
  <2>2. sin.direct \in [0..(SFS_NDIRECT - 1) -> Ino]
    BY <1>0 DEF Inode, Ino
  <2>3. b = sin.direct[k]
    BY <1>1, <1>7 DEF b, Ptr, Pointers
  <2>4. /\ sin2 \in Inode /\ sin2.blocks = k /\ sin2.dirty = TRUE /\ sin2.indirect = sin.indirect
        /\ sin2.direct = [sin.direct EXCEPT ![k] = 0]
    BY <1>4, <2>1 DEF Inode
  <2>5. n = [g EXCEPT !.sin = sin2]
    BY <1>6 DEF Ctx
  <2>6. t = n
    BY <1>1, <1>2, <1>7, <2>3 DEF BmapTruncate, g, f
  <2> HIDE DEF sin2, n, t
  <2>7. /\ n \in Ctx /\ n.sin = sin2 /\ n.free = g.free /\ n.table = c.table /\ n.err = c.err
        /\ n.super_dirty = TRUE /\ n.unused_blocks = g.unused_blocks
    BY <1>6, <2>4, <2>5 DEF Ctx
  <2>8. Ptr(n) = [Ptr(c) EXCEPT ![k] = 0]
    <3>1. \A l \in Slots : l < SFS_NDIRECT => l \in 0..(SFS_NDIRECT - 1)
      BY Sizes
    <3>2. ASSUME NEW l \in Slots
          PROVE  Pointers(sin2, c.table)[l] = [Pointers(sin, c.table) EXCEPT ![k] = 0][l]
      BY <1>1, <1>7, <2>1, <2>2, <2>4, <3>1 DEF Pointers
    <3>3. Pointers(sin2, c.table) = [Pointers(sin, c.table) EXCEPT ![k] = 0]
      BY <3>2 DEF Pointers
    <3> QED
      BY <2>7, <3>3 DEF Ptr
  <2>9. n.sin.blocks = k /\ n.sin.dirty = TRUE /\ n.free = c.free \cup {Ptr(c)[k]}
        /\ n.unused_blocks = Cardinality(n.free) /\ \A x \in others : n.table[x] = c.table[x]
    BY <1>3, <1>6, <2>4, <2>7 DEF b
  <2>10. Keeps(c, n, others)
    BY <2>7, <2>8, <2>9, CutKeeps
  <2> QED
    BY <2>6, <2>7, <2>9, <2>10 DEF t
<1>8. CASE ~ (k < SFS_NDIRECT)
  <2> DEFINE i == k - SFS_NDIRECT
             tab2 == [c.table EXCEPT ![ent][i] = 0]
             n == [g EXCEPT !.table[ent][i] = 0]
  <2>1. i \in Entries /\ i + SFS_NDIRECT = k
    BY <1>1, <1>8, Sizes DEF Last
  <2>2. b = IF ent = 0 THEN 0 ELSE c.table[ent][i]
    BY <1>1, <1>8 DEF b, Ptr, Pointers
  <2>3. ent # 0 /\ b = c.table[ent][i]
    BY <1>1, <2>2
  <2>4. ent \in Block \ (c.free \cup others)
    BY <2>3, IndirectUsed
  <2>5. n = [g EXCEPT !.table = tab2]
    BY <1>6 DEF Ctx
  <2>6. t = n
    BY <1>1, <1>2, <1>8, <2>3 DEF BmapTruncate, g, f
  <2>7. tab2 \in [Block -> [Entries -> Ino]]
    BY <1>0, <2>1, <2>4 DEF Ino
  <2> HIDE DEF n, t
  <2>8. /\ n \in Ctx /\ n.sin = sin1 /\ n.free = g.free /\ n.table = tab2 /\ n.err = c.err
        /\ n.super_dirty = TRUE /\ n.unused_blocks = g.unused_blocks
    <3> HIDE DEF tab2
    <3> QED
      BY <1>6, <2>5, <2>7 DEF Ctx
  <2>9. tab2[ent][i] = 0 /\ (\A j \in Entries : j # i => tab2[ent][j] = c.table[ent][j])
        /\ \A x \in others : tab2[x] = c.table[x]
    <3>1. others \subseteq Block
      BY GoodIs
    <3> QED
      BY <1>0, <2>1, <2>4, <3>1
  <2> HIDE DEF tab2
  <2>10. Ptr(n) = [Ptr(c) EXCEPT ![k] = 0]
    <3> DEFINE u == c.table
    <3>1. /\ sin \in Inode /\ sin.indirect # 0 /\ u \in [Block -> [Entries -> Ino]]
          /\ tab2[sin.indirect][i] = 0
          /\ \A j \in Entries : j # i => tab2[sin.indirect][j] = u[sin.indirect][j]
      BY <1>0, <2>3, <2>9
    <3> HIDE DEF sin, u
    <3>3. ASSUME NEW l \in Slots
          PROVE  Pointers(sin, tab2)[l] = IF l = k THEN 0 ELSE Pointers(sin, u)[l]
      <4>1. CASE l < SFS_NDIRECT \/ l = Last
        BY <1>1, <1>8, <4>1 DEF Pointers
      <4>2. CASE ~ (l < SFS_NDIRECT) /\ l # Last
        <5>1. l - SFS_NDIRECT \in Entries /\ (l - SFS_NDIRECT = i <=> l = k)
          BY <1>1, <4>2, Sizes DEF Last
        <5>2. Pointers(sin, tab2)[l] = tab2[sin.indirect][l - SFS_NDIRECT]
              /\ Pointers(sin, u)[l] = u[sin.indirect][l - SFS_NDIRECT]
          BY <3>1, <4>2 DEF Pointers
        <5> HIDE DEF i
        <5> QED
          BY <3>1, <5>1, <5>2
      <4> QED
        BY <4>1, <4>2
    <3>4. Pointers(sin1, tab2) = Pointers(sin, tab2)
      BY <1>4 DEF Pointers
    <3>5. \A l \in Slots : Ptr(n)[l] = [Ptr(c) EXCEPT ![k] = 0][l]
      BY <1>0, <2>8, <3>3, <3>4 DEF Ptr, sin, u
    <3> QED
      BY <3>5 DEF Ptr, Pointers
  <2>11. n.sin.blocks = k /\ n.sin.dirty = TRUE /\ n.free = c.free \cup {Ptr(c)[k]}
         /\ n.unused_blocks = Cardinality(n.free) /\ \A x \in others : n.table[x] = c.table[x]
    BY <1>3, <1>4, <1>6, <2>8, <2>9 DEF b
  <2>12. Keeps(c, n, others)
    BY <2>8, <2>10, <2>11, CutKeeps
  <2> QED
    BY <2>6, <2>8, <2>11, <2>12 DEF t
<1> QED
  BY <1>7, <1>8

-----------------------------------------------------------------------------
\* What an operation on c may leave, as a set
After(c, others) == {n \in Ctx : Keeps(c, n, others)}

\* Membership of it.
LEMMA AfterIs ==
    ASSUME NEW c, NEW others
    PROVE  \A n : n \in After(c, others) <=> Keeps(c, n, others)
BY DEF After, Keeps, Good

\* The loop that makes a file grow.
LEMMA GrowKeeps ==
    ASSUME NEW c, NEW others, Good(c, others), NEW N \in Nat
    PROVE  Keeps(c, Grow(c, N), others)
<1> DEFINE X == After(c, others)
           m == c.sin.blocks
           Body(f) == [n \in 0..N |-> IF n <= m THEN c ELSE BmapLoad(f[n - 1], n - 1)]
           f == CHOOSE f : f = Body(f)
           step == [n \in Nat |-> [x \in X |-> IF n + 1 <= m THEN c ELSE BmapLoad(x, n)]]
<1>0. c \in X /\ m \in Nat
  BY KeepsSame, AfterIs, GoodIs
<1>1. ASSUME NEW x \in X, NEW n \in Nat PROVE BmapLoad(x, n) \in X
  <2>1. Keeps(c, x, others)
    BY AfterIs
  <2>2. Good(x, others)
    BY <2>1 DEF Keeps
  <2>3. Keeps(x, BmapLoad(x, n), others)
    BY <2>2, LoadIs
  <2>4. Keeps(c, BmapLoad(x, n), others)
    BY <2>1, <2>3, KeepsThen
  <2> QED
    BY <2>4, AfterIs
<1> HIDE DEF X, m
<1>2. f = Body(f)
  <2>1. step \in [Nat -> [X -> X]]
    BY <1>0, <1>1
  <2>2. PICK g : Follows(g, X, c, step, N)
    <3> HIDE DEF step, f, Body
    <3> QED
      BY <1>0, <2>1, FiniteRecursion
  <2>3. g \in [0..N -> X] /\ g[0] = c /\ \A n \in 0..N - 1 : g[n + 1] = step[n][g[n]]
    BY <2>2 DEF Follows
  <2>4. ASSUME NEW i \in 0..N PROVE g[i] = IF i <= m THEN c ELSE BmapLoad(g[i - 1], i - 1)
    <3>1. CASE i = 0
      BY <1>0, <2>3, <3>1
    <3>2. CASE i # 0
      <4>1. i - 1 \in 0..N - 1 /\ (i - 1) + 1 = i /\ i - 1 \in Nat /\ i - 1 \in 0..N
        BY <3>2
      <4>2. g[i] = step[i - 1][g[i - 1]] /\ g[i - 1] \in X
        BY <2>3, <4>1
      <4> QED
        BY <4>1, <4>2
    <3> QED
      BY <3>1, <3>2
  <2>5. g = Body(g)
    BY <2>3, <2>4
  <2> HIDE DEF Body
  <2> QED
    BY <2>5
<1>3. Grow(c, N) = f[N]
  BY DEF Grow, m
<1> HIDE DEF f
<1>4. \A i \in 0..N : f[i] = IF i <= m THEN c ELSE BmapLoad(f[i - 1], i - 1)
  BY <1>2
<1> DEFINE I == {i \in Nat : i <= N => f[i] \in X}
<1>5. 0 \in I
  BY <1>0, <1>4
<1>6. ASSUME NEW n \in Nat, n \in I PROVE n + 1 \in I
  <2> SUFFICES ASSUME n + 1 <= N PROVE f[n + 1] \in X
    OBVIOUS
  <2>1. f[n] \in X /\ n + 1 \in 0..N /\ (n + 1) - 1 = n
    BY <1>6
  <2>2. f[n + 1] = IF n + 1 <= m THEN c ELSE BmapLoad(f[n], n)
    BY <1>4, <2>1
  <2>3. BmapLoad(f[n], n) \in X
    BY <1>1, <2>1
  <2> QED
    BY <1>0, <2>2, <2>3
<1>7. f[N] \in X
  <2> HIDE DEF I
  <2>1. N \in I
    BY <1>5, <1>6, NatInd
  <2> QED
    BY <2>1 DEF I
<1> QED
  BY <1>3, <1>7, AfterIs DEF X

\* The loop that makes a file shrink.
LEMMA ShrinkKeeps ==
    ASSUME NEW c, NEW others, Good(c, others), NEW N \in Nat, N < c.sin.blocks
    PROVE  Keeps(c, Shrink(c, N), others)
<1> DEFINE X == After(c, others)
           m == c.sin.blocks
           Body(f) == [n \in 0..m |-> IF n = m THEN c ELSE BmapTruncate(f[n + 1])]
           f == CHOOSE f : f = Body(f)
           Cut(x) == IF x.sin.blocks = 0 THEN x ELSE BmapTruncate(x)
           step == [n \in Nat |-> [x \in X |-> Cut(x)]]
<1>0. c \in X /\ m \in Nat
  BY KeepsSame, AfterIs, GoodIs
<1>1. ASSUME NEW x \in X, NEW k \in Nat, x.sin.blocks = k + 1
      PROVE  BmapTruncate(x) \in X /\ BmapTruncate(x).sin.blocks = k
  <2>1. Keeps(c, x, others)
    BY AfterIs
  <2>2. Good(x, others)
    BY <2>1 DEF Keeps
  <2>3. Keeps(x, BmapTruncate(x), others) /\ BmapTruncate(x).sin.blocks = k
    BY <1>1, <2>2, TruncateIs
  <2>4. Keeps(c, BmapTruncate(x), others)
    BY <2>1, <2>3, KeepsThen
  <2> QED
    BY <2>3, <2>4, AfterIs
<1>2. ASSUME NEW x \in X PROVE Cut(x) \in X
  <2>1. x.sin.blocks \in Nat
    BY AfterIs, GoodIs DEF Keeps
  <2>2. CASE x.sin.blocks # 0
    <3>1. x.sin.blocks - 1 \in Nat /\ x.sin.blocks = (x.sin.blocks - 1) + 1
      BY <2>1, <2>2
    <3> QED
      BY <1>1, <2>2, <3>1
  <2> QED
    BY <2>2
<1> HIDE DEF X, m
<1>3. f = Body(f)
  <2>1. step \in [Nat -> [X -> X]]
    <3> HIDE DEF Cut
    <3> QED
      BY <1>2
  <2>2. PICK h : Follows(h, X, c, step, m)
    <3> HIDE DEF step, f, Body
    <3> QED
      BY <1>0, <2>1, FiniteRecursion
  <2>3. h \in [0..m -> X] /\ h[0] = c /\ \A j \in 0..m - 1 : h[j + 1] = Cut(h[j])
    <3>1. h \in [0..m -> X] /\ h[0] = c /\ \A j \in 0..m - 1 : h[j + 1] = step[j][h[j]]
      BY <2>2 DEF Follows
    <3>2. \A j \in 0..m - 1 : j \in Nat /\ j \in 0..m
      BY <1>0
    <3> HIDE DEF Cut
    <3> QED
      BY <3>1, <3>2
  <2> HIDE DEF step
  <2> DEFINE I == {j \in Nat : j <= m => h[j].sin.blocks = m - j}
  <2>4. 0 \in I
    BY <1>0, <2>3 DEF m
  <2>5. ASSUME NEW j \in Nat, j \in I PROVE j + 1 \in I
    <3> SUFFICES ASSUME j + 1 <= m PROVE h[j + 1].sin.blocks = m - (j + 1)
      OBVIOUS
    <3>1. j \in 0..m - 1 /\ j \in 0..m /\ h[j].sin.blocks = m - j /\ m - (j + 1) \in Nat
          /\ m - j = (m - (j + 1)) + 1 /\ m - j # 0
      BY <1>0, <2>5
    <3>2. h[j] \in X /\ h[j + 1] = BmapTruncate(h[j])
      BY <2>3, <3>1
    <3> QED
      BY <1>1, <3>1, <3>2
  <2>6. \A j \in 0..m : h[j].sin.blocks = m - j
    <3> HIDE DEF I
    <3>1. \A j \in Nat : j \in I
      BY <2>4, <2>5, NatInd
    <3>2. \A j \in 0..m : j \in Nat /\ j <= m
      BY <1>0
    <3> QED
      BY <3>1, <3>2 DEF I
  <2> DEFINE g == [n \in 0..m |-> h[m - n]]
  <2>7. ASSUME NEW n \in 0..m PROVE g[n] = IF n = m THEN c ELSE BmapTruncate(g[n + 1])
    <3>1. CASE n = m
      BY <1>0, <2>3, <3>1
    <3>2. CASE n # m
      <4> DEFINE j == m - (n + 1)
      <4>1. j \in 0..m - 1 /\ j \in 0..m /\ j + 1 = m - n /\ n + 1 \in 0..m /\ m - j # 0
        BY <1>0, <3>2
      <4>2. h[j].sin.blocks # 0
        BY <2>6, <4>1
      <4>3. h[j + 1] = BmapTruncate(h[j])
        BY <2>3, <4>1, <4>2
      <4>4. g[n] = h[j + 1] /\ g[n + 1] = h[j]
        BY <4>1
      <4> QED
        BY <3>2, <4>3, <4>4
    <3> QED
      BY <3>1, <3>2
  <2>8. g = Body(g)
    BY <2>7
  <2> HIDE DEF Body, g
  <2> QED
    BY <2>8
<1>4. Shrink(c, N) = f[N]
  BY DEF Shrink, m
<1> HIDE DEF f
<1>5. \A n \in 0..m : f[n] = IF n = m THEN c ELSE BmapTruncate(f[n + 1])
  BY <1>3
<1> DEFINE I == {j \in Nat : j <= m => f[m - j] \in X /\ f[m - j].sin.blocks = m - j}
<1>6. 0 \in I
  <2>1. m \in 0..m /\ m - 0 = m
    BY <1>0
  <2>2. f[m] = c
    BY <1>5, <2>1
  <2> QED
    BY <1>0, <2>1, <2>2 DEF m
<1>7. ASSUME NEW j \in Nat, j \in I PROVE j + 1 \in I
  <2> DEFINE n == m - (j + 1)
  <2> SUFFICES ASSUME j + 1 <= m PROVE f[n] \in X /\ f[n].sin.blocks = n
    OBVIOUS
  <2>1. f[m - j] \in X /\ f[m - j].sin.blocks = m - j
    BY <1>0, <1>7
  <2>2. n \in 0..m /\ n # m /\ n + 1 = m - j /\ n \in Nat
    BY <1>0
  <2> HIDE DEF n
  <2>3. f[n + 1] \in X /\ f[n + 1].sin.blocks = n + 1 /\ f[n] = BmapTruncate(f[n + 1])
    BY <1>5, <2>1, <2>2
  <2> QED
    BY <1>1, <2>2, <2>3
<1>8. f[N] \in X
  <2>1. m - N \in Nat /\ m - N <= m /\ m - (m - N) = N
    BY <1>0 DEF m
  <2>2. m - N \in I
    <3> HIDE DEF I
    <3> QED
      BY <1>6, <1>7, <2>1, NatInd
  <2> QED
    BY <2>1, <2>2
<1> QED
  BY <1>4, <1>8, AfterIs DEF X

-----------------------------------------------------------------------------
\* Blocks of SFS_BLKSIZE bytes, and the position after each access
B == SFS_BLKSIZE

\* How a position lies in its block.
LEMMA Positions ==
    ASSUME NEW x \in Nat
    PROVE  /\ B \in Nat \ {0} /\ x \div B \in Nat /\ x % B \in Nat /\ x % B < B
           /\ x = B * (x \div B) + (x % B)
<1>1. B \in Nat \ {0}
  BY BlockSizeAssumption DEF B
<1> HIDE DEF B
<1>2. x \div B \in Nat /\ x % B \in 0..(B - 1) /\ x = B * (x \div B) + (x % B)
  BY <1>1
<1> QED
  BY <1>1, <1>2

\* Multiples of the size of a block.
LEMMA Multiples ==
    /\ B \in Nat \ {0}
    /\ \A p \in Nat : B * p \in Nat /\ B * (p + 1) = B * p + B
    /\ \A p, q \in Nat : p < q => B * p + B <= B * q
    /\ \A p, q \in Nat : p <= q => B * (q - p) = B * q - B * p
<1>1. B \in Nat \ {0}
  BY BlockSizeAssumption DEF B
<1> HIDE DEF B
<1>2. \A p \in Nat : B * p \in Nat /\ B * (p + 1) = B * p + B
  BY <1>1
<1>3. \A p, q \in Nat : p < q => B * p + B <= B * q
  BY <1>1
<1>4. \A p, q \in Nat : p <= q => B * (q - p) = B * q - B * p
  BY <1>1
<1> QED
  BY <1>1, <1>2, <1>3, <1>4

\* What a piece is.
Access == [blk : Nat, off : Nat, size : Nat]

\* Its fields.
LEMMA PieceIs ==
    ASSUME NEW blk, NEW off, NEW size
    PROVE  /\ Piece(blk, off, size).blk = blk /\ Piece(blk, off, size).off = off
           /\ Piece(blk, off, size).size = size
           /\ blk \in Nat /\ off \in Nat /\ size \in Nat => Piece(blk, off, size) \in Access
BY DEF Piece, Access

\* A request inside one block is one access.
LEMMA OnePiece ==
    ASSUME NEW o \in Nat, NEW e \in Nat, o < e, Span(o, e) = 0
    PROVE  Pieces(o, e) = <<Piece(o \div B, o % B, e - o)>>
<1> DEFINE first == FirstPart(o, e)
           whole == WholePart(o, e)
<1>1. o % B \in Nat /\ B \in Nat \ {0}
  BY Positions
<1>2. whole = <<>>
  BY DEF WholePart
<1>3. CASE o % B = 0
  <2>1. first = <<>>
    BY <1>3 DEF FirstPart, B
  <2>2. Len(first) = 0 /\ Len(whole) = 0
    BY <1>2, <2>1
  <2> DEFINE alen == (IF first = <<>> THEN 0 ELSE first[1].size) + SFS_BLKSIZE * Len(whole)
             blkno == (o \div SFS_BLKSIZE) + Len(first) + Len(whole)
  <2>3. alen = 0 /\ blkno = o \div B
    BY <2>1, <2>2, <1>1, Positions DEF B
  <2>4. Pieces(o, e) = first \o whole \o LastPart(o, e, alen, blkno)
    BY DEF Pieces
  <2> HIDE DEF alen, blkno, first, whole
  <2>5. LastPart(o, e, alen, blkno) = <<Piece(o \div B, 0, e - o)>>
    BY <2>3 DEF LastPart
  <2> QED
    BY <1>2, <1>3, <2>1, <2>4, <2>5
<1>4. CASE o % B # 0
  <2>1. first = <<Piece(o \div B, o % B, e - o)>>
    BY <1>4 DEF FirstPart, B
  <2>2. Len(first) = 1 /\ Len(whole) = 0 /\ first # <<>> /\ first[1].size = e - o
    BY <1>2, <2>1, PieceIs
  <2> DEFINE alen == (IF first = <<>> THEN 0 ELSE first[1].size) + SFS_BLKSIZE * Len(whole)
             blkno == (o \div SFS_BLKSIZE) + Len(first) + Len(whole)
  <2>3. alen = e - o
    BY <2>2, <1>1 DEF B
  <2>4. Pieces(o, e) = first \o whole \o LastPart(o, e, alen, blkno)
    BY DEF Pieces
  <2> HIDE DEF alen, blkno, first, whole
  <2>5. LastPart(o, e, alen, blkno) = <<>>
    BY <2>3 DEF LastPart
  <2> QED
    BY <1>2, <2>1, <2>4, <2>5
<1> QED
  BY <1>3, <1>4

\* A request that leaves its block is the rest of that block, whole blocks, and
\* what the last block has of it.
LEMMA ManyPieces ==
    ASSUME NEW o \in Nat, NEW e \in Nat, o < e, NEW S \in Nat \ {0}, Span(o, e) = S
    PROVE  LET full == [i \in 1..S |-> Piece((o \div B) + i - 1, IF i = 1 THEN o % B ELSE 0,
                                             IF i = 1 THEN B - (o % B) ELSE B)]
           IN  Pieces(o, e) = full \o (IF e % B = 0 THEN <<>> ELSE <<Piece((o \div B) + S, 0, e % B)>>)
<1> DEFINE q == o \div B
           r == o % B
           s == e % B
           full == [i \in 1..S |-> Piece(q + i - 1, IF i = 1 THEN r ELSE 0, IF i = 1 THEN B - r ELSE B)]
           first == FirstPart(o, e)
           whole == WholePart(o, e)
           F == Len(first)
           alen == (IF first = <<>> THEN 0 ELSE first[1].size) + SFS_BLKSIZE * Len(whole)
           blkno == (o \div SFS_BLKSIZE) + Len(first) + Len(whole)
<1>1. /\ q \in Nat /\ r \in Nat /\ r < B /\ s \in Nat /\ s < B /\ B \in Nat \ {0}
      /\ o = B * q + r /\ e = B * (e \div B) + s /\ e \div B \in Nat /\ e \div B = q + S
  BY Positions DEF Span, B
<1>2. e - o = B * S + s - r /\ B * S \in Nat /\ B * (S - 1) = B * S - B
  <2> HIDE DEF q, r, s
  <2>1. B * ((e \div B) - q) = B * (e \div B) - B * q
    BY <1>1, Multiples
  <2>2. (e \div B) - q = S /\ S - 1 \in Nat /\ (S - 1) + 1 = S
    BY <1>1
  <2>3. B * S = B * (S - 1) + B /\ B * S \in Nat /\ B * q \in Nat /\ B * (e \div B) \in Nat /\ B * (S - 1) \in Nat
    BY <1>1, <2>2, Multiples
  <2>4. B * S = B * (e \div B) - B * q
    BY <2>1, <2>2
  <2> QED
    BY <1>1, <2>3, <2>4
<1>3. /\ first = IF r = 0 THEN <<>> ELSE <<Piece(q, r, B - r)>>
      /\ F = IF r = 0 THEN 0 ELSE 1
  BY DEF FirstPart, B
<1>4. whole = [i \in 1..(S - F) |-> Piece(q + F + i - 1, 0, B)] /\ S - F \in Nat
  <2>1. S - F \in Nat
    BY <1>3
  <2>2. whole = [i \in 1..(S - F) |-> Piece(q + F + i - 1, 0, B)]
    BY DEF WholePart, B
  <2> QED
    BY <2>1, <2>2
<1> HIDE DEF q, r, s, whole, first
<1>5. Len(whole) = S - F
  BY <1>4
<1>6. alen = B * S - r /\ blkno = q + S
  <2>1. CASE r = 0
    BY <1>1, <1>2, <1>3, <1>5, <2>1 DEF B, q
  <2>2. CASE r # 0
    <3>1. first[1].size = B - r /\ first # <<>> /\ F = 1
      BY <1>3, <2>2, PieceIs
    <3>2. alen = (B - r) + B * (S - 1)
      BY <1>5, <3>1 DEF B
    <3>3. blkno = q + 1 + (S - 1)
      BY <1>5, <3>1 DEF B, q
    <3> HIDE DEF alen, blkno
    <3> QED
      BY <1>1, <1>2, <3>2, <3>3
  <2> QED
    BY <2>1, <2>2
<1>7. Pieces(o, e) = first \o whole \o LastPart(o, e, alen, blkno)
  BY DEF Pieces, first, whole
<1> HIDE DEF alen, blkno
<1>8. LastPart(o, e, alen, blkno) = IF s = 0 THEN <<>> ELSE <<Piece(q + S, 0, s)>>
  <2>1. e - o - alen = s /\ (alen < e - o <=> s # 0)
    BY <1>1, <1>2, <1>6
  <2> QED
    BY <1>6, <2>1 DEF LastPart
<1>9. first \o whole = full
  <2>0. first \in Seq(Access) /\ whole \in Seq(Access) /\ full \in Seq(Access)
    <3>1. \A i \in 1..S : /\ q + i - 1 \in Nat /\ (IF i = 1 THEN r ELSE 0) \in Nat
                          /\ (IF i = 1 THEN B - r ELSE B) \in Nat
      BY <1>1
    <3>2. full \in [1..S -> Access]
      BY <3>1, PieceIs
    <3>3. \A i \in 1..(S - F) : q + F + i - 1 \in Nat /\ 0 \in Nat /\ B \in Nat
      BY <1>1, <1>3
    <3>4. whole \in [1..(S - F) -> Access]
      BY <1>4, <3>3, PieceIs
    <3>5. full \in Seq(Access) /\ whole \in Seq(Access)
      <4> HIDE DEF full
      <4> QED
        BY <1>4, <3>2, <3>4, FunctionList
    <3>6. q \in Nat /\ r \in Nat /\ B - r \in Nat
      BY <1>1
    <3>7. Piece(q, r, B - r) \in Access
      BY <3>6, PieceIs
    <3>8. first \in Seq(Access)
      BY <1>3, <3>7
    <3> QED
      BY <3>5, <3>8
  <2>1. CASE r = 0
    <3>1. first = <<>> /\ F = 0
      BY <1>3, <2>1
    <3>2. \A i \in 1..S : q + F + i - 1 = q + i - 1 /\ B - r = B
      BY <1>1, <2>1, <3>1
    <3>3. whole = full
      BY <1>1, <1>4, <2>1, <3>1, <3>2
    <3>4. first \o whole = whole
      <4> HIDE DEF full
      <4> QED
        BY <2>0, <3>1
    <3> QED
      BY <3>3, <3>4
  <2>2. CASE r # 0
    <3>1. first = <<Piece(q, r, B - r)>> /\ F = 1
      BY <1>3, <2>2
    <3>3. Len(first \o whole) = S /\ Len(full) = S
      <4>1. Len(full) = S
        OBVIOUS
      <4> HIDE DEF full
      <4> QED
        BY <1>5, <3>1, <2>0, <4>1
    <3>4. ASSUME NEW i \in 1..S PROVE (first \o whole)[i] = full[i]
      <4>1. CASE i = 1
        <5>1. full[i] = Piece(q, r, B - r)
          BY <1>1, <4>1
        <5>2. (first \o whole)[i] = first[1]
          <6> HIDE DEF full
          <6> QED
            BY <3>1, <2>0, <4>1
        <5> QED
          BY <3>1, <5>1, <5>2
      <4>2. CASE i # 1
        <5>1. i - 1 \in 1..(S - F) /\ i - 1 \in 1..Len(whole) /\ q + F + (i - 1) - 1 = q + i - 1
          BY <1>1, <1>5, <3>1, <4>2
        <5>2. full[i] = Piece(q + i - 1, 0, B)
          BY <4>2
        <5>3. (first \o whole)[i] = whole[i - 1]
          <6> HIDE DEF full
          <6> QED
            BY <3>1, <2>0, <4>2, <5>1
        <5> QED
          BY <1>4, <5>1, <5>2, <5>3
      <4> QED
        BY <4>1, <4>2
    <3> HIDE DEF full
    <3>5. first \o whole \in Seq(Access)
      BY <2>0
    <3> QED
      BY <2>0, <3>3, <3>4, <3>5
  <2> QED
    BY <2>1, <2>2
<1> HIDE DEF full
<1>10. Pieces(o, e) = full \o (IF s = 0 THEN <<>> ELSE <<Piece(q + S, 0, s)>>)
  BY <1>7, <1>8, <1>9
<1> QED
  BY <1>10 DEF full, q, r, s

\* The accesses to the bytes from o to e, E[i] being where the i-th one ends
Cuts(ps, E, o, e) ==
    /\ ps \in Seq(Access) /\ Len(ps) # 0 /\ E \in [0..Len(ps) -> Nat]
    /\ E[0] = o /\ E[Len(ps)] = e
    /\ \A i \in 1..Len(ps) :
          /\ ps[i].blk * B + ps[i].off = E[i - 1] /\ E[i] = E[i - 1] + ps[i].size
          /\ ps[i].size > 0 /\ ps[i].off + ps[i].size <= B

\* A request is cut that way.
LEMMA PiecesCut ==
    ASSUME NEW o \in Nat, NEW e \in Nat, o < e
    PROVE  \E E : Cuts(Pieces(o, e), E, o, e)
<1> DEFINE q == o \div B
           r == o % B
           S == Span(o, e)
           s == e % B
           ps == Pieces(o, e)
<1>1. /\ q \in Nat /\ r \in Nat /\ r < B /\ s \in Nat /\ s < B /\ B \in Nat \ {0}
      /\ o = B * q + r /\ e = B * (e \div B) + s /\ e \div B \in Nat
      /\ B * q \in Nat /\ B * (e \div B) \in Nat
  BY Positions, Multiples
<1>2. S = (e \div B) - q
  BY DEF Span, B
<1>3. S \in Nat
  <2> SUFFICES ASSUME e \div B < q PROVE FALSE
    BY <1>1, <1>2
  <2>1. B * (e \div B) + B <= B * q
    BY <1>1, Multiples
  <2> HIDE DEF q, r, s
  <2> QED
    BY <1>1, <2>1
<1>4. CASE S = 0
  <2>1. ps = <<Piece(q, r, e - o)>>
    BY <1>4, OnePiece
  <2>2. e - o \in Nat /\ e - o > 0
    OBVIOUS
  <2>3. e - o = s - r
    <3>1. e \div B = q
      BY <1>1, <1>2, <1>4
    <3> HIDE DEF q, r, s
    <3> QED
      BY <1>1, <3>1
  <2> DEFINE E == [i \in 0..1 |-> IF i = 0 THEN o ELSE e]
  <2>4. Piece(q, r, e - o) \in Access
    BY <1>1, <2>2, PieceIs
  <2>5. /\ ps \in Seq(Access) /\ Len(ps) = 1 /\ ps[1].blk = q /\ ps[1].off = r /\ ps[1].size = e - o
    BY <2>1, <2>4, PieceIs
  <2>6. q * B + r = o /\ r + (e - o) <= B
    <3> HIDE DEF q, r, s
    <3>1. q * B = B * q
      BY <1>1
    <3> QED
      BY <1>1, <2>3, <3>1
  <2> HIDE DEF ps, q, r, s
  <2>7. E \in [0..Len(ps) -> Nat] /\ E[0] = o /\ E[Len(ps)] = e /\ E[1] = e
    BY <2>5
  <2> HIDE DEF E
  <2>8. ASSUME NEW i \in 1..Len(ps)
        PROVE  /\ ps[i].blk * B + ps[i].off = E[i - 1] /\ E[i] = E[i - 1] + ps[i].size
               /\ ps[i].size > 0 /\ ps[i].off + ps[i].size <= B
    <3>1. i = 1 /\ i - 1 = 0
      BY <2>5
    <3> QED
      BY <2>2, <2>5, <2>6, <2>7, <3>1
  <2>9. Cuts(ps, E, o, e)
    BY <2>5, <2>7, <2>8 DEF Cuts
  <2> QED
    BY <2>9 DEF ps
<1>5. CASE S # 0
  <2> DEFINE full == [i \in 1..S |-> Piece(q + i - 1, IF i = 1 THEN r ELSE 0, IF i = 1 THEN B - r ELSE B)]
             rest == IF s = 0 THEN <<>> ELSE <<Piece(q + S, 0, s)>>
             L == IF s = 0 THEN S ELSE S + 1
             E == [i \in 0..L |-> IF i = 0 THEN o ELSE IF i = L THEN e ELSE B * (q + i)]
  <2>1. ps = full \o rest
    <3>1. S \in Nat \ {0}
      BY <1>3, <1>5
    <3> QED
      BY <3>1, ManyPieces
  <2> HIDE DEF ps, q, r, s, S
  <2>2. full \in Seq(Access) /\ Len(full) = S
    <3>1. \A i \in 1..S : /\ q + i - 1 \in Nat /\ (IF i = 1 THEN r ELSE 0) \in Nat
                          /\ (IF i = 1 THEN B - r ELSE B) \in Nat
      BY <1>1
    <3>2. full \in [1..S -> Access]
      BY <3>1, PieceIs
    <3> HIDE DEF full
    <3> QED
      BY <1>3, <3>2, FunctionList
  <2>3. rest \in Seq(Access) /\ Len(rest) = IF s = 0 THEN 0 ELSE 1
    <3>1. q + S \in Nat /\ Piece(q + S, 0, s) \in Access
      BY <1>1, <1>3, PieceIs
    <3> QED
      BY <3>1
  <2>4. /\ ps \in Seq(Access) /\ Len(ps) = L /\ L \in Nat \ {0}
        /\ \A i \in 1..S : ps[i] = full[i]
        /\ s # 0 => ps[L] = rest[1]
    <3>1. S \in Nat \ {0} /\ L \in Nat \ {0} /\ (s # 0 => L = S + 1) /\ L = Len(full) + Len(rest)
      BY <1>3, <1>5, <2>2, <2>3
    <3> HIDE DEF full, rest, L
    <3>2. /\ full \o rest \in Seq(Access) /\ Len(full \o rest) = Len(full) + Len(rest)
          /\ \A i \in 1..Len(full) : (full \o rest)[i] = full[i]
          /\ \A i \in 1..Len(rest) : (full \o rest)[Len(full) + i] = rest[i]
      <4>1. full \in Seq(Access) /\ rest \in Seq(Access)
        BY <2>2, <2>3
      <4> QED
        BY <4>1
    <3>3. s # 0 => 1 \in 1..Len(rest) /\ Len(full) + 1 = L
      BY <2>2, <2>3, <3>1
    <3>4. s # 0 => ps[L] = rest[1]
      BY <2>1, <3>2, <3>3
    <3>5. ps \in Seq(Access) /\ Len(ps) = L /\ \A i \in 1..S : ps[i] = full[i]
      BY <2>1, <2>2, <3>1, <3>2
    <3> QED
      BY <3>1, <3>4, <3>5
  <2>5. \A i \in 1..S : /\ ps[i].blk = q + i - 1 /\ ps[i].off = (IF i = 1 THEN r ELSE 0)
                        /\ ps[i].size = (IF i = 1 THEN B - r ELSE B)
    BY <2>4, PieceIs
  <2>6. s # 0 => ps[L].blk = q + S /\ ps[L].off = 0 /\ ps[L].size = s
    BY <2>4, PieceIs
  <2> HIDE DEF full, rest
  <2>7. \A i \in 0..S : /\ q + i \in Nat /\ B * (q + i) \in Nat /\ (q + i) * B = B * (q + i)
                        /\ B * (q + (i + 1)) = B * (q + i) + B
    <3> SUFFICES ASSUME NEW i \in 0..S
                 PROVE  /\ q + i \in Nat /\ B * (q + i) \in Nat /\ (q + i) * B = B * (q + i)
                        /\ B * (q + (i + 1)) = B * (q + i) + B
      OBVIOUS
    <3>1. q + i \in Nat /\ q + (i + 1) = (q + i) + 1
      BY <1>1, <1>3
    <3>2. (q + i) * B = B * (q + i)
      BY <1>1, <3>1
    <3> QED
      BY <3>1, <3>2, Multiples
  <2>8. e = B * (q + S) + s
    <3>1. e \div B = q + S
      BY <1>1, <1>2, <1>3
    <3> QED
      BY <1>1, <3>1
  <2>9. E \in [0..L -> Nat] /\ E[0] = o /\ E[L] = e
    BY <1>1, <2>4, <2>7
  <2>10. \A i \in 1..S : E[i] = B * (q + i)
    <3> SUFFICES ASSUME NEW i \in 1..S PROVE E[i] = B * (q + i)
      OBVIOUS
    <3>1. i \in 0..L /\ i # 0 /\ (i = L => s = 0 /\ i = S)
      BY <1>3
    <3>2. i = L => E[i] = e /\ e = B * (q + i)
      <4> SUFFICES ASSUME i = L PROVE E[i] = e /\ e = B * (q + i)
        OBVIOUS
      <4>1. s = 0 /\ i = S /\ E[i] = e
        BY <3>1
      <4>2. B * (q + S) \in Nat
        BY <1>3, <2>7
      <4> HIDE DEF E, L
      <4> QED
        BY <2>8, <4>1, <4>2
    <3> QED
      BY <3>1, <3>2
  <2>11. ASSUME NEW i \in 1..L
         PROVE  /\ ps[i].blk * B + ps[i].off = E[i - 1] /\ E[i] = E[i - 1] + ps[i].size
                /\ ps[i].size > 0 /\ ps[i].off + ps[i].size <= B
    <3>1. CASE i \in 1..S /\ i = 1
      <4>1. ps[i].blk = q /\ ps[i].off = r /\ ps[i].size = B - r /\ i - 1 = 0
        BY <1>1, <2>5, <3>1
      <4>2. E[i] = B * (q + 1) /\ B * (q + 1) = B * q + B /\ q * B = B * q
        BY <1>1, <2>10, <3>1, Multiples
      <4> HIDE DEF E, L
      <4>3. E[i - 1] = o /\ ps[i].blk * B = B * q
        BY <2>9, <4>1, <4>2
      <4> DEFINE Bq == B * q
      <4>4. o = Bq + r /\ E[i] = Bq + B /\ ps[i].blk * B = Bq /\ Bq \in Nat
        BY <1>1, <4>2, <4>3
      <4>5. r \in Nat /\ r < B /\ B \in Nat
        BY <1>1
      <4> HIDE DEF Bq
      <4>6. Bq + r = E[i - 1] /\ E[i] = E[i - 1] + (B - r)
        BY <4>3, <4>4, <4>5
      <4>7. B - r > 0 /\ r + (B - r) <= B
        BY <4>5
      <4> QED
        BY <4>1, <4>4, <4>6, <4>7
    <3>2. CASE i \in 1..S /\ i # 1
      <4>1. i - 1 \in 1..S /\ i - 1 \in 0..S /\ (i - 1) + 1 = i /\ q + i - 1 = q + (i - 1)
        BY <1>1, <1>3, <3>2
      <4>2. ps[i].blk = q + (i - 1) /\ ps[i].off = 0 /\ ps[i].size = B
        BY <2>5, <3>2, <4>1
      <4>3. E[i] = B * (q + i) /\ E[i - 1] = B * (q + (i - 1)) /\ B * (q + i) = B * (q + (i - 1)) + B
            /\ (q + (i - 1)) * B = B * (q + (i - 1)) /\ B * (q + (i - 1)) \in Nat
        BY <2>7, <2>10, <3>2, <4>1
      <4> HIDE DEF E, L
      <4> QED
        BY <1>1, <4>2, <4>3
    <3>3. CASE i \notin 1..S
      <4>1. s # 0 /\ i = L /\ i - 1 = S /\ S \in 1..S /\ S \in 0..S
        BY <1>3, <1>5, <3>3
      <4>2. ps[i].blk = q + S /\ ps[i].off = 0 /\ ps[i].size = s
        BY <2>6, <4>1
      <4>3. E[i] = e /\ E[i - 1] = B * (q + S) /\ (q + S) * B = B * (q + S) /\ B * (q + S) \in Nat
        BY <2>7, <2>9, <2>10, <4>1
      <4> HIDE DEF E, L
      <4>4. ps[i].blk * B = E[i - 1]
        BY <4>2, <4>3
      <4>5. E[i] = E[i - 1] + s
        BY <2>8, <4>3
      <4> QED
        <5>1. s \in Nat /\ s < B /\ B \in Nat /\ E[i - 1] \in Nat
          BY <1>1, <4>3
        <5>2. ps[i].off + ps[i].size <= B /\ ps[i].size > 0 /\ E[i] = E[i - 1] + ps[i].size
          BY <4>1, <4>2, <4>5, <5>1
        <5>3. ps[i].blk * B + ps[i].off = E[i - 1]
          BY <4>2, <4>4, <5>1
        <5> QED
          BY <5>2, <5>3
    <3> QED
      BY <3>1, <3>2, <3>3
  <2>12. Cuts(ps, E, o, e)
    <3> HIDE DEF E, L
    <3> QED
      BY <2>4, <2>9, <2>11 DEF Cuts
  <2> HIDE DEF E
  <2> QED
    BY <2>12 DEF ps
<1> QED
  BY <1>4, <1>5

-----------------------------------------------------------------------------
\* A size is set and marked.
LEMMA SizeKeeps ==
    ASSUME NEW c, NEW n, NEW others, Good(c, others), Keeps(c, n, others),
           NEW size \in 0..SFS_MAX_FILE_SIZE
    PROVE  Keeps(c, [n EXCEPT !.sin.size = size, !.sin.dirty = TRUE], others)
<1> DEFINE m == [n EXCEPT !.sin.size = size, !.sin.dirty = TRUE]
           sin2 == [n.sin EXCEPT !.size = size, !.dirty = TRUE]
<1>1. Good(n, others)
  BY DEF Keeps
<1>2. /\ n \in Ctx /\ n.sin \in Inode /\ Exact(Ptr(n), n.free, others) /\ Full(Ptr(n), n.sin.blocks)
      /\ n.unused_blocks = Cardinality(n.free) /\ n.err \in Harmless
  BY <1>1, GoodIs
<1>3. /\ sin2 \in Inode /\ sin2.blocks = n.sin.blocks /\ sin2.dirty = TRUE
      /\ sin2.direct = n.sin.direct /\ sin2.indirect = n.sin.indirect
  BY <1>2 DEF Inode
<1>4. m = [n EXCEPT !.sin = sin2]
  BY <1>2 DEF Ctx
<1> HIDE DEF m, sin2
<1>5. /\ m \in Ctx /\ m.sin = sin2 /\ m.free = n.free /\ m.table = n.table /\ m.err = n.err
      /\ m.unused_blocks = n.unused_blocks /\ m.super_dirty = n.super_dirty
  BY <1>2, <1>3, <1>4 DEF Ctx
<1>6. Ptr(m) = Ptr(n)
  BY <1>3, <1>5 DEF Ptr, Pointers
<1>7. Good(m, others)
  BY <1>2, <1>3, <1>5, <1>6 DEF Good
<1>8. m.sin.dirty # FALSE
  BY <1>3, <1>5
<1>9. Keeps(c, m, others)
  BY <1>5, <1>7, <1>8 DEF Keeps
<1> QED
  BY <1>9 DEF m

\* Lengths in blocks.
LEMMA BlocksType ==
    ASSUME NEW len \in Nat
    PROVE  Blocks(len) \in Nat
<1>1. B \in Nat \ {0} /\ len + B - 1 \in Nat
  BY Multiples
<1>2. (len + B - 1) \div B \in Nat
  <2> DEFINE x == len + B - 1
  <2>1. x \in Nat
    BY <1>1
  <2> HIDE DEF x
  <2>2. x \div B \in Nat
    BY <2>1, Positions
  <2> QED
    BY <2>2 DEF x
<1> QED
  BY <1>2 DEF Blocks, B

\* sfs_truncfile.
LEMMA TruncfileKeeps ==
    ASSUME NEW c, NEW others, Good(c, others), NEW len \in 0..SFS_MAX_FILE_SIZE
    PROVE  Keeps(c, Truncfile(c, len), others)
<1> DEFINE e == "tblks == din->blocks"
           N == Blocks(len)
           n == IF c.sin.blocks <= N THEN Grow(c, N) ELSE Shrink(c, N)
<1>0. N \in Nat /\ c.sin.blocks \in Nat
  BY BlocksType, GoodIs
<1> HIDE DEF N
<1>1. CASE c.sin.size = len
  <2>1. Keeps(c, c, others)
    BY KeepsSame
  <2>2. e \in Harmless
    BY DEF Harmless
  <2> HIDE DEF e
  <2>3. Keeps(c, [c EXCEPT !.err = e], others)
    BY <2>2, ErrKeeps
  <2>4. Truncfile(c, len) = c \/ Truncfile(c, len) = [c EXCEPT !.err = e]
    BY <1>1 DEF Truncfile, e
  <2> QED
    BY <2>1, <2>3, <2>4
<1>2. CASE c.sin.size # len
  <2>1. Keeps(c, n, others)
    <3>1. CASE c.sin.blocks <= N
      BY <1>0, <3>1, GrowKeeps
    <3>2. CASE ~ (c.sin.blocks <= N)
      <4>1. N < c.sin.blocks
        BY <1>0, <3>2
      <4> QED
        BY <1>0, <3>2, <4>1, ShrinkKeeps
    <3> QED
      BY <3>1, <3>2
  <2> HIDE DEF n
  <2>2. Keeps(c, [n EXCEPT !.sin.size = len, !.sin.dirty = TRUE], others)
    BY <2>1, SizeKeeps
  <2>3. Truncfile(c, len) = n \/ Truncfile(c, len) = [n EXCEPT !.sin.size = len, !.sin.dirty = TRUE]
    BY <1>2 DEF Truncfile, n, N
  <2> QED
    BY <2>1, <2>2, <2>3
<1> QED
  BY <1>1, <1>2

\* sfs_io_nolock moves no more bytes than it is asked for.
LEMMA SfsIoKeeps ==
    ASSUME NEW c, NEW others, Good(c, others), NEW o \in Nat, NEW e \in 0..SFS_MAX_FILE_SIZE, o < e
    PROVE  LET io == SfsIo(c, o, e)
           IN  Keeps(c, io.c, others) /\ io.alen \in Nat /\ o + io.alen <= e
<1> DEFINE Gain(n, s) == IF n.err = "" THEN s ELSE 0
           ps == Pieces(o, e)
           Y == After(c, others)
           X == [c : Y, alen : Nat]
           x0 == [c |-> c, alen |-> 0]
           Do(x, p) == [c |-> BmapLoad(x.c, p.blk), alen |-> x.alen + Gain(BmapLoad(x.c, p.blk), p.size)]
           Body(f) == [i \in 0..Len(ps) |-> IF i = 0 THEN x0 ELSE Do(f[i - 1], ps[i])]
           f == CHOOSE f : f = Body(f)
           step == [i \in Nat |-> [x \in X |-> IF i + 1 \in 1..Len(ps) THEN Do(x, ps[i + 1]) ELSE x]]
<1>0. c \in Y /\ e \in Nat
  <2>1. e \in Nat
    BY FileAssumption
  <2> QED
    BY <2>1, KeepsSame, AfterIs
<1>1. PICK E : Cuts(ps, E, o, e)
  BY <1>0, PiecesCut
<1> DEFINE N == Len(ps)
<1> HIDE DEF ps
<1>2. /\ N \in Nat \ {0} /\ E \in [0..N -> Nat] /\ E[0] = o /\ E[N] = e
      /\ \A i \in 1..N : ps[i].blk \in Nat /\ ps[i].size \in Nat /\ E[i] = E[i - 1] + ps[i].size
  <2>1. /\ ps \in Seq(Access) /\ N # 0 /\ E \in [0..N -> Nat] /\ E[0] = o /\ E[N] = e
        /\ \A i \in 1..N : E[i] = E[i - 1] + ps[i].size
    BY <1>1 DEF Cuts
  <2>2. N \in Nat /\ \A i \in 1..N : ps[i] \in Access
    BY <2>1
  <2>3. \A i \in 1..N : ps[i].blk \in Nat /\ ps[i].size \in Nat
    BY <2>2 DEF Access
  <2> QED
    BY <2>1, <2>2, <2>3
<1>3. \A n, s : s \in Nat => Gain(n, s) \in Nat /\ Gain(n, s) <= s
  OBVIOUS
<1> HIDE DEF Gain
<1>4. ASSUME NEW x \in Y, NEW k \in Nat PROVE BmapLoad(x, k) \in Y
  <2>1. Keeps(c, x, others)
    BY AfterIs
  <2>2. Good(x, others)
    BY <2>1 DEF Keeps
  <2>3. Keeps(x, BmapLoad(x, k), others)
    BY <2>2, LoadIs
  <2>4. Keeps(c, BmapLoad(x, k), others)
    BY <2>1, <2>3, KeepsThen
  <2> QED
    BY <2>4, AfterIs
<1> HIDE DEF Y
<1>5. ASSUME NEW x \in X, NEW i \in 1..N
      PROVE  /\ Do(x, ps[i]) \in X
             /\ Do(x, ps[i]).alen \in Nat /\ Do(x, ps[i]).alen <= x.alen + ps[i].size
  <2> DEFINE n == BmapLoad(x.c, ps[i].blk)
             g == Gain(n, ps[i].size)
  <2>1. x.c \in Y /\ x.alen \in Nat /\ ps[i].blk \in Nat /\ ps[i].size \in Nat
    BY <1>2
  <2>2. n \in Y /\ g \in Nat /\ g <= ps[i].size
    BY <1>3, <1>4, <2>1
  <2> HIDE DEF n, g
  <2>3. Do(x, ps[i]) = [c |-> n, alen |-> x.alen + g]
    BY DEF n, g
  <2> HIDE DEF Do
  <2>4. x.alen + g \in Nat /\ x.alen + g <= x.alen + ps[i].size
    BY <2>1, <2>2
  <2> QED
    BY <2>2, <2>3, <2>4
<1> HIDE DEF Do
<1>6. x0 \in X
  BY <1>0
<1>7. f = Body(f)
  <2>1. step \in [Nat -> [X -> X]]
    <3> HIDE DEF X
    <3> QED
      BY <1>5
  <2>2. PICK g : Follows(g, X, x0, step, N)
    <3> HIDE DEF step, f, Body, X, x0, N
    <3> QED
      BY <1>2, <1>6, <2>1, FiniteRecursion
  <2> HIDE DEF X, x0, N
  <2>3. g \in [0..N -> X] /\ g[0] = x0 /\ \A n \in 0..N - 1 : g[n + 1] = step[n][g[n]]
    BY <2>2 DEF Follows
  <2>4. ASSUME NEW i \in 0..N PROVE g[i] = IF i = 0 THEN x0 ELSE Do(g[i - 1], ps[i])
    <3>1. CASE i = 0
      BY <2>3, <3>1
    <3>2. CASE i # 0
      <4>1. i - 1 \in 0..N - 1 /\ (i - 1) + 1 = i /\ i - 1 \in Nat /\ i - 1 \in 0..N /\ i \in 1..N
        BY <1>2, <3>2
      <4>2. g[i] = step[i - 1][g[i - 1]] /\ g[i - 1] \in X
        BY <2>3, <4>1
      <4>3. step[i - 1][g[i - 1]] = Do(g[i - 1], ps[i])
        BY <4>1, <4>2 DEF N
      <4> QED
        BY <3>2, <4>2, <4>3
    <3> QED
      BY <3>1, <3>2
  <2> HIDE DEF step
  <2>5. g = Body(g)
    BY <2>3, <2>4 DEF N
  <2> HIDE DEF Body
  <2> QED
    BY <2>5
<1>8. \A i \in 0..N : f[i] = IF i = 0 THEN x0 ELSE Do(f[i - 1], ps[i])
  <2> HIDE DEF f, x0
  <2> QED
    BY <1>7
<1> DEFINE last == f[N]
           size == last.c.sin.size
<1>9. SfsIo(c, o, e) = [alen |-> last.alen,
                        c |-> IF last.c.err \in {"", "E_NO_MEM"} /\ o + last.alen > size
                              THEN [last.c EXCEPT !.sin.size = o + last.alen, !.sin.dirty = TRUE]
                              ELSE last.c]
  BY DEF SfsIo, ps, Do, Gain
<1> HIDE DEF f
<1> DEFINE I == {i \in Nat : i <= N => f[i] \in X /\ o + f[i].alen <= E[i]}
<1>10. 0 \in I
  <2>1. f[0] = x0
    BY <1>2, <1>8
  <2> QED
    BY <1>2, <1>6, <2>1
<1>11. ASSUME NEW n \in Nat, n \in I PROVE n + 1 \in I
  <2> SUFFICES ASSUME n + 1 <= N PROVE f[n + 1] \in X /\ o + f[n + 1].alen <= E[n + 1]
    OBVIOUS
  <2>1. f[n] \in X /\ o + f[n].alen <= E[n] /\ n \in 0..N /\ n + 1 \in 0..N /\ (n + 1) - 1 = n /\ n + 1 \in 1..N
        /\ n + 1 # 0
    BY <1>2, <1>11
  <2>2. f[n + 1] = Do(f[n], ps[n + 1])
    BY <1>8, <2>1
  <2>3. f[n + 1] \in X /\ f[n + 1].alen \in Nat /\ f[n + 1].alen <= f[n].alen + ps[n + 1].size
    BY <1>5, <2>1, <2>2
  <2>4. E[n + 1] = E[n] + ps[n + 1].size /\ ps[n + 1].size \in Nat /\ E[n] \in Nat /\ f[n].alen \in Nat
    BY <1>2, <2>1
  <2> DEFINE a == f[n].alen
             d == f[n + 1].alen
             s == ps[n + 1].size
  <2>5. /\ a \in Nat /\ d \in Nat /\ s \in Nat /\ E[n] \in Nat /\ o + a <= E[n] /\ d <= a + s
        /\ E[n + 1] = E[n] + s
    BY <2>1, <2>3, <2>4
  <2> HIDE DEF X, a, d, s
  <2>6. o + d <= E[n + 1]
    BY <2>5
  <2> QED
    BY <2>3, <2>6 DEF d
<1>12. last \in X /\ o + last.alen <= e
  <2>1. N \in I
    <3> HIDE DEF I, N
    <3> QED
      BY <1>2, <1>10, <1>11, NatInd
  <2> HIDE DEF N, X
  <2> QED
    BY <1>2, <2>1
<1>13. last.c \in Y /\ last.alen \in Nat
  BY <1>12
<1> HIDE DEF last, X
<1>14. Keeps(c, last.c, others)
  BY <1>13, AfterIs DEF Y
<1>15. o + last.alen \in 0..SFS_MAX_FILE_SIZE
  BY <1>0, <1>12, <1>13, FileAssumption
<1>16. Keeps(c, [last.c EXCEPT !.sin.size = o + last.alen, !.sin.dirty = TRUE], others)
  <2> DEFINE n == last.c
             new == o + last.alen
  <2> HIDE DEF n, new
  <2>1. Keeps(c, [n EXCEPT !.sin.size = new, !.sin.dirty = TRUE], others)
    BY <1>14, <1>15, SizeKeeps DEF n, new
  <2> QED
    BY <2>1 DEF n, new
<1>17. SfsIo(c, o, e).alen = last.alen /\ Keeps(c, SfsIo(c, o, e).c, others)
  <2> DEFINE grown == last.c.err \in {"", "E_NO_MEM"} /\ o + last.alen > size
             n == [last.c EXCEPT !.sin.size = o + last.alen, !.sin.dirty = TRUE]
  <2>1. SfsIo(c, o, e) = [alen |-> last.alen, c |-> IF grown THEN n ELSE last.c]
    BY <1>9
  <2>2. Keeps(c, n, others)
    BY <1>16
  <2> HIDE DEF grown, n
  <2>3. SfsIo(c, o, e).alen = last.alen /\ SfsIo(c, o, e).c = IF grown THEN n ELSE last.c
    BY <2>1
  <2> QED
    BY <1>14, <2>2, <2>3
<1> QED
  BY <1>12, <1>13, <1>17

-----------------------------------------------------------------------------
\* Where a file points to, and what all files but f point to
Data(f) == Pointers(Sin(f), table)
OthersOf(f) == {b \in Block : \E g \in File \ {f} : \E k \in Slots : Data(g)[k] = b}

\* Every block is free or in one place of one file.
BlocksOnce ==
    /\ \A f \in File : \A k \in Slots : Data(f)[k] # 0 => Data(f)[k] \in Block \ free
    /\ \A f, g \in File : \A k, l \in Slots :
          Data(f)[k] = Data(g)[l] /\ Data(f)[k] # 0 => f = g /\ k = l
    /\ \A b \in Block \ free : \E f \in File : \E k \in Slots : Data(f)[k] = b

\* Files have the blocks they count.
FilesFull == \A f \in File : Full(Data(f), Sin(f).blocks)

\* An inode in memory that is not dirty is on the disk, but for blocks counted
\* since.
CleanStored ==
    \A f \in File : sins[f] # NULL /\ sins[f].dirty = FALSE =>
        /\ disk[f].size = sins[f].size /\ disk[f].direct = sins[f].direct
        /\ disk[f].indirect = sins[f].indirect /\ disk[f].blocks <= sins[f].blocks

\* So is a superblock that is not dirty, which counts the free blocks.
SuperExact ==
    /\ super.unused_blocks = Cardinality(free)
    /\ super.dirty = FALSE => image = [free |-> free, unused_blocks |-> Cardinality(free)]

\* Why the kernel stopped
Ending == panic \in Harmless \cup {"initproc exit"} /\ (panic = "initproc exit" => super.dirty = FALSE)

\* The inductive invariant.
SfsInv == TypeOK /\ BlocksOnce /\ FilesFull /\ CleanStored /\ SuperExact /\ Ending

\* What TypeOK says of the inodes.
LEMMA InodeTypes ==
    ASSUME TypeOK, NEW f \in File
    PROVE  /\ Sin(f) \in Inode /\ (sins[f] # NULL => sins[f] \in Inode /\ Sin(f) = sins[f])
           /\ (sins[f] = NULL => Sin(f) = Loaded(disk[f]))
           /\ disk[f] \in DiskInode /\ free \subseteq Block
           /\ super \in [unused_blocks : Nat, dirty : BOOLEAN]
           /\ table \in [Block -> [Entries -> Ino]] /\ Data(f) \in [Slots -> Ino]
           /\ Sin(f).blocks \in Nat
<1>1. /\ disk[f] \in DiskInode /\ sins[f] \in Inode \cup {NULL} /\ free \subseteq Block
      /\ super \in [unused_blocks : Nat, dirty : BOOLEAN]
      /\ table \in [Block -> [Entries -> Ino]]
  BY DEF TypeOK, Ino
<1>2. Loaded(disk[f]) \in Inode
  BY <1>1 DEF Loaded, Inode, DiskInode
<1>3. Sin(f) \in Inode /\ (sins[f] # NULL => sins[f] \in Inode /\ Sin(f) = sins[f])
      /\ (sins[f] = NULL => Sin(f) = Loaded(disk[f]))
  BY <1>1, <1>2 DEF Sin
<1>4. Data(f) \in [Slots -> Ino]
  <2> DEFINE s == Sin(f)
  <2>1. s \in Inode
    BY <1>3
  <2> HIDE DEF s
  <2>2. Pointers(s, table) \in [Slots -> Ino]
    BY <1>1, <2>1, PointersType
  <2> QED
    BY <2>2 DEF Data, s
<1>5. Sin(f).blocks \in Nat
  BY <1>3 DEF Inode
<1> QED
  BY <1>1, <1>3, <1>4, <1>5

\* What an operation on a file starts from.
LEMMA ContextGood ==
    ASSUME SfsInv, NEW f \in File
    PROVE  Good(Context(Sin(f)), OthersOf(f))
<1> DEFINE c == Context(Sin(f))
           others == OthersOf(f)
<1>1. /\ Sin(f) \in Inode /\ free \subseteq Block /\ super \in [unused_blocks : Nat, dirty : BOOLEAN]
      /\ table \in [Block -> [Entries -> Ino]] /\ Data(f) \in [Slots -> Ino]
  BY InodeTypes DEF SfsInv
<1>2. c \in Ctx
  BY <1>1 DEF Context, Ctx, Ino, Failed
<1>3. c.sin = Sin(f) /\ c.free = free /\ c.table = table /\ c.unused_blocks = super.unused_blocks
      /\ c.err = ""
  BY DEF Context
<1>4. Ptr(c) = Data(f)
  BY <1>3 DEF Ptr, Data
<1>5. Exact(Data(f), free, others)
  <2> USE DEF SfsInv, BlocksOnce
  <2>1. others \subseteq Block
    BY DEF OthersOf
  <2>2. free \cap others = {}
    BY <1>1, Sizes DEF OthersOf
  <2>3. \A k \in Slots : Data(f)[k] # 0 => Data(f)[k] \in Block \ (free \cup others)
    BY DEF OthersOf
  <2>4. \A k, l \in Slots : Data(f)[k] = Data(f)[l] /\ Data(f)[k] # 0 => k = l
    OBVIOUS
  <2>5. \A b \in Block \ (free \cup others) : \E k \in Slots : Data(f)[k] = b
    BY DEF OthersOf
  <2> HIDE DEF SfsInv, BlocksOnce
  <2> QED
    BY <1>1, <2>1, <2>2, <2>3, <2>4, <2>5 DEF Exact
<1>6. Full(Data(f), Sin(f).blocks)
  BY DEF SfsInv, FilesFull
<1>7. super.unused_blocks = Cardinality(free)
  BY DEF SfsInv, SuperExact
<1>8. "" \in Harmless
  BY DEF Harmless
<1> HIDE DEF c, others
<1>9. Good(c, others)
  BY <1>2, <1>3, <1>4, <1>5, <1>6, <1>7, <1>8 DEF Good
<1> QED
  BY <1>9 DEF c, others

\* A file system that mksfs has made.
LEMMA SfsInitInv == Init => SfsInv
<1> SUFFICES ASSUME Init PROVE SfsInv
  OBVIOUS
<1> DEFINE zero == [size |-> 0, blocks |-> 0, direct |-> [i \in 0..(SFS_NDIRECT - 1) |-> 0], indirect |-> 0]
<1>1. Cardinality(Block) \in Nat
  BY Sizes
<1>2. zero \in DiskInode
  BY FileAssumption DEF DiskInode
<1>3. \A f \in File : disk[f] = zero
  BY DEF Init
<1>4. table \in [Block -> [Entries -> Ino]]
  BY Sizes DEF Init
<1>5. disk \in [File -> DiskInode]
  <2>1. disk = [f \in File |-> zero]
    BY DEF Init
  <2> HIDE DEF zero
  <2> QED
    BY <1>2, <2>1
<1>6. TypeOK
  BY <1>1, <1>4, <1>5 DEF Init, TypeOK, Failed, Ino
<1>7. ASSUME NEW f \in File
      PROVE  /\ Sin(f).blocks = 0 /\ Sin(f).indirect = 0 /\ \A i \in 0..(SFS_NDIRECT - 1) : Sin(f).direct[i] = 0
  BY <1>3 DEF Init, Sin, Loaded
<1>8. ASSUME NEW f \in File, NEW k \in Slots PROVE Data(f)[k] = 0
  <2>1. k < SFS_NDIRECT => k \in 0..(SFS_NDIRECT - 1)
    BY Sizes
  <2> QED
    BY <1>7, <2>1 DEF Data, Pointers
<1>9. BlocksOnce
  BY <1>8 DEF BlocksOnce, Init
<1>10. FilesFull
  BY <1>7, Sizes DEF FilesFull, Full
<1>11. CleanStored /\ SuperExact
  BY DEF Init, CleanStored, SuperExact
<1>12. Ending
  BY DEF Init, Ending, Harmless
<1> QED
  BY <1>6, <1>9, <1>10, <1>11, <1>12 DEF SfsInv

\* What every part of the invariant needs of a step on file f.
LEMMA CommitKeeps ==
    ASSUME SfsInv, NEW f \in File, NEW c, Keeps(Context(Sin(f)), c, OthersOf(f)),
           Commit(f, c), UNCHANGED <<disk, image>>
    PROVE  /\ BlocksOnce' /\ FilesFull' /\ CleanStored' /\ SuperExact' /\ Ending'
           /\ panic' # "initproc exit"
           /\ free' \subseteq Block /\ super' \in [unused_blocks : Nat, dirty : BOOLEAN]
           /\ table' \in [Block -> [Entries -> Ino]]
           /\ sins' \in [File -> Inode \cup {NULL}] /\ c.sin \in Inode
           /\ sins' = [sins EXCEPT ![f] = c.sin] /\ c.sin # NULL /\ sins'[f] # NULL
<1> DEFINE c0 == Context(Sin(f))
           others == OthersOf(f)
<1>1. /\ free' = c.free /\ table' = c.table /\ sins' = [sins EXCEPT ![f] = c.sin]
      /\ super' = [unused_blocks |-> c.unused_blocks, dirty |-> c.super_dirty]
      /\ panic' = IF c.err = "E_NO_MEM" THEN "" ELSE c.err
      /\ disk' = disk /\ image' = image
  BY DEF Commit
<1>2. c0.sin = Sin(f) /\ c0.free = free /\ c0.table = table /\ c0.super_dirty = super.dirty
  BY DEF Context
<1>3. Keeps(c0, c, others)
  OBVIOUS
<1>4. Good(c, others)
  BY <1>3 DEF Keeps
<1> HIDE DEF c0
<1>5. /\ c \in Ctx /\ Exact(Ptr(c), c.free, others) /\ Full(Ptr(c), c.sin.blocks)
      /\ c.unused_blocks = Cardinality(c.free) /\ c.err \in Harmless
      /\ c.sin \in Inode /\ c.free \subseteq Block /\ others \subseteq Block
      /\ c.free \cap others = {} /\ c.table \in [Block -> [Entries -> Ino]]
      /\ Ptr(c) \in [Slots -> Ino]
  BY <1>4, GoodIs
<1>6. c.sin # NULL
  BY <1>5, FileAssumption
<1>7. sins \in [File -> Inode \cup {NULL}]
  BY DEF SfsInv, TypeOK
<1>8. \A g \in File : sins'[g] = IF g = f THEN c.sin ELSE sins[g]
  BY <1>1, <1>7
<1>9. \A g \in File : Sin(g)' = IF g = f THEN c.sin ELSE Sin(g)
  BY <1>1, <1>6, <1>8 DEF Sin
<1>10. Data(f)' = Ptr(c)
  BY <1>1, <1>9 DEF Data, Ptr
<1>11. ASSUME NEW g \in File, g # f PROVE Data(g)' = Data(g)
  <2> DEFINE s == Sin(g)
  <2>1. Sin(g)' = s
    BY <1>9, <1>11
  <2>2. s.indirect # 0 => s.indirect \in others
    <3>1. ~ (Last < SFS_NDIRECT) /\ Last \in Slots
      BY Sizes DEF Last
    <3>2. Data(g)[Last] = s.indirect
      BY <3>1 DEF Data, Pointers
    <3>3. Sin(g) \in Inode
      BY InodeTypes DEF SfsInv
    <3> HIDE DEF s
    <3>4. s.indirect # 0 => s.indirect \in Block
      BY <3>3 DEF Inode, s
    <3> QED
      BY <1>11, <3>1, <3>2, <3>4 DEF OthersOf
  <2>3. \A b \in others : c.table[b] = table[b]
    BY <1>2, <1>3 DEF Keeps
  <2> HIDE DEF s, others
  <2>4. Pointers(s, c.table) = Pointers(s, table)
    BY <2>2, <2>3 DEF Pointers
  <2> QED
    BY <1>1, <2>1, <2>4 DEF Data, s
<1>12. \A g \in File : \A k \in Slots : g # f /\ Data(g)[k] # 0 => Data(g)[k] \in others /\ Data(g)[k] \in Block
  <2>1. \A g \in File : \A k \in Slots : Data(g)[k] # 0 => Data(g)[k] \in Block
    BY DEF SfsInv, BlocksOnce
  <2> QED
    BY <2>1 DEF OthersOf
<1>13. BlocksOnce'
  <2>1. ASSUME NEW g \in File, NEW k \in Slots, Data(g)'[k] # 0
        PROVE  Data(g)'[k] \in Block \ c.free /\ (g = f => Data(g)'[k] \notin others)
               /\ (g # f => Data(g)'[k] \in others)
    <3>1. CASE g = f
      BY <1>5, <1>10, <2>1, <3>1 DEF Exact
    <3>2. CASE g # f
      BY <1>5, <1>11, <1>12, <2>1, <3>2
    <3> QED
      BY <3>1, <3>2
  <2>2. ASSUME NEW g \in File, NEW h \in File, NEW k \in Slots, NEW l \in Slots,
               Data(g)'[k] = Data(h)'[l], Data(g)'[k] # 0
        PROVE  g = h /\ k = l
    <3>1. g = f <=> h = f
      BY <2>1, <2>2
    <3>2. CASE g = f
      BY <1>5, <1>10, <2>2, <3>1, <3>2 DEF Exact
    <3>3. CASE g # f
      BY <1>11, <2>2, <3>1, <3>3 DEF SfsInv, BlocksOnce
    <3> QED
      BY <3>2, <3>3
  <2>3. ASSUME NEW b \in Block \ c.free PROVE \E g \in File : \E k \in Slots : Data(g)'[k] = b
    <3>1. CASE b \in others
      <4>1. PICK g \in File \ {f} : \E k \in Slots : Data(g)[k] = b
        BY <3>1 DEF OthersOf
      <4> QED
        BY <1>11, <4>1
    <3>2. CASE b \notin others
      BY <1>5, <1>10, <3>2 DEF Exact
    <3> QED
      BY <3>1, <3>2
  <2>4. free' = c.free
    BY <1>1
  <2>5. (\A g \in File : \A k \in Slots : Data(g)[k] # 0 => Data(g)[k] \in Block \ free)'
    BY <2>1, <2>4
  <2>6. (\A g, h \in File : \A k, l \in Slots :
            Data(g)[k] = Data(h)[l] /\ Data(g)[k] # 0 => g = h /\ k = l)'
    BY <2>2
  <2>7. (\A b \in Block \ free : \E g \in File : \E k \in Slots : Data(g)[k] = b)'
    BY <2>3, <2>4
  <2> QED
    BY <2>5, <2>6, <2>7 DEF BlocksOnce
<1>14. FilesFull'
  <2> SUFFICES ASSUME NEW g \in File PROVE Full(Data(g), Sin(g).blocks)'
    BY DEF FilesFull
  <2>1. CASE g = f
    BY <1>5, <1>9, <1>10, <2>1 DEF Full
  <2>2. CASE g # f
    BY <1>9, <1>11, <2>2 DEF SfsInv, FilesFull, Full
  <2> QED
    BY <2>1, <2>2
<1>15. CleanStored'
  <2> SUFFICES ASSUME NEW g \in File, sins'[g] # NULL, sins'[g].dirty = FALSE
               PROVE  /\ disk[g].size = sins'[g].size /\ disk[g].direct = sins'[g].direct
                      /\ disk[g].indirect = sins'[g].indirect /\ disk[g].blocks <= sins'[g].blocks
    BY <1>1 DEF CleanStored
  <2>1. CASE g # f
    BY <1>8, <2>1 DEF SfsInv, CleanStored
  <2>2. CASE g = f
    <3>1. sins'[g] = c.sin /\ c.sin.dirty = FALSE
      BY <1>8, <2>2
    <3>2. /\ Sin(f).dirty = FALSE /\ Sin(f).blocks <= c.sin.blocks
          /\ c.sin.size = Sin(f).size /\ c.sin.direct = Sin(f).direct
          /\ c.sin.indirect = Sin(f).indirect
      BY <1>2, <1>3, <3>1 DEF Keeps
    <3>3. Sin(f).blocks \in Nat /\ c.sin.blocks \in Nat /\ disk[f].blocks \in Nat
      BY <1>5, InodeTypes DEF SfsInv, Inode, DiskInode
    <3>4. /\ disk[f].size = Sin(f).size /\ disk[f].direct = Sin(f).direct
          /\ disk[f].indirect = Sin(f).indirect /\ disk[f].blocks <= Sin(f).blocks
      <4>1. CASE sins[f] = NULL
        <5>1. Sin(f) = Loaded(disk[f])
          BY <4>1, InodeTypes DEF SfsInv
        <5>2. disk[f].blocks <= disk[f].blocks
          BY <3>3
        <5> QED
          BY <5>1, <5>2 DEF Loaded
      <4>2. CASE sins[f] # NULL
        <5>1. Sin(f) = sins[f]
          BY <4>2, InodeTypes DEF SfsInv
        <5> QED
          BY <3>2, <4>2, <5>1 DEF SfsInv, CleanStored
      <4> QED
        BY <4>1, <4>2
    <3>5. disk[f].blocks <= c.sin.blocks
      BY <3>2, <3>3, <3>4
    <3> QED
      BY <2>2, <3>1, <3>2, <3>4, <3>5
  <2> QED
    BY <2>1, <2>2
<1>16. SuperExact'
  <2>1. super'.unused_blocks = Cardinality(free')
    BY <1>1, <1>5
  <2>2. super'.dirty = FALSE => super.dirty = FALSE /\ free' = free
    BY <1>1, <1>2, <1>3 DEF Keeps
  <2>3. super'.dirty = FALSE => image = [free |-> free', unused_blocks |-> Cardinality(free')]
    BY <2>2 DEF SfsInv, SuperExact
  <2> QED
    BY <1>1, <2>1, <2>3 DEF SuperExact
<1>17. Ending' /\ panic' # "initproc exit"
  <2>1. panic' \in Harmless
    BY <1>1, <1>5 DEF Harmless
  <2>2. "initproc exit" \notin Harmless
    BY DEF Harmless
  <2>3. panic' # "initproc exit"
    BY <2>1, <2>2
  <2> QED
    BY <2>1, <2>3 DEF Ending
<1>18. super' \in [unused_blocks : Nat, dirty : BOOLEAN]
  BY <1>1, <1>5, Fields
<1>19. sins' \in [File -> Inode \cup {NULL}]
  BY <1>1, <1>5, <1>7
<1> QED
  BY <1>1, <1>5, <1>6, <1>8, <1>13, <1>14, <1>15, <1>16, <1>17, <1>18, <1>19

\* A step that stores inodes and forgets them.
LEMMA StoreKeeps ==
    ASSUME SfsInv, NEW F \in SUBSET File, disk' = Stored(F), free' = free, table' = table,
           \A f \in File : \/ sins'[f] = sins[f] /\ f \notin F
                           \/ sins'[f] = NULL /\ (f \in F \/ sins[f] = NULL)
                           \/ f \in F /\ sins[f] # NULL /\ sins'[f] = [sins[f] EXCEPT !.dirty = FALSE]
    PROVE  /\ BlocksOnce' /\ FilesFull' /\ CleanStored'
           /\ disk' \in [File -> DiskInode]
<1>1. \A f \in File : disk'[f] = IF f \in F /\ sins[f] # NULL /\ sins[f].dirty THEN Din(sins[f]) ELSE disk[f]
  BY DEF Stored
<1>2. ASSUME NEW f \in File
      PROVE  /\ disk'[f] \in DiskInode /\ Sin(f)'.direct = Sin(f).direct
             /\ Sin(f)'.indirect = Sin(f).indirect /\ Sin(f)'.blocks \in Nat
             /\ Sin(f)'.blocks <= Sin(f).blocks
             /\ sins'[f] # NULL /\ sins'[f].dirty = FALSE =>
                   /\ disk'[f].size = sins'[f].size /\ disk'[f].direct = sins'[f].direct
                   /\ disk'[f].indirect = sins'[f].indirect /\ disk'[f].blocks <= sins'[f].blocks
  <2> DEFINE s == sins[f]
             d == disk[f]
  <2>1. d \in DiskInode /\ (s # NULL => s \in Inode)
    BY InodeTypes DEF SfsInv
  <2>2. s # NULL /\ s.dirty = FALSE => /\ d.size = s.size /\ d.direct = s.direct
                                       /\ d.indirect = s.indirect /\ d.blocks <= s.blocks
    BY DEF SfsInv, CleanStored
  <2>3. d.blocks \in Nat /\ (s # NULL => s.blocks \in Nat /\ s.dirty \in BOOLEAN)
    BY <2>1 DEF DiskInode, Inode
  <2>4. s # NULL => /\ Din(s) \in DiskInode /\ Din(s).size = s.size /\ Din(s).blocks = s.blocks
                    /\ Din(s).direct = s.direct /\ Din(s).indirect = s.indirect
    BY <2>1 DEF Din, DiskInode, Inode
  <2>5. disk'[f] = IF f \in F /\ s # NULL /\ s.dirty THEN Din(s) ELSE d
    BY <1>1
  <2>6. disk'[f] \in DiskInode
    BY <2>1, <2>4, <2>5
  <2>7. Sin(f) = (IF s = NULL THEN Loaded(d) ELSE s)
        /\ Sin(f)' = (IF sins'[f] = NULL THEN Loaded(disk'[f]) ELSE sins'[f])
    BY DEF Sin
  <2>8. \A x : /\ Loaded(x).size = x.size /\ Loaded(x).blocks = x.blocks /\ Loaded(x).direct = x.direct
               /\ Loaded(x).indirect = x.indirect
    BY DEF Loaded
  <2> HIDE DEF s, d
  <2>9. CASE sins'[f] = sins[f] /\ f \notin F
    <3>1. disk'[f] = d /\ sins'[f] = s
      BY <2>5, <2>9 DEF s
    <3>2. Sin(f)' = Sin(f)
      BY <2>7, <3>1
    <3>3. Sin(f).blocks \in Nat
      BY InodeTypes DEF SfsInv
    <3>4. Sin(f)'.blocks <= Sin(f).blocks /\ Sin(f)'.blocks \in Nat
      BY <3>2, <3>3
    <3> QED
      BY <2>2, <2>6, <3>1, <3>2, <3>4
  <2>10. CASE sins'[f] = NULL /\ (f \in F \/ sins[f] = NULL)
    <3>1. Sin(f)' = Loaded(disk'[f])
      BY <2>7, <2>10
    <3>2. CASE s = NULL
      <4>1. Sin(f)' = Loaded(d) /\ Sin(f) = Loaded(d)
        BY <2>5, <2>7, <3>1, <3>2
      <4>2. d.blocks <= d.blocks
        BY <2>3
      <4> QED
        BY <2>3, <2>6, <2>8, <2>10, <4>1, <4>2
    <3>3. CASE s # NULL /\ s.dirty = TRUE
      <4>1. Sin(f)' = Loaded(Din(s)) /\ Sin(f) = s
        BY <2>5, <2>7, <2>10, <3>1, <3>3 DEF s
      <4>2. s.blocks <= s.blocks
        BY <2>3, <3>3
      <4> QED
        BY <2>3, <2>4, <2>6, <2>8, <2>10, <3>3, <4>1, <4>2
    <3>4. CASE s # NULL /\ s.dirty = FALSE
      <4>1. Sin(f)' = Loaded(d) /\ Sin(f) = s
        BY <2>5, <2>7, <3>1, <3>4
      <4> QED
        BY <2>2, <2>3, <2>6, <2>8, <2>10, <3>4, <4>1
    <3> QED
      BY <2>3, <3>2, <3>3, <3>4
  <2>11. CASE f \in F /\ sins[f] # NULL /\ sins'[f] = [sins[f] EXCEPT !.dirty = FALSE]
    <3> DEFINE t == sins'[f]
    <3>1. s \in Inode /\ s # NULL /\ t = [s EXCEPT !.dirty = FALSE]
      BY <2>1, <2>11 DEF s
    <3>2. t \in Inode /\ t.size = s.size /\ t.blocks = s.blocks /\ t.direct = s.direct
          /\ t.indirect = s.indirect
      BY <3>1 DEF Inode
    <3>3. t # NULL
      BY <3>2, FileAssumption
    <3>4. Sin(f)' = t /\ Sin(f) = s
      BY <2>7, <3>1, <3>3
    <3>5. s.blocks <= s.blocks /\ s.blocks \in Nat
      BY <2>3, <3>1
    <3>6. CASE s.dirty = TRUE
      <4>1. disk'[f] = Din(s)
        BY <2>5, <2>11, <3>1, <3>6
      <4> QED
        BY <2>4, <2>6, <3>1, <3>2, <3>4, <3>5, <4>1
    <3>7. CASE s.dirty = FALSE
      <4>1. disk'[f] = d
        BY <2>5, <3>7
      <4> QED
        BY <2>2, <2>6, <3>1, <3>2, <3>4, <3>5, <3>7, <4>1
    <3> QED
      BY <2>3, <3>1, <3>6, <3>7
  <2> QED
    BY <2>9, <2>10, <2>11
<1>3. \A f \in File : Data(f)' = Data(f)
  <2> SUFFICES ASSUME NEW f \in File PROVE Data(f)' = Data(f)
    OBVIOUS
  <2> DEFINE s == Sin(f)
             t == Sin(f)'
  <2>1. t.direct = s.direct /\ t.indirect = s.indirect
    BY <1>2
  <2> HIDE DEF s, t
  <2>2. Pointers(t, table) = Pointers(s, table)
    BY <2>1 DEF Pointers
  <2> QED
    BY <2>2 DEF Data, s, t
<1>4. BlocksOnce'
  BY <1>3 DEF SfsInv, BlocksOnce
<1>5. FilesFull'
  <2> SUFFICES ASSUME NEW f \in File PROVE Full(Data(f), Sin(f).blocks)'
    BY DEF FilesFull
  <2> DEFINE m == Sin(f).blocks
             l == Sin(f)'.blocks
  <2>1. m \in Nat /\ l \in Nat /\ l <= m
    BY <1>2, InodeTypes DEF SfsInv
  <2>2. Full(Data(f), m)
    BY DEF SfsInv, FilesFull
  <2> HIDE DEF m, l
  <2>3. \A P : Full(P, m) => Full(P, l)
    BY <2>1, Sizes DEF Full
  <2>4. Full(Data(f)', l)
    BY <1>3, <2>2, <2>3
  <2> QED
    BY <2>4 DEF l, Full
<1>6. CleanStored'
  BY <1>2 DEF CleanStored
<1>7. disk' \in [File -> DiskInode]
  BY <1>2 DEF Stored
<1> QED
  BY <1>4, <1>5, <1>6, <1>7

\* A step on file f, and where it leaves the descriptors.
LEMMA CommitInv ==
    ASSUME SfsInv, NEW f \in File, NEW c, Keeps(Context(Sin(f)), c, OthersOf(f)),
           Commit(f, c), UNCHANGED <<disk, image>>,
           fds' \in [Desc -> OpenFile \cup {NULL}],
           \A d \in Desc : fds'[d] # NULL => fds'[d].file = f \/ fds'[d] = fds[d]
    PROVE  SfsInv' /\ panic' # "initproc exit" /\ \A g \in File : sins[g] # NULL => sins'[g] # NULL
<1>1. /\ BlocksOnce' /\ FilesFull' /\ CleanStored' /\ SuperExact' /\ Ending'
      /\ panic' # "initproc exit"
      /\ free' \subseteq Block /\ super' \in [unused_blocks : Nat, dirty : BOOLEAN]
      /\ table' \in [Block -> [Entries -> Ino]]
      /\ sins' \in [File -> Inode \cup {NULL}]
      /\ sins' = [sins EXCEPT ![f] = c.sin] /\ c.sin # NULL /\ sins'[f] # NULL
  BY CommitKeeps
<1>2. \A g \in File : sins[g] # NULL => sins'[g] # NULL
  BY <1>1 DEF SfsInv, TypeOK
<1>3. \A d \in Desc : fds'[d] # NULL => sins'[fds'[d].file] # NULL
  <2> SUFFICES ASSUME NEW d \in Desc, fds'[d] # NULL PROVE sins'[fds'[d].file] # NULL
    OBVIOUS
  <2>1. CASE fds'[d].file = f
    BY <1>1, <2>1
  <2>2. CASE fds'[d] = fds[d]
    <3>1. fds[d].file \in File /\ sins[fds[d].file] # NULL
      BY <2>2 DEF SfsInv, TypeOK, OpenFile
    <3> QED
      BY <1>2, <2>2, <3>1
  <2> QED
    BY <2>1, <2>2
<1>4. disk' \in [File -> DiskInode] /\ image' \in [free : SUBSET Block, unused_blocks : Nat]
  BY DEF SfsInv, TypeOK
<1>5. panic' \in Failed
  <2>1. panic' \in Harmless /\ panic' # "E_NO_MEM"
    <3>1. panic' \in Harmless
      BY <1>1 DEF Ending
    <3>2. panic' = IF c.err = "E_NO_MEM" THEN "" ELSE c.err
      BY DEF Commit
    <3> QED
      BY <3>1, <3>2
  <2> QED
    BY <2>1 DEF Harmless, Failed
<1>6. TypeOK'
  BY <1>1, <1>3, <1>4, <1>5 DEF TypeOK, Ino
<1> QED
  BY <1>1, <1>2, <1>6 DEF SfsInv

\* file_open.
LEMMA OpenInv ==
    ASSUME SfsInv, NEW d \in Desc, NEW f \in File, NEW flags \in OpenFlags, Open(d, f, flags)
    PROVE  SfsInv' /\ panic' # "initproc exit" /\ \A g \in File : sins[g] # NULL => sins'[g] # NULL
<1> DEFINE c0 == Context(Sin(f))
<1>1. PICK c : /\ c = IF {"O_TRUNC", "O_CREAT"} \cap flags # {} THEN Truncfile(c0, 0) ELSE c0
               /\ Commit(f, c) /\ UNCHANGED <<disk, image>>
               /\ fds' = [fds EXCEPT ![d] = [file |-> f, pos |-> IF "O_APPEND" \in flags THEN c.sin.size ELSE 0]]
  BY DEF Open
<1>2. Good(c0, OthersOf(f))
  BY ContextGood
<1> HIDE DEF c0
<1>3. Keeps(c0, c0, OthersOf(f)) /\ Keeps(c0, Truncfile(c0, 0), OthersOf(f))
  <2>1. 0 \in 0..SFS_MAX_FILE_SIZE
    BY FileAssumption
  <2> QED
    BY <1>2, <2>1, KeepsSame, TruncfileKeeps
<1>4. Keeps(c0, c, OthersOf(f))
  BY <1>1, <1>3
<1>5. c.sin.size \in 0..SFS_MAX_FILE_SIZE
  BY <1>4, GoodIs DEF Keeps, Inode
<1>6. fds \in [Desc -> OpenFile \cup {NULL}]
  BY DEF SfsInv, TypeOK
<1> DEFINE o == [file |-> f, pos |-> IF "O_APPEND" \in flags THEN c.sin.size ELSE 0]
<1>7. o \in OpenFile /\ o.file = f
  BY <1>5, FileAssumption DEF OpenFile
<1> HIDE DEF o
<1>8. fds' \in [Desc -> OpenFile \cup {NULL}] /\ \A e \in Desc : fds'[e] = IF e = d THEN o ELSE fds[e]
  BY <1>1, <1>6, <1>7 DEF o
<1>9. \A e \in Desc : fds'[e] # NULL => fds'[e].file = f \/ fds'[e] = fds[e]
  BY <1>7, <1>8
<1>10. Keeps(Context(Sin(f)), c, OthersOf(f)) /\ Commit(f, c) /\ UNCHANGED <<disk, image>>
  BY <1>1, <1>4 DEF c0
<1> QED
  BY <1>8, <1>9, <1>10, CommitInv

\* What an open descriptor is on.
LEMMA OpenedOn ==
    ASSUME TypeOK, NEW d \in Desc, fds[d] # NULL
    PROVE  /\ fds[d] \in OpenFile /\ fds[d].file \in File /\ fds[d].pos \in 0..SFS_MAX_FILE_SIZE
           /\ sins[fds[d].file] # NULL /\ sins[fds[d].file] \in Inode
           /\ Sin(fds[d].file) = sins[fds[d].file]
           /\ fds[d].pos \in Nat /\ SFS_MAX_FILE_SIZE \in Nat
<1>1. fds[d] \in OpenFile /\ sins[fds[d].file] # NULL
  BY DEF TypeOK
<1>2. fds[d].file \in File /\ fds[d].pos \in 0..SFS_MAX_FILE_SIZE /\ SFS_MAX_FILE_SIZE \in Nat
  BY <1>1, FileAssumption DEF OpenFile
<1>3. fds[d].pos \in Nat
  BY <1>2
<1> QED
  BY <1>1, <1>2, <1>3, InodeTypes

\* The end of a request.
LEMMA UpToIs ==
    ASSUME NEW pos \in Nat, NEW n \in Nat \ {0}, NEW limit \in Nat, pos < limit
    PROVE  UpTo(pos, n, limit) \in Nat /\ pos < UpTo(pos, n, limit) /\ UpTo(pos, n, limit) <= limit
BY DEF UpTo

\* file_read and file_write.
LEMMA TransferInv ==
    ASSUME SfsInv, NEW d \in Desc, fds[d] # NULL, NEW n \in 1..MAX_LEN,
           NEW limit \in 0..SFS_MAX_FILE_SIZE, fds[d].pos < limit,
           Transfer(d, n, limit), UNCHANGED <<disk, image>>
    PROVE  SfsInv' /\ panic' # "initproc exit" /\ \A g \in File : sins[g] # NULL => sins'[g] # NULL
<1> DEFINE f == fds[d].file
           pos == fds[d].pos
           e == UpTo(pos, n, limit)
           c0 == Context(Sin(f))
           io == SfsIo(c0, pos, e)
<1>0. /\ fds[d] \in OpenFile /\ f \in File /\ pos \in 0..SFS_MAX_FILE_SIZE /\ Sin(f) = sins[f]
      /\ pos \in Nat /\ SFS_MAX_FILE_SIZE \in Nat
  BY OpenedOn DEF SfsInv
<1>1. Commit(f, io.c) /\ fds' = [fds EXCEPT ![d].pos = @ + io.alen]
  BY <1>0 DEF Transfer
<1>2. e \in 0..SFS_MAX_FILE_SIZE /\ pos < e
  <2>1. limit \in Nat /\ limit <= SFS_MAX_FILE_SIZE /\ n \in Nat \ {0}
    BY <1>0, FileAssumption
  <2>2. e \in Nat /\ pos < e /\ e <= limit
    BY <1>0, <2>1, UpToIs
  <2> HIDE DEF e
  <2> QED
    BY <1>0, <2>1, <2>2
<1>3. Good(c0, OthersOf(f))
  BY <1>0, ContextGood
<1> HIDE DEF c0, e, pos, f
<1>4. Keeps(c0, io.c, OthersOf(f)) /\ io.alen \in Nat /\ pos + io.alen <= e
  BY <1>0, <1>2, <1>3, SfsIoKeeps
<1> HIDE DEF io
<1>5. pos + io.alen \in 0..SFS_MAX_FILE_SIZE
  BY <1>0, <1>2, <1>4
<1>6. fds \in [Desc -> OpenFile \cup {NULL}]
  BY DEF SfsInv, TypeOK
<1> DEFINE new == [fds[d] EXCEPT !.pos = pos + io.alen]
<1>7. new \in OpenFile /\ new.file = f
  BY <1>0, <1>5 DEF OpenFile, f
<1>8. fds' = [fds EXCEPT ![d] = new]
  BY <1>1 DEF pos
<1> HIDE DEF new
<1>9. fds' \in [Desc -> OpenFile \cup {NULL}] /\ \A x \in Desc : fds'[x] = IF x = d THEN new ELSE fds[x]
  BY <1>6, <1>7, <1>8
<1>10. \A x \in Desc : fds'[x] # NULL => fds'[x].file = f \/ fds'[x] = fds[x]
  BY <1>7, <1>9
<1>11. Keeps(Context(Sin(f)), io.c, OthersOf(f)) /\ f \in File
  BY <1>0, <1>4 DEF c0
<1> QED
  BY <1>1, <1>9, <1>10, <1>11, CommitInv

\* file_seek.
LEMMA SeekInv ==
    ASSUME SfsInv, NEW d \in Desc, NEW pos \in 0..(SFS_MAX_FILE_SIZE - 1), Seek(d, pos)
    PROVE  SfsInv' /\ panic' # "initproc exit" /\ \A g \in File : sins[g] # NULL => sins'[g] # NULL
<1> DEFINE f == fds[d].file
           c0 == Context(Sin(f))
<1>0. /\ fds[d] # NULL /\ fds[d] \in OpenFile /\ f \in File /\ Sin(f) = sins[f] /\ SFS_MAX_FILE_SIZE \in Nat
  BY OpenedOn DEF SfsInv, Seek, Opened
<1>1. PICK c : /\ c = IF pos > sins[f].size THEN Truncfile(c0, pos) ELSE c0
               /\ Commit(f, c) /\ UNCHANGED <<disk, image>>
               /\ fds' = IF c.err = "" THEN [fds EXCEPT ![d].pos = pos] ELSE fds
  BY <1>0 DEF Seek
<1>2. Good(c0, OthersOf(f))
  BY <1>0, ContextGood
<1> HIDE DEF c0
<1>3. pos \in 0..SFS_MAX_FILE_SIZE
  BY <1>0
<1>4. Keeps(c0, c, OthersOf(f))
  BY <1>1, <1>2, <1>3, KeepsSame, TruncfileKeeps
<1>5. fds \in [Desc -> OpenFile \cup {NULL}]
  BY DEF SfsInv, TypeOK
<1> DEFINE new == [fds[d] EXCEPT !.pos = pos]
<1>6. new \in OpenFile /\ new.file = f
  BY <1>0, <1>3 DEF OpenFile
<1>7. fds' = [fds EXCEPT ![d] = new] \/ fds' = fds
  BY <1>1
<1> HIDE DEF new, f
<1>8. fds' \in [Desc -> OpenFile \cup {NULL}] /\ \A x \in Desc : fds'[x] = new \/ fds'[x] = fds[x]
  BY <1>5, <1>6, <1>7
<1>9. \A x \in Desc : fds'[x] # NULL => fds'[x].file = f \/ fds'[x] = fds[x]
  BY <1>6, <1>8
<1>10. Keeps(Context(Sin(f)), c, OthersOf(f)) /\ f \in File
  BY <1>0, <1>4 DEF c0
<1> QED
  BY <1>1, <1>8, <1>9, <1>10, CommitInv

\* file_write.
LEMMA WriteInv ==
    ASSUME SfsInv, NEW d \in Desc, NEW n \in 1..MAX_LEN, Write(d, n)
    PROVE  SfsInv' /\ panic' # "initproc exit" /\ \A g \in File : sins[g] # NULL => sins'[g] # NULL
<1>1. fds[d] # NULL /\ fds[d].pos < SFS_MAX_FILE_SIZE
  BY DEF Write, Opened
<1>2. Transfer(d, n, SFS_MAX_FILE_SIZE) /\ UNCHANGED <<disk, image>>
  BY DEF Write
<1>3. SFS_MAX_FILE_SIZE \in 0..SFS_MAX_FILE_SIZE
  BY FileAssumption
<1> QED
  BY <1>1, <1>2, <1>3, TransferInv

\* file_read.
LEMMA ReadInv ==
    ASSUME SfsInv, NEW d \in Desc, NEW n \in 1..MAX_LEN, Read(d, n)
    PROVE  SfsInv' /\ panic' # "initproc exit" /\ \A g \in File : sins[g] # NULL => sins'[g] # NULL
<1> DEFINE limit == sins[fds[d].file].size
<1>1. fds[d] # NULL /\ fds[d].pos < limit
  BY DEF Read, Opened
<1>2. Transfer(d, n, limit) /\ UNCHANGED <<disk, image>>
  BY DEF Read
<1>3. limit \in 0..SFS_MAX_FILE_SIZE
  BY <1>1, OpenedOn DEF SfsInv, Inode
<1> QED
  BY <1>1, <1>2, <1>3, TransferInv

\* file_fsync.
LEMMA FsyncInv ==
    ASSUME SfsInv, NEW d \in Desc, Fsync(d)
    PROVE  SfsInv' /\ panic' # "initproc exit" /\ \A g \in File : sins[g] # NULL => sins'[g] # NULL
<1> DEFINE f == fds[d].file
           s == [sins[f] EXCEPT !.dirty = FALSE]
<1>1. /\ f \in File /\ sins[f] # NULL /\ sins[f] \in Inode
  BY OpenedOn DEF SfsInv, Fsync, Opened
<1>2. /\ panic = "" /\ disk' = Stored({f}) /\ sins' = [sins EXCEPT ![f].dirty = FALSE]
      /\ free' = free /\ super' = super /\ table' = table /\ image' = image /\ fds' = fds /\ panic' = panic
  BY DEF Fsync, Opened, alloc
<1>3. sins \in [File -> Inode \cup {NULL}] /\ fds \in [Desc -> OpenFile \cup {NULL}]
  BY DEF SfsInv, TypeOK
<1>4. s \in Inode
  BY <1>1 DEF Inode
<1>5. s # NULL
  BY <1>4, FileAssumption
<1>6. sins' = [sins EXCEPT ![f] = s]
  BY <1>2
<1> HIDE DEF f
<1>7. \A g \in File : sins'[g] = IF g = f THEN s ELSE sins[g]
  BY <1>3, <1>6
<1>8. {f} \in SUBSET File /\ \A g \in File : \/ sins'[g] = sins[g] /\ g \notin {f}
                                             \/ sins'[g] = NULL /\ (g \in {f} \/ sins[g] = NULL)
                                             \/ g \in {f} /\ sins[g] # NULL /\ sins'[g] = [sins[g] EXCEPT !.dirty = FALSE]
  BY <1>1, <1>7
<1> HIDE DEF s
<1>9. BlocksOnce' /\ FilesFull' /\ CleanStored' /\ disk' \in [File -> DiskInode]
  BY <1>2, <1>8, StoreKeeps
<1>10. \A g \in File : sins[g] # NULL => sins'[g] # NULL
  BY <1>5, <1>7
<1>11. \A e \in Desc : fds'[e] # NULL => sins'[fds'[e].file] # NULL
  BY <1>2, <1>3, <1>10 DEF SfsInv, TypeOK, OpenFile
<1>12. sins' \in [File -> Inode \cup {NULL}]
  BY <1>3, <1>4, <1>6
<1>13. TypeOK'
  BY <1>2, <1>9, <1>11, <1>12 DEF SfsInv, TypeOK
<1>14. SuperExact' /\ Ending'
  BY <1>2 DEF SfsInv, SuperExact, Ending
<1>15. panic' # "initproc exit"
  BY <1>2
<1> QED
  BY <1>9, <1>10, <1>13, <1>14, <1>15 DEF SfsInv

\* file_close.
LEMMA CloseInv ==
    ASSUME SfsInv, NEW d \in Desc, Close(d)
    PROVE  /\ SfsInv' /\ panic' # "initproc exit"
           /\ ~ ClosesLast(d) => sins' = sins
           /\ ClosesLast(d) => disk' = Stored({fds[d].file}) /\ sins' = [sins EXCEPT ![fds[d].file] = NULL]
<1> DEFINE f == fds[d].file
           F == IF ClosesLast(d) THEN {f} ELSE {}
<1>1. f \in File /\ fds[d] # NULL
  BY OpenedOn DEF SfsInv, Close, Opened
<1>2. /\ panic = "" /\ fds' = [fds EXCEPT ![d] = NULL]
      /\ free' = free /\ super' = super /\ table' = table /\ image' = image /\ panic' = panic
  BY DEF Close, Opened, alloc
<1>3. /\ ClosesLast(d) => disk' = Stored({f}) /\ sins' = [sins EXCEPT ![f] = NULL]
      /\ ~ ClosesLast(d) => disk' = disk /\ sins' = sins
  BY DEF Close
<1>4. /\ sins \in [File -> Inode \cup {NULL}] /\ fds \in [Desc -> OpenFile \cup {NULL}]
      /\ disk \in [File -> DiskInode]
      /\ \A e \in Desc : fds[e] # NULL => fds[e].file \in File /\ sins[fds[e].file] # NULL
  BY DEF SfsInv, TypeOK, OpenFile
<1>5. disk' = Stored(F)
  <2>1. Stored({}) = disk
    BY <1>4 DEF Stored
  <2> QED
    BY <1>3, <2>1
<1>6. \A g \in File : sins'[g] = IF g \in F THEN NULL ELSE sins[g]
  BY <1>3, <1>4
<1>7. F \in SUBSET File
  BY <1>1
<1>8. \A e \in Desc \ {d} : fds[e] # NULL => fds[e].file \notin F
  BY DEF ClosesLast
<1> HIDE DEF F, f
<1>9. BlocksOnce' /\ FilesFull' /\ CleanStored' /\ disk' \in [File -> DiskInode]
  BY <1>2, <1>5, <1>6, <1>7, StoreKeeps
<1>10. fds' \in [Desc -> OpenFile \cup {NULL}]
       /\ \A e \in Desc : fds'[e] # NULL => e # d /\ fds'[e] = fds[e]
  BY <1>2, <1>4
<1>11. \A e \in Desc : fds'[e] # NULL => sins'[fds'[e].file] # NULL
  BY <1>4, <1>6, <1>8, <1>10
<1>12. sins' \in [File -> Inode \cup {NULL}]
  BY <1>3, <1>4
<1>13. TypeOK'
  BY <1>2, <1>9, <1>10, <1>11, <1>12 DEF SfsInv, TypeOK
<1>14. SuperExact' /\ Ending' /\ panic' # "initproc exit"
  BY <1>2 DEF SfsInv, SuperExact, Ending
<1> QED
  BY <1>3, <1>9, <1>13, <1>14 DEF SfsInv, f

\* fs_cleanup.
LEMMA CleanupInv == ASSUME SfsInv, Cleanup PROVE SfsInv'
<1>1. /\ panic' = "initproc exit" /\ disk' = Stored(File) /\ free' = free /\ table' = table
      /\ image' = IF super.dirty THEN [free |-> free, unused_blocks |-> super.unused_blocks] ELSE image
      /\ super' = [super EXCEPT !.dirty = FALSE]
      /\ sins' = [f \in File |-> NULL] /\ fds' = [d \in Desc |-> NULL]
  BY DEF Cleanup
<1>2. BlocksOnce' /\ FilesFull' /\ CleanStored' /\ disk' \in [File -> DiskInode]
  BY <1>1, StoreKeeps
<1>3. super \in [unused_blocks : Nat, dirty : BOOLEAN] /\ free \subseteq Block
      /\ image \in [free : SUBSET Block, unused_blocks : Nat] /\ super.unused_blocks = Cardinality(free)
      /\ (super.dirty = FALSE => image = [free |-> free, unused_blocks |-> Cardinality(free)])
      /\ table \in [Block -> [Entries -> Block \cup {0}]]
  BY DEF SfsInv, TypeOK, SuperExact
<1>4. /\ super' \in [unused_blocks : Nat, dirty : BOOLEAN] /\ super'.unused_blocks = super.unused_blocks
      /\ super'.dirty = FALSE
  BY <1>1, <1>3
<1>5. image' = [free |-> free', unused_blocks |-> Cardinality(free')]
  BY <1>1, <1>3
<1>6. image' \in [free : SUBSET Block, unused_blocks : Nat]
  BY <1>1, <1>3
<1>7. TypeOK'
  BY <1>1, <1>2, <1>3, <1>4, <1>6 DEF TypeOK, Failed
<1>8. SuperExact'
  BY <1>1, <1>3, <1>4, <1>5 DEF SuperExact
<1>9. Ending'
  BY <1>1, <1>4 DEF Ending
<1> QED
  BY <1>2, <1>7, <1>8, <1>9 DEF SfsInv

\* Nothing happens.
LEMMA SfsStutter == ASSUME SfsInv, UNCHANGED vars PROVE SfsInv'
<1> USE DEF vars, alloc
<1>1. TypeOK' /\ SuperExact' /\ Ending'
  BY DEF SfsInv, TypeOK, SuperExact, Ending
<1>2. \A f \in File : Sin(f)' = Sin(f) /\ Data(f)' = Data(f)
  BY DEF Sin, Data, Pointers
<1>3. BlocksOnce' /\ FilesFull'
  BY <1>2 DEF SfsInv, BlocksOnce, FilesFull, Full
<1>4. CleanStored'
  BY DEF SfsInv, CleanStored
<1> QED
  BY <1>1, <1>3, <1>4 DEF SfsInv

\* Every step.
LEMMA SfsNextInv == ASSUME SfsInv, [Next]_vars PROVE SfsInv'
<1>1. CASE UNCHANGED vars
  BY <1>1, SfsStutter
<1>2. CASE Stopped
  BY <1>2, SfsStutter DEF Stopped
<1>3. CASE Cleanup
  BY <1>3, CleanupInv
<1>4. ASSUME NEW d \in Desc, NEW f \in File, NEW flags \in OpenFlags, Open(d, f, flags) PROVE SfsInv'
  BY <1>4, OpenInv
<1>5. ASSUME NEW d \in Desc, NEW n \in 1..MAX_LEN, Write(d, n) PROVE SfsInv'
  BY <1>5, WriteInv
<1>6. ASSUME NEW d \in Desc, NEW n \in 1..MAX_LEN, Read(d, n) PROVE SfsInv'
  BY <1>6, ReadInv
<1>7. ASSUME NEW d \in Desc, NEW pos \in 0..(SFS_MAX_FILE_SIZE - 1), Seek(d, pos) PROVE SfsInv'
  BY <1>7, SeekInv
<1>8. ASSUME NEW d \in Desc, Fsync(d) PROVE SfsInv'
  BY <1>8, FsyncInv
<1>9. ASSUME NEW d \in Desc, Close(d) PROVE SfsInv'
  BY <1>9, CloseInv
<1> QED
  BY <1>1, <1>2, <1>3, <1>4, <1>5, <1>6, <1>7, <1>8, <1>9 DEF Next

-----------------------------------------------------------------------------
\* The invariant holds in every reachable state: what an operation returns or
\* where it fails, the blocks are still partitioned and the files full.
THEOREM SfsInvariant == Spec => []SfsInv
BY SfsInitInv, SfsNextInv, PTL DEF Spec

\* The state has its types, and a descriptor in use is on an inode in memory.
THEOREM SfsTypes == Spec => []TypeOK
<1>1. SfsInv => TypeOK
  BY DEF SfsInv
<1> QED
  BY <1>1, SfsInvariant, PTL

\* What At reads, slot by slot.
LEMMA AtIs == \A f \in File : \A k \in Slots : At(f, k) = Data(f)[k]
BY DEF At, Data, Pointers, Last

\* The set of the places of a block has the cardinality BlocksExact states.
LEMMA PlacesOf ==
    ASSUME SfsInv, NEW b \in Block
    PROVE  Cardinality({s \in File \X Slots : At(s[1], s[2]) = b}) = (IF b \in free THEN 0 ELSE 1)
<1> DEFINE S == {s \in File \X Slots : At(s[1], s[2]) = b}
<1>1. \A s \in File \X Slots : s[1] \in File /\ s[2] \in Slots /\ s = <<s[1], s[2]>>
  OBVIOUS
<1>2. S = {s \in File \X Slots : Data(s[1])[s[2]] = b}
  BY <1>1, AtIs
<1>3. b # 0
  BY Sizes
<1>4. CASE b \in free
  <2>1. \A f \in File : \A k \in Slots : Data(f)[k] # b
    BY <1>3, <1>4 DEF SfsInv, BlocksOnce
  <2>2. S = {}
    BY <1>1, <1>2, <2>1
  <2> HIDE DEF S
  <2>3. Cardinality(S) = 0
    BY <2>2, FS_EmptySet
  <2> QED
    BY <1>4, <2>3 DEF S
<1>5. CASE b \notin free
  <2>1. PICK f \in File, k \in Slots : Data(f)[k] = b
    BY <1>5 DEF SfsInv, BlocksOnce
  <2>2. \A g \in File : \A l \in Slots : Data(g)[l] = b => g = f /\ l = k
    BY <1>3, <2>1 DEF SfsInv, BlocksOnce
  <2>3. <<f, k>> \in S
    BY <1>2, <2>1
  <2>4. \A s \in S : s = <<f, k>>
    BY <1>1, <1>2, <2>2
  <2>5. S = {<<f, k>>}
    BY <2>3, <2>4
  <2> HIDE DEF S
  <2>6. Cardinality(S) = 1
    BY <2>5, FS_Singleton
  <2> QED
    BY <1>5, <2>6 DEF S
<1> QED
  BY <1>4, <1>5

\* Every block of the disk is free or in exactly one place of one file, and the
\* superblock counts the free ones, whatever operations failed half way.
THEOREM EveryBlockAccounted == Spec => []BlocksExact
<1>1. SfsInv => BlocksExact
  <2> SUFFICES ASSUME SfsInv PROVE BlocksExact
    OBVIOUS
  <2>1. super.unused_blocks = Cardinality(free)
    BY DEF SfsInv, SuperExact
  <2>2. panic = "initproc exit" => image = [free |-> free, unused_blocks |-> Cardinality(free)]
    BY DEF SfsInv, SuperExact, Ending
  <2> QED
    BY <2>1, <2>2, PlacesOf DEF BlocksExact
<1> QED
  BY <1>1, SfsInvariant, PTL

\* A file has all the blocks it counts, and the assertions of
\* sfs_bmap_load_nolock on them never fail.
THEOREM FilesWithoutHoles == Spec => []NoHoles
<1>1. SfsInv => NoHoles
  <2> SUFFICES ASSUME SfsInv PROVE NoHoles
    OBVIOUS
  <2>1. panic \notin {"sfs_block_inuse", "index out of range"}
    BY DEF SfsInv, Ending, Harmless
  <2>2. ASSUME NEW f \in File, NEW k \in 0..(Sin(f).blocks - 1) PROVE At(f, k) # 0
    <3> DEFINE m == Sin(f).blocks
    <3>1. m \in Nat
      BY InodeTypes DEF SfsInv
    <3>2. Full(Data(f), m)
      BY DEF SfsInv, FilesFull
    <3> HIDE DEF m
    <3>3. k \in 0..(m - 1)
      BY DEF m
    <3>4. k \in Slots /\ Data(f)[k] # 0
      BY <3>1, <3>2, <3>3, Sizes DEF Full
    <3> QED
      BY <3>4, AtIs
  <2> QED
    BY <2>1, <2>2 DEF NoHoles
<1> QED
  BY <1>1, SfsInvariant, PTL

\* Any request from the position of a descriptor on is cut into accesses that
\* cover it once, in order and inside the blocks.
THEOREM RequestsCut == Spec => []RequestCovered
<1>1. TypeOK => RequestCovered
  <2> SUFFICES ASSUME TypeOK, NEW d \in Desc, fds[d] # NULL,
                      NEW endpos \in (fds[d].pos + 1)..SFS_MAX_FILE_SIZE
               PROVE  LET ps       == Pieces(fds[d].pos, endpos)
                          Start(p) == p.blk * SFS_BLKSIZE + p.off
                          End(p)   == Start(p) + p.size
                      IN  /\ Start(ps[1]) = fds[d].pos /\ End(ps[Len(ps)]) = endpos
                          /\ \A i \in 2..Len(ps) : Start(ps[i]) = End(ps[i - 1])
                          /\ \A i \in DOMAIN ps : ps[i].size > 0 /\ ps[i].off + ps[i].size <= SFS_BLKSIZE
    BY DEF RequestCovered
  <2> DEFINE o == fds[d].pos
             ps == Pieces(o, endpos)
             Start(p) == p.blk * SFS_BLKSIZE + p.off
             End(p) == Start(p) + p.size
  <2>1. o \in Nat /\ endpos \in Nat /\ o < endpos
    BY OpenedOn
  <2> HIDE DEF o
  <2>2. PICK E : Cuts(ps, E, o, endpos)
    BY <2>1, PiecesCut
  <2> DEFINE N == Len(ps)
  <2> HIDE DEF ps
  <2>3. /\ ps \in Seq(Access) /\ N # 0 /\ E \in [0..N -> Nat] /\ E[0] = o /\ E[N] = endpos
        /\ \A i \in 1..N : /\ ps[i].blk * SFS_BLKSIZE + ps[i].off = E[i - 1] /\ E[i] = E[i - 1] + ps[i].size
                           /\ ps[i].size > 0 /\ ps[i].off + ps[i].size <= SFS_BLKSIZE
    BY <2>2 DEF Cuts, B
  <2>4. N \in Nat \ {0} /\ DOMAIN ps = 1..N
    BY <2>3
  <2>5. \A i \in 1..N : Start(ps[i]) = E[i - 1] /\ End(ps[i]) = E[i]
    BY <2>3
  <2>6. 1 \in 1..N /\ N \in 1..N /\ 1 - 1 = 0
    BY <2>4
  <2> HIDE DEF Start, End, N
  <2>7. Start(ps[1]) = E[1 - 1] /\ End(ps[N]) = E[N]
    BY <2>5, <2>6
  <2>8. Start(ps[1]) = o /\ End(ps[N]) = endpos
    BY <2>3, <2>6, <2>7
  <2>9. ASSUME NEW i \in 2..N PROVE Start(ps[i]) = End(ps[i - 1])
    <3>1. i \in 1..N /\ i - 1 \in 1..N
      BY <2>4
    <3> QED
      BY <2>5, <3>1
  <2>10. \A i \in DOMAIN ps : ps[i].size > 0 /\ ps[i].off + ps[i].size <= SFS_BLKSIZE
    BY <2>3, <2>4
  <2> QED
    BY <2>8, <2>9, <2>10 DEF Start, End, N, ps, o
<1> QED
  BY <1>1, SfsTypes, PTL

\* An inode that is stored is on the disk then.
LEMMA StoredIs ==
    ASSUME SfsInv, NEW F \in SUBSET File, disk' = Stored(F), NEW f \in F, sins[f] # NULL
    PROVE  /\ disk'[f].size = sins[f].size /\ disk'[f].direct = sins[f].direct
           /\ disk'[f].indirect = sins[f].indirect
<1>1. disk'[f] = IF sins[f].dirty THEN Din(sins[f]) ELSE disk[f]
  BY DEF Stored
<1>2. sins[f] \in Inode
  BY InodeTypes DEF SfsInv
<1>3. CASE sins[f].dirty = TRUE
  BY <1>1, <1>3 DEF Din
<1>4. CASE sins[f].dirty = FALSE
  BY <1>1, <1>4 DEF SfsInv, CleanStored
<1> QED
  BY <1>2, <1>3, <1>4 DEF Inode

\* The last close of a file, and the end of the kernel, leave on the disk what
\* was in memory of it.
THEOREM ClosedFilesStored == Spec => ClosedIsStored
<1> DEFINE Kept == \A f \in File : sins[f] # NULL /\ (sins'[f] = NULL \/ panic' = "initproc exit") =>
                       /\ disk'[f].size = sins[f].size
                       /\ disk'[f].direct = sins[f].direct /\ disk'[f].indirect = sins[f].indirect
<1>1. ASSUME SfsInv, Next PROVE Kept \/ UNCHANGED vars
  <2> DEFINE Stays == panic' # "initproc exit" /\ \A g \in File : sins[g] # NULL => sins'[g] # NULL
  <2>1. Stays => Kept
    OBVIOUS
  <2>2. CASE Stopped
    BY <2>2 DEF Stopped
  <2>3. CASE Cleanup
    <3>1. disk' = Stored(File)
      BY <2>3 DEF Cleanup
    <3> QED
      BY <1>1, <3>1, StoredIs
  <2>4. ASSUME NEW d \in Desc, NEW f \in File, NEW flags \in OpenFlags, Open(d, f, flags) PROVE Stays
    BY <1>1, <2>4, OpenInv
  <2>5. ASSUME NEW d \in Desc, NEW n \in 1..MAX_LEN, Write(d, n) PROVE Stays
    BY <1>1, <2>5, WriteInv
  <2>6. ASSUME NEW d \in Desc, NEW n \in 1..MAX_LEN, Read(d, n) PROVE Stays
    BY <1>1, <2>6, ReadInv
  <2>7. ASSUME NEW d \in Desc, NEW pos \in 0..(SFS_MAX_FILE_SIZE - 1), Seek(d, pos) PROVE Stays
    BY <1>1, <2>7, SeekInv
  <2>8. ASSUME NEW d \in Desc, Fsync(d) PROVE Stays
    BY <1>1, <2>8, FsyncInv
  <2>9. ASSUME NEW d \in Desc, Close(d) PROVE Kept
    <3> SUFFICES ASSUME NEW f \in File, sins[f] # NULL, sins'[f] = NULL \/ panic' = "initproc exit"
                 PROVE  /\ disk'[f].size = sins[f].size
                        /\ disk'[f].direct = sins[f].direct /\ disk'[f].indirect = sins[f].indirect
      OBVIOUS
    <3>1. /\ panic' # "initproc exit" /\ (~ ClosesLast(d) => sins' = sins)
          /\ ClosesLast(d) => disk' = Stored({fds[d].file}) /\ sins' = [sins EXCEPT ![fds[d].file] = NULL]
      BY <1>1, <2>9, CloseInv
    <3>2. sins \in [File -> Inode \cup {NULL}] /\ fds[d].file \in File
      BY <1>1, <2>9, OpenedOn DEF SfsInv, TypeOK, Close, Opened
    <3>3. f = fds[d].file /\ disk' = Stored({f})
      BY <3>1, <3>2
    <3> QED
      BY <1>1, <3>3, StoredIs
  <2> HIDE DEF Kept, Stays
  <2> QED
    BY <1>1, <2>1, <2>2, <2>3, <2>4, <2>5, <2>6, <2>7, <2>8, <2>9 DEF Next
<1>2. SfsInv /\ [Next]_vars => [Kept]_vars
  BY <1>1
<1> QED
  BY <1>2, SfsInvariant, PTL DEF Spec, ClosedIsStored

=============================================================================
