------------------------ MODULE SegregatePoolProofs ------------------------
(***************************************************************************)
(* Proofs about SegregatePool, for any block sizes, chunk size, requests   *)
(* and device memory: the blocks partition the chunks, the counters are    *)
(* exact, the stacks hold blocks of their class, releaseChunk gives all    *)
(* memory back, and the pool implements DisjointBuffers.                   *)
(***************************************************************************)
EXTENDS SegregatePool, FiniteSetTheorems, FunctionTheorems, SequenceTheorems, TLAPS

(***************************************************************************)
(* The inductive invariant.  Its parts are about values, so that they can  *)
(* be stated of the tables between the drain of the queues and the rest    *)
(* of a call.                                                              *)
(***************************************************************************)

Sizes == Nat \ {0}
ChunkBlocks == [kind : {"chunk"}, slot : Nat, base : Base, offset : Nat, size : Sizes]
Items == {m \in [block : ChunkBlocks, freelist_index : Class] :
             m.block.size = sizeClassToBlockSize(m.freelist_index)}
ChunkInfos == {NoChunk} \cup [base : Base, size : Nat, used : Nat, pending : Nat, alive : {TRUE}]
EntryInfos == {NoEntry} \cup [base : Base, in_use : {TRUE}]

Alive(ch) == {s \in DOMAIN ch : ch[s].alive}
InUse(en) == {e \in DOMAIN en : en[e].in_use}
Queued(q) == {q[k].block : k \in DOMAIN q}
Stacked(st) == UNION {ToSet(st[i]) : i \in Class}
SmallOf(lv) == {o.block : o \in {p \in lv : p.size <= MaxBlock}}
Of(S, s) == {b \in S : b.slot = s}
Cut(s, base, size) == {ChunkBlock(s, base, k * size, size) : k \in 0 .. blockCount(size) - 1}

\* A queue holds each block once.
IsQueue(q) ==
    /\ q \in Seq(Items)
    /\ \A j, k \in DOMAIN q : q[j].block = q[k].block => j = k

\* A stack holds each block once, of the size of its class.
AreStacks(st) ==
    /\ st \in [Class -> Seq(ChunkBlocks)]
    /\ \A i \in Class : IsInjective(st[i])
    /\ \A i \in Class : \A k \in DOMAIN st[i] : st[i][k].size = sizeClassToBlockSize(i)

\* What clients hold.
AreHeld(lv, en) ==
    /\ \A o, p \in lv : o.block = p.block => o = p
    /\ \A o, p \in lv : o.size > MaxBlock /\ p.size > MaxBlock /\ o.block.slot = p.block.slot => o = p
    /\ \A o \in lv :
        /\ o = [block |-> o.block, size |-> o.size] /\ o.size \in Request
        /\ o.size <= MaxBlock => o.block \in ChunkBlocks /\ o.block.size = blockSizeFor(o.size)
        /\ o.size > MaxBlock =>
            /\ o.block = LargeBlock(o.block.slot, o.block.base, o.size)
            /\ o.block.slot \in InUse(en) /\ en[o.block.slot].base = o.block.base

\* The waiting, the held and the free blocks are different ones.
Apart(W, L, F) == W \cap L = {} /\ F \cap (W \cup L) = {}

\* A set of blocks is the chunks, cut.
IsCut(ch, all) ==
    /\ \A b \in all : b \in ChunkBlocks /\ b.slot \in Alive(ch)
    /\ \A s \in Alive(ch) :
        \E size \in BlockSize :
            /\ ch[s].size = blockCount(size) * size
            /\ Of(all, s) = Cut(s, ch[s].base, size)

\* The counters of the chunks.
AreCounted(ch, W, L) ==
    \A s \in Alive(ch) :
        /\ ch[s].pending = Cardinality(Of(W, s))
        /\ ch[s].used = Cardinality(Of(W, s)) + Cardinality(Of(L, s))

\* A table and the list of its free slots.
IsTable(table, freed, rows, none) ==
    /\ table \in Seq(rows)
    /\ freed \in Seq(DOMAIN table) /\ IsInjective(freed)
    /\ \A k \in DOMAIN freed : table[freed[k]] = none

\* Chunks and large allocations have buffers of their own.
AreBacked(ch, en, bk) ==
    /\ bk = {ch[s].base : s \in Alive(ch)} \cup {en[e].base : e \in InUse(en)}
    /\ \A s, t \in Alive(ch) : ch[s].base = ch[t].base => s = t
    /\ \A e, f \in InUse(en) : en[e].base = en[f].base => e = f
    /\ \A s \in Alive(ch), e \in InUse(en) : ch[s].base # en[e].base

\* Device work on memory the pool has is on a block that is held or waits for it.
WorkIsOwned ==
    \A w \in busy : w.base \in backed =>
        \/ \E o \in live : RegionOf(o.block) = w
        \/ \E b \in Queued(pending_queue) : RegionOf(b) = w

\* Every large allocation is somebody's.
EntriesHeld == \A e \in InUse(entries) : \E o \in live : o.size > MaxBlock /\ o.block.slot = e

\* The tables and the memory behind them.
Tables ==
    /\ IsTable(chunks, chunk_free, ChunkInfos, NoChunk)
    /\ IsTable(entries, entry_free, EntryInfos, NoEntry)
    /\ AreBacked(chunks, entries, backed)

\* The blocks of the pool, when st, pq and rq are the stacks and queues.
Blocks(ch, st, pq, rq, lv) ==
    /\ IsQueue(pq) /\ IsQueue(rq) /\ Queued(pq) \cap Queued(rq) = {}
    /\ AreStacks(st)
    /\ Apart(Queued(pq) \cup Queued(rq), SmallOf(lv), Stacked(st))
    /\ IsCut(ch, Queued(pq) \cup Queued(rq) \cup SmallOf(lv) \cup Stacked(st))
    /\ AreCounted(ch, Queued(pq) \cup Queued(rq), SmallOf(lv))

IInv ==
    /\ flushing \in BOOLEAN
    /\ Tables
    /\ Blocks(chunks, stacks, pending_queue, ready_queue, live)
    /\ AreHeld(live, entries)
    /\ EntriesHeld
    /\ WorkIsOwned

-----------------------------------------------------------------------------
(* Powers of two and size classes.                                         *)

\* A power of two counts subsets.
LEMMA PowerCounts ==
    ASSUME NEW n \in Nat
    PROVE  IsFiniteSet(SUBSET (1 .. n)) /\ Cardinality(SUBSET (1 .. n)) = 2^n
<1>1. IsFiniteSet(1 .. n) /\ Cardinality(1 .. n) = n
  <2>1. 1 \in Int /\ n \in Int /\ (IF 1 > n THEN 0 ELSE n - 1 + 1) = n
    OBVIOUS
  <2> QED
    BY <2>1, FS_Interval
<1>2. IsFiniteSet(SUBSET (1 .. n)) /\ Cardinality(SUBSET (1 .. n)) = 2^Cardinality(1 .. n)
  BY <1>1, FS_SUBSET
<1> QED
  BY <1>1, <1>2

\* Powers of two increase.
LEMMA PowerLess ==
    ASSUME NEW m \in Nat, NEW n \in Nat, m < n
    PROVE  2^m < 2^n
<1>1. SUBSET (1 .. m) \in SUBSET (SUBSET (1 .. n))
  OBVIOUS
<1>2. n \in 1 .. n /\ n \notin 1 .. m
  OBVIOUS
<1>3. SUBSET (1 .. m) # SUBSET (1 .. n)
  BY <1>2
<1>4. /\ Cardinality(SUBSET (1 .. m)) <= Cardinality(SUBSET (1 .. n))
      /\ Cardinality(SUBSET (1 .. n)) # Cardinality(SUBSET (1 .. m))
  BY <1>1, <1>3, PowerCounts, FS_Subset
<1>5. 2^m \in Nat /\ 2^n \in Nat
  BY PowerCounts, FS_CardinalityType
<1>6. Cardinality(SUBSET (1 .. m)) = 2^m /\ Cardinality(SUBSET (1 .. n)) = 2^n
  BY PowerCounts
<1> QED
  BY <1>4, <1>5, <1>6

\* A power of two is positive and exceeds its exponent.
LEMMA PowerAtLeast ==
    ASSUME NEW n \in Nat
    PROVE  2^n \in Nat \ {0} /\ 2^n >= n
<1>1. 2^n \in Nat
  BY PowerCounts, FS_CardinalityType
<1>2. 2^n # 0
  <2>1. {} \in SUBSET (1 .. n)
    OBVIOUS
  <2>2. SUBSET (1 .. n) # {}
    BY <2>1
  <2> QED
    BY <2>2, PowerCounts, FS_EmptySet
<1>3. 2^n >= n
  <2> DEFINE f == [k \in 1 .. n |-> {k}]
  <2>1. f \in Injection(1 .. n, SUBSET (1 .. n))
    BY Fun_IsInj
  <2>2. Cardinality(1 .. n) <= Cardinality(SUBSET (1 .. n))
    BY <2>1, PowerCounts, FS_Injection
  <2>3. 1 \in Int /\ n \in Int /\ (IF 1 > n THEN 0 ELSE n - 1 + 1) = n
    OBVIOUS
  <2>4. Cardinality(1 .. n) = n
    BY <2>3, FS_Interval
  <2> QED
    BY <2>2, <2>4, PowerCounts
<1> QED
  BY <1>1, <1>2, <1>3

\* Exponents add up.
LEMMA PowerSum ==
    ASSUME NEW a \in Nat, NEW b \in Nat
    PROVE  2^(a + b) = 2^a * 2^b
<1> DEFINE A == 1 .. a
           B == (a + 1) .. (a + b)
           C == 1 .. (a + b)
           P == (SUBSET A) \X (SUBSET B)
           f == [s \in P |-> s[1] \cup s[2]]
<1>1. A \cup B = C /\ A \cap B = {}
  OBVIOUS
<1>2. IsFiniteSet(A) /\ IsFiniteSet(B) /\ Cardinality(A) = a /\ Cardinality(B) = b
  <2>1. 1 \in Int /\ a \in Int /\ (IF 1 > a THEN 0 ELSE a - 1 + 1) = a
    OBVIOUS
  <2>2. /\ a + 1 \in Int /\ a + b \in Int
        /\ (IF a + 1 > a + b THEN 0 ELSE (a + b) - (a + 1) + 1) = b
    OBVIOUS
  <2>3. IsFiniteSet(A) /\ Cardinality(A) = a
    BY <2>1, FS_Interval
  <2>4. IsFiniteSet(B) /\ Cardinality(B) = b
    BY <2>2, FS_Interval
  <2> QED
    BY <2>3, <2>4
<1>3. /\ IsFiniteSet(SUBSET A) /\ Cardinality(SUBSET A) = 2^a
      /\ IsFiniteSet(SUBSET B) /\ Cardinality(SUBSET B) = 2^b
  BY <1>2, FS_SUBSET
<1>4. IsFiniteSet(P) /\ Cardinality(P) = 2^a * 2^b
  <2>1. IsFiniteSet(P) /\ Cardinality(P) = Cardinality(SUBSET A) * Cardinality(SUBSET B)
    <3> HIDE DEF A, B
    <3> QED
      BY <1>3, FS_Product, Zenon
  <2> QED
    BY <1>3, <2>1
<1> HIDE DEF A, B, C
<1>5. f \in Bijection(P, SUBSET C)
  <2>1. f \in [P -> SUBSET C]
    BY <1>1
  <2>2. ASSUME NEW s \in P, NEW t \in P, f[s] = f[t]
        PROVE  s = t
    <3>1. s[1] = f[s] \cap A /\ s[2] = f[s] \cap B /\ t[1] = f[t] \cap A /\ t[2] = f[t] \cap B
      BY <1>1
    <3> QED
      BY <2>2, <3>1
  <2>3. ASSUME NEW t \in SUBSET C PROVE \E s \in P : f[s] = t
    <3>1. << t \cap A, t \cap B >> \in P /\ f[<< t \cap A, t \cap B >>] = t
      BY <1>1
    <3> QED
      BY <3>1
  <2> HIDE DEF f, P
  <2> QED
    BY <2>1, <2>2, <2>3, Fun_IsBij
<1>6. Cardinality(SUBSET C) = 2^a * 2^b
  <2>1. ExistsBijection(P, SUBSET C)
    BY <1>5 DEF ExistsBijection
  <2> QED
    BY <1>4, <2>1, FS_Bijection
<1>7. a + b \in Nat
  OBVIOUS
<1>8. Cardinality(SUBSET C) = 2^(a + b)
  BY <1>7, PowerCounts DEF C
<1> QED
  BY <1>6, <1>8

-----------------------------------------------------------------------------
(* What a filtering loop keeps.                                            *)

\* InOrder numbers the elements of a set.
LEMMA InOrderFacts ==
    ASSUME NEW I \in SUBSET Int, IsFiniteSet(I)
    PROVE  /\ Cardinality(I) \in Nat
           /\ InOrder(I) \in [1 .. Cardinality(I) -> I]
           /\ \A j, k \in 1 .. Cardinality(I) : InOrder(I)[j] = InOrder(I)[k] => j = k
           /\ \A i \in I : \E k \in 1 .. Cardinality(I) : InOrder(I)[k] = i
<1> DEFINE n == Cardinality(I)
           upTo(i) == {j \in I : j <= i}
           r == [i \in I |-> Cardinality(upTo(i))]
           e == InOrder(I)
<1>1. n \in Nat
  BY FS_CardinalityType
<1>2. ASSUME NEW i \in I
      PROVE  IsFiniteSet(upTo(i)) /\ Cardinality(upTo(i)) \in 1 .. n
  <2>1. upTo(i) \in SUBSET I /\ i \in upTo(i)
    OBVIOUS
  <2>2. IsFiniteSet(upTo(i)) /\ Cardinality(upTo(i)) <= n
    BY <2>1, FS_Subset
  <2>3. Cardinality(upTo(i)) \in Nat /\ Cardinality(upTo(i)) # 0
    BY <2>1, <2>2, FS_EmptySet, FS_CardinalityType
  <2> HIDE DEF n, upTo
  <2> QED
    BY <1>1, <2>2, <2>3
<1>3. ASSUME NEW i \in I, NEW j \in I, i < j
      PROVE  Cardinality(upTo(i)) # Cardinality(upTo(j))
  <2>1. \A x \in I : x <= i => x <= j
    BY <1>3
  <2>2. j <= j /\ ~(j <= i)
    BY <1>3
  <2>3. upTo(i) \in SUBSET upTo(j) /\ j \in upTo(j) /\ j \notin upTo(i)
    BY <2>1, <2>2
  <2> QED
    BY <1>2, <2>3, FS_Subset
<1>4. \A i, j \in I : Cardinality(upTo(i)) = Cardinality(upTo(j)) => i = j
  <2>1. \A i, j \in I : i # j => i < j \/ j < i
    OBVIOUS
  <2> HIDE DEF upTo
  <2> QED
    BY <1>3, <2>1
<1>5. r \in Surjection(I, 1 .. n)
  <2>1. r \in Injection(I, 1 .. n)
    <3>1. r \in [I -> 1 .. n] /\ \A i, j \in I : r[i] = r[j] => i = j
      <4> HIDE DEF upTo, n
      <4> QED
        BY <1>2, <1>4
    <3> HIDE DEF r
    <3> QED
      BY <3>1, Fun_IsInj
  <2>2. IsFiniteSet(1 .. n) /\ Cardinality(1 .. n) = n
    <3>1. 1 \in Int /\ n \in Int /\ (IF 1 > n THEN 0 ELSE n - 1 + 1) = n
      BY <1>1
    <3> QED
      BY <3>1, FS_Interval
  <2> HIDE DEF r, n
  <2> QED
    BY <2>1, <2>2, FS_Injection DEF n
<1>6. \A k \in 1 .. n : \E i \in I : Cardinality(upTo(i)) = k
  <2>1. \A k \in 1 .. n : \E i \in I : r[i] = k
    BY <1>5 DEF Surjection
  <2> HIDE DEF upTo, n
  <2> QED
    BY <2>1
<1>7. \A k \in 1 .. n : e[k] \in I /\ Cardinality(upTo(e[k])) = k
  <2>1. e = [k \in 1 .. n |-> CHOOSE i \in I : Cardinality(upTo(i)) = k]
    BY DEF InOrder
  <2> HIDE DEF upTo, n, e
  <2> QED
    BY <1>6, <2>1
<1>8. e \in [1 .. n -> I]
  <2>1. e = [k \in 1 .. n |-> e[k]]
    <3>1. e = [k \in 1 .. n |-> CHOOSE i \in I : Cardinality(upTo(i)) = k]
      BY DEF InOrder
    <3> HIDE DEF upTo, n, e
    <3> QED
      BY <3>1
  <2> HIDE DEF n, e
  <2> QED
    BY <1>7, <2>1
<1> HIDE DEF upTo, n, e
<1>9. \A j, k \in 1 .. n : e[j] = e[k] => j = k
  BY <1>7
<1>10. \A i \in I : \E k \in 1 .. n : e[k] = i
  BY <1>2, <1>4, <1>7
<1> QED
  BY <1>1, <1>8, <1>9, <1>10 DEF n, e

\* The entries Kept has come from different indices.
Renumbers(s, I) ==
    \E e \in [1 .. Cardinality(I) -> I] :
        /\ \A j, k \in 1 .. Cardinality(I) : e[j] = e[k] => j = k
        /\ \A k \in 1 .. Cardinality(I) : Kept(s, I)[k] = s[e[k]]

\* Kept has the entries at the indices, each once.
LEMMA KeptFacts ==
    ASSUME NEW X, NEW s \in Seq(X), NEW I \in SUBSET DOMAIN s
    PROVE  /\ IsFiniteSet(I) /\ Cardinality(I) \in Nat
           /\ Kept(s, I) \in Seq(X) /\ Len(Kept(s, I)) = Cardinality(I)
           /\ DOMAIN Kept(s, I) = 1 .. Cardinality(I)
           /\ \A k \in DOMAIN Kept(s, I) : \E i \in I : Kept(s, I)[k] = s[i]
           /\ \A i \in I : \E k \in DOMAIN Kept(s, I) : Kept(s, I)[k] = s[i]
           /\ Renumbers(s, I)
<1> DEFINE n == Cardinality(I)
           e == InOrder(I)
<1>1. IsFiniteSet(I) /\ I \in SUBSET Int
  <2>1. DOMAIN s = 1 .. Len(s) /\ Len(s) \in Nat /\ 1 \in Int /\ Len(s) \in Int
    OBVIOUS
  <2>2. IsFiniteSet(1 .. Len(s))
    BY <2>1, FS_Interval
  <2> QED
    BY <2>1, <2>2, FS_Subset
<1>2. /\ n \in Nat /\ e \in [1 .. n -> I]
      /\ \A j, k \in 1 .. n : e[j] = e[k] => j = k
      /\ \A i \in I : \E k \in 1 .. n : e[k] = i
  BY <1>1, InOrderFacts
<1>3. Kept(s, I) = [k \in 1 .. n |-> s[e[k]]]
  BY DEF Kept
<1> HIDE DEF n, e
<1>4. \A i \in I : s[i] \in X
  OBVIOUS
<1>5. Kept(s, I) \in [1 .. n -> X]
  BY <1>2, <1>3, <1>4
<1>6. Kept(s, I) \in Seq(X) /\ Len(Kept(s, I)) = n
  BY <1>2, <1>5
<1>7. DOMAIN Kept(s, I) = 1 .. n /\ \A k \in 1 .. n : Kept(s, I)[k] = s[e[k]] /\ e[k] \in I
  BY <1>2, <1>3
<1>8. \A i \in I : \E k \in DOMAIN Kept(s, I) : Kept(s, I)[k] = s[i]
  BY <1>2, <1>7
<1>9. \E f \in [1 .. n -> I] : /\ \A j, k \in 1 .. n : f[j] = f[k] => j = k
                               /\ \A k \in 1 .. n : Kept(s, I)[k] = s[f[k]]
  BY <1>2, <1>7
<1>10. Renumbers(s, I)
  BY <1>9 DEF Renumbers, n
<1> QED
  BY <1>1, <1>2, <1>6, <1>7, <1>8, <1>10 DEF n

-----------------------------------------------------------------------------
(* Size classes.                                                           *)

\* A set of naturals has a least element.
LEMMA LeastNat ==
    ASSUME NEW X \in SUBSET Nat, X # {}
    PROVE  \E m \in X : \A n \in X : m <= n
<1> DEFINE T == {1 .. n : n \in X}
           R == StrictSubsetOrdering(Nat)
<1>1. ASSUME NEW n \in X PROVE 1 .. n \in FiniteSubsetsOf(Nat)
  <2>1. n \in Int /\ 1 \in Int /\ 1 .. n \in SUBSET Nat
    OBVIOUS
  <2>2. IsFiniteSet(1 .. n)
    BY <2>1, FS_Interval
  <2> QED
    BY <2>1, <2>2 DEF FiniteSubsetsOf
<1>2. T \subseteq FiniteSubsetsOf(Nat) /\ T # {}
  BY <1>1
<1>3. IsWellFoundedOn(R, FiniteSubsetsOf(Nat))
  BY FS_StrictSubsetOrderingWellFounded
<1>4. PICK x \in T : \A y \in T : ~ (<< y, x >> \in R)
  <2> HIDE DEF T, R
  <2> QED
    BY <1>2, <1>3, WFMin
<1>5. PICK m \in X : x = 1 .. m
  OBVIOUS
<1>6. ASSUME NEW n \in X PROVE m <= n
  <2> SUFFICES ASSUME n < m PROVE FALSE
    OBVIOUS
  <2>1. 1 .. n \in SUBSET Nat /\ 1 .. m \in SUBSET Nat /\ 1 .. n \subseteq 1 .. m
    OBVIOUS
  <2>2. m \in 1 .. m /\ m \notin 1 .. n
    OBVIOUS
  <2>3. << 1 .. n, 1 .. m >> \in R
    BY <2>1, <2>2 DEF StrictSubsetOrdering
  <2>4. 1 .. n \in T
    OBVIOUS
  <2> QED
    BY <1>4, <1>5, <2>3, <2>4
<1> QED
  BY <1>6

\* CeilLog2 is the least exponent of a power that is large enough.
LEMMA CeilLog2Facts ==
    ASSUME NEW n \in Nat \ {0}
    PROVE  /\ CeilLog2(n) \in Nat /\ 2^CeilLog2(n) >= n
           /\ \A j \in Nat : 2^j >= n => CeilLog2(n) <= j
<1> DEFINE S == {k \in Nat : 2^k >= n}
           least(k) == 2^k >= n /\ \A j \in 0 .. k - 1 : 2^j < n
<1>1. \A k \in Nat : 2^k \in Nat /\ 2^k >= k
  BY PowerAtLeast
<1>2. S \in SUBSET Nat /\ n \in S
  BY <1>1
<1>3. PICK m \in S : \A k \in S : m <= k
  <2> HIDE DEF S
  <2> QED
    BY <1>2, LeastNat
<1>4. m \in 0 .. n /\ least(m)
  <2>1. m <= n
    BY <1>2, <1>3
  <2>2. ASSUME NEW j \in 0 .. m - 1 PROVE 2^j < n
    BY <1>1, <1>3
  <2> QED
    BY <2>1, <2>2
<1>5. CeilLog2(n) \in 0 .. n /\ least(CeilLog2(n))
  <2>1. CeilLog2(n) = CHOOSE k \in 0 .. n : least(k)
    BY DEF CeilLog2
  <2> HIDE DEF least
  <2> QED
    BY <1>4, <2>1
<1>6. ASSUME NEW j \in Nat, 2^j >= n PROVE CeilLog2(n) <= j
  <2> DEFINE c == CeilLog2(n)
  <2>1. c \in Nat /\ \A k \in 0 .. c - 1 : 2^k < n
    BY <1>5
  <2> HIDE DEF c
  <2>2. ~ (j \in 0 .. c - 1)
    BY <1>1, <1>6, <2>1
  <2>3. c <= j
    BY <2>1, <2>2
  <2> QED
    BY <2>3 DEF c
<1> QED
  BY <1>5, <1>6

\* The exponent of a power of two.
LEMMA CeilLog2OfPower ==
    ASSUME NEW k \in Nat
    PROVE  CeilLog2(2^k) = k
<1> DEFINE p == 2^k
           c == CeilLog2(p)
<1>1. p \in Nat \ {0}
  BY PowerAtLeast
<1>2. c \in Nat /\ 2^c >= p /\ \A j \in Nat : 2^j >= p => c <= j
  <2> HIDE DEF p
  <2> QED
    BY <1>1, CeilLog2Facts
<1>3. c <= k
  <2>1. 2^k >= p
    BY <1>1
  <2> QED
    BY <1>2, <2>1
<1>4. ~ (c < k)
  <2> SUFFICES ASSUME c < k PROVE FALSE
    OBVIOUS
  <2>1. 2^c < 2^k
    BY <1>2, PowerLess
  <2>2. 2^c \in Nat
    BY <1>2, PowerAtLeast
  <2> QED
    BY <1>1, <1>2, <2>1, <2>2
<1>5. c \in Nat
  BY <1>2
<1> HIDE DEF c
<1>6. c = k
  BY <1>3, <1>4, <1>5
<1> QED
  BY <1>6 DEF c

\* CeilLog2 grows with its argument.
LEMMA CeilLog2Grows ==
    ASSUME NEW m \in Nat \ {0}, NEW n \in Nat \ {0}, m <= n
    PROVE  CeilLog2(m) <= CeilLog2(n)
<1>1. CeilLog2(n) \in Nat /\ 2^CeilLog2(n) >= n /\ 2^CeilLog2(n) \in Nat
  BY CeilLog2Facts, PowerAtLeast
<1>2. 2^CeilLog2(n) >= m
  BY <1>1
<1> QED
  BY <1>1, <1>2, CeilLog2Facts

\* The sizes of the classes are positive.
LEMMA ClassSizes ==
    /\ sizeClassCount \in Nat \ {0}
    /\ \A i \in Class : i \in Nat /\ sizeClassToBlockSize(i) \in Sizes
    /\ BlockSize \subseteq Sizes
    /\ \A i, j \in Class : sizeClassToBlockSize(i) = sizeClassToBlockSize(j) => i = j
<1> DEFINE a == CeilLog2(MinBlock)
           c == CeilLog2(MaxBlock)
<1>1. a \in Nat /\ c \in Nat /\ a <= c
  BY SizesAssumption, CeilLog2Facts, CeilLog2Grows
<1>2. sizeClassCount = c - a + 1 /\ Class = 0 .. (c - a)
  <2>1. sizeClassCount = c - a + 1
    BY DEF sizeClassCount
  <2>2. (c - a + 1) - 1 = c - a
    BY <1>1
  <2> QED
    BY <2>1, <2>2 DEF Class
<1> HIDE DEF a, c
<1>3. sizeClassCount \in Nat \ {0} /\ \A i \in Class : i \in Nat
  BY <1>1, <1>2
<1>4. \A i \in Nat : sizeClassToBlockSize(i) = 2^a * 2^i
  BY DEF sizeClassToBlockSize, a
<1>5. \A i \in Nat : 2^i \in Nat \ {0}
  BY PowerAtLeast
<1>6. 2^a \in Nat \ {0}
  BY <1>1, <1>5
<1>7. ASSUME NEW i \in Nat PROVE sizeClassToBlockSize(i) \in Sizes
  <2> DEFINE x == 2^a
             y == 2^i
  <2>1. x \in Nat \ {0} /\ y \in Nat \ {0}
    BY <1>5, <1>6
  <2>2. x * y \in Nat \ {0}
    <3> HIDE DEF x, y
    <3> QED
      BY <2>1
  <2> QED
    BY <1>4, <2>2 DEF Sizes
<1>8. ASSUME NEW i \in Nat, NEW j \in Nat, i < j
      PROVE  sizeClassToBlockSize(i) < sizeClassToBlockSize(j)
  <2> DEFINE x == 2^a
             y == 2^i
             z == 2^j
  <2>1. x \in Nat \ {0} /\ y \in Nat \ {0} /\ z \in Nat \ {0} /\ y < z
    BY <1>5, <1>6, <1>8, PowerLess
  <2>2. x * y < x * z
    <3> HIDE DEF x, y, z
    <3> QED
      BY <2>1
  <2> QED
    BY <1>4, <2>2
<1>9. ASSUME NEW i \in Nat, NEW j \in Nat, sizeClassToBlockSize(i) = sizeClassToBlockSize(j)
      PROVE  i = j
  <2>1. sizeClassToBlockSize(i) \in Nat
    BY <1>7 DEF Sizes
  <2>2. ~ (i < j) /\ ~ (j < i)
    BY <1>8, <1>9, <2>1
  <2> QED
    BY <2>2
<1> QED
  BY <1>3, <1>7, <1>9 DEF BlockSize

\* allocate and deallocate find the same class for a request, and its blocks
\* are large enough.
LEMMA RequestClass ==
    ASSUME NEW size \in Request, size <= MaxBlock
    PROVE  /\ sizeClassIndex(blockSizeFor(size)) \in Class
           /\ freeIndex(size) = sizeClassIndex(blockSizeFor(size))
           /\ blockSizeFor(size) = sizeClassToBlockSize(sizeClassIndex(blockSizeFor(size)))
           /\ blockSizeFor(size) >= size
           /\ blockSizeFor(size) \in BlockSize /\ blockSizeFor(size) \in Sizes
<1> DEFINE m == MinBlock
           n == AtLeastMin(size)
           a == CeilLog2(MinBlock)
           c == CeilLog2(n)
           i == sizeClassIndex(n)
<1>1. m \in Nat \ {0} /\ n \in Nat \ {0} /\ n >= m /\ n <= MaxBlock /\ size <= n /\ MaxBlock \in Nat \ {0}
  BY SizesAssumption DEF AtLeastMin
<1>2. /\ a \in Nat /\ c \in Nat /\ a <= c /\ c <= CeilLog2(MaxBlock) /\ CeilLog2(MaxBlock) \in Nat
      /\ 2^a >= m /\ 2^c >= n
  <2> HIDE DEF n
  <2> QED
    BY <1>1, CeilLog2Facts, CeilLog2Grows
<1>3. i = c - a /\ sizeClassIndex(2^c) = i
  <2>1. 2^c \in Nat /\ CeilLog2(2^c) = c
    BY <1>2, PowerAtLeast, CeilLog2OfPower
  <2>2. \A x : sizeClassIndex(x) = IF x <= m THEN 0 ELSE CeilLog2(x) - a
    BY DEF sizeClassIndex
  <2> HIDE DEF i, n, a, m, c
  <2>3. CASE n = m
    <3>1. c = a
      BY <2>3 DEF c, a, m
    <3>2. sizeClassIndex(n) = 0
      BY <1>1, <2>2, <2>3
    <3>3. sizeClassIndex(2^c) = 0
      <4>1. 2^c > m => sizeClassIndex(2^c) = c - a
        BY <1>1, <2>1, <2>2
      <4>2. 2^c <= m => sizeClassIndex(2^c) = 0
        BY <2>2
      <4>3. c - a = 0
        BY <1>2, <3>1
      <4> QED
        BY <1>1, <2>1, <4>1, <4>2, <4>3
    <3> QED
      BY <1>2, <3>1, <3>2, <3>3 DEF i
  <2>4. CASE n > m
    <3>1. sizeClassIndex(n) = c - a
      BY <1>1, <2>2, <2>4 DEF c
    <3>2. ~ (2^c <= m)
      BY <1>1, <1>2, <2>1, <2>4
    <3>3. sizeClassIndex(2^c) = c - a
      BY <2>1, <2>2, <3>2
    <3> QED
      BY <3>1, <3>3 DEF i
  <2> QED
    BY <1>1, <2>3, <2>4
<1>4. sizeClassToBlockSize(i) = 2^c
  <2>1. i \in Nat /\ a + i = c
    <3> HIDE DEF i, a, c
    <3> QED
      BY <1>2, <1>3
  <2> HIDE DEF i, c
  <2>2. 2^(a + i) = 2^a * 2^i
    BY <1>2, <2>1, PowerSum
  <2> QED
    BY <2>1, <2>2 DEF sizeClassToBlockSize
<1>5. blockSizeFor(size) = 2^c
  BY <1>4 DEF blockSizeFor
<1>6. freeIndex(size) = i
  BY <1>3 DEF freeIndex
<1>7. i \in Class
  <2>1. i \in 0 .. (CeilLog2(MaxBlock) - a + 1) - 1
    <3> HIDE DEF i, a, c
    <3> QED
      BY <1>2, <1>3
  <2> QED
    BY <2>1 DEF Class, sizeClassCount
<1>8. 2^c >= size
  <2>1. 2^c \in Nat
    BY <1>2, PowerAtLeast
  <2>2. size \in Nat
    BY SizesAssumption
  <2> HIDE DEF n, c
  <2> QED
    BY <1>1, <1>2, <2>1, <2>2
<1>9. blockSizeFor(size) = sizeClassToBlockSize(i)
  BY <1>4, <1>5
<1> HIDE DEF i, c, n
<1>10. blockSizeFor(size) \in BlockSize
  BY <1>7, <1>9 DEF BlockSize
<1> QED
  BY <1>3, <1>5, <1>6, <1>7, <1>8, <1>9, <1>10, ClassSizes

-----------------------------------------------------------------------------
(* Counting blocks.                                                        *)

\* The items of a chunk in a queue are as many as its blocks there.
LEMMA QueuedCount ==
    ASSUME NEW q, IsQueue(q), NEW s
    PROVE  /\ IsFiniteSet(Of(Queued(q), s))
           /\ Cardinality(BlocksOf(q, s)) = Cardinality(Of(Queued(q), s))
<1> DEFINE I == BlocksOf(q, s)
           f == [k \in I |-> q[k].block]
<1>1. IsFiniteSet(I)
  <2>1. q \in Seq(Items) /\ I \in SUBSET DOMAIN q
    BY DEF IsQueue, BlocksOf
  <2> QED
    BY <2>1, KeptFacts
<1>2. f \in Bijection(I, Of(Queued(q), s))
  <2>1. f \in [I -> Of(Queued(q), s)]
    BY DEF BlocksOf, Queued, Of
  <2>2. \A j, k \in I : f[j] = f[k] => j = k
    BY DEF IsQueue, BlocksOf
  <2>3. \A b \in Of(Queued(q), s) : \E k \in I : f[k] = b
    BY DEF BlocksOf, Queued, Of
  <2> HIDE DEF f, I
  <2> QED
    BY <2>1, <2>2, <2>3, Fun_IsBij
<1> HIDE DEF f, I
<1>3. ExistsBijection(I, Of(Queued(q), s))
  BY <1>2 DEF ExistsBijection
<1> QED
  BY <1>1, <1>3, FS_Bijection DEF I

\* The blocks of a chunk are finitely many.
LEMMA ChunkFinite ==
    ASSUME NEW ch, NEW all, IsCut(ch, all), NEW s \in Alive(ch)
    PROVE  IsFiniteSet(Of(all, s))
<1>1. PICK size \in BlockSize : Of(all, s) = Cut(s, ch[s].base, size)
  BY DEF IsCut
<1> DEFINE K == 0 .. blockCount(size) - 1
           f == [k \in K |-> ChunkBlock(s, ch[s].base, k * size, size)]
<1>2. f \in Surjection(K, Cut(s, ch[s].base, size))
  <2>1. f \in [K -> Cut(s, ch[s].base, size)]
    BY DEF Cut
  <2>2. \A b \in Cut(s, ch[s].base, size) : \E k \in K : f[k] = b
    BY DEF Cut
  <2> HIDE DEF f, K
  <2> QED
    BY <2>1, <2>2, Fun_IsSurj
<1>3. IsFiniteSet(K)
  <2>1. ChunkSize \in Nat /\ size \in Nat /\ size > 0
    BY ClassSizes, SizesAssumption DEF Sizes
  <2>2. blockCount(size) \in Int
    BY <2>1 DEF blockCount
  <2>3. 0 \in Int /\ blockCount(size) - 1 \in Int
    BY <2>2
  <2> QED
    BY <2>3, FS_Interval
<1> HIDE DEF f, K
<1> QED
  BY <1>1, <1>2, <1>3, FS_Surjection

\* The counts of disjoint sets of blocks add up.
LEMMA OfUnion ==
    ASSUME NEW A, NEW B, A \cap B = {}, NEW s, IsFiniteSet(Of(A, s)), IsFiniteSet(Of(B, s))
    PROVE  /\ IsFiniteSet(Of(A \cup B, s))
           /\ Cardinality(Of(A \cup B, s)) = Cardinality(Of(A, s)) + Cardinality(Of(B, s))
           /\ Cardinality(Of(A, s)) \in Nat /\ Cardinality(Of(B, s)) \in Nat
<1>1. Of(A \cup B, s) = Of(A, s) \cup Of(B, s) /\ Of(A, s) \cap Of(B, s) = {}
  BY DEF Of
<1>2. /\ IsFiniteSet(Of(A, s) \cup Of(B, s))
      /\ Cardinality(Of(A, s) \cup Of(B, s)) =
           Cardinality(Of(A, s)) + Cardinality(Of(B, s)) - Cardinality(Of(A, s) \cap Of(B, s))
  BY FS_Union
<1>3. Cardinality(Of(A, s) \cap Of(B, s)) = 0
  BY <1>1, FS_EmptySet
<1>4. Cardinality(Of(A, s)) \in Nat /\ Cardinality(Of(B, s)) \in Nat
  BY FS_CardinalityType
<1>5. \A x, y \in Nat : x + y - 0 = x + y
  OBVIOUS
<1>6. Cardinality(Of(A, s)) + Cardinality(Of(B, s)) - 0 = Cardinality(Of(A, s)) + Cardinality(Of(B, s))
  BY <1>4, <1>5, Zenon
<1> QED
  BY <1>1, <1>2, <1>3, <1>4, <1>6, Zenon

-----------------------------------------------------------------------------
(* processPendingReuses.                                                   *)

\* The stacks and the chunks once the items of rq are returned.
ReturnedTo(rq, i) == Kept(rq, {k \in DOMAIN rq : rq[k].freelist_index = i})
StacksAfter(st, rq) ==
    [i \in Class |->
        st[i] \o [k \in 1 .. Len(ReturnedTo(rq, i)) |-> Reverse(ReturnedTo(rq, i))[k].block]]
ChunksAfter(ch, rq) ==
    [s \in DOMAIN ch |->
        IF ch[s].alive
        THEN decrementPendingAndUsed(ch[s], Cardinality(BlocksOf(rq, s)))
        ELSE ch[s]]

\* One stack gets the blocks of its items, each once.
LEMMA StackAfter ==
    ASSUME NEW st, AreStacks(st), NEW rq, IsQueue(rq), Queued(rq) \cap Stacked(st) = {},
           NEW i \in Class
    PROVE  /\ StacksAfter(st, rq)[i] \in Seq(ChunkBlocks)
           /\ IsInjective(StacksAfter(st, rq)[i])
           /\ ToSet(StacksAfter(st, rq)[i]) =
                ToSet(st[i]) \cup {rq[k].block : k \in {j \in DOMAIN rq : rq[j].freelist_index = i}}
           /\ \A k \in DOMAIN StacksAfter(st, rq)[i] :
                StacksAfter(st, rq)[i][k].size = sizeClassToBlockSize(i)
<1> DEFINE I == {k \in DOMAIN rq : rq[k].freelist_index = i}
           kept == ReturnedTo(rq, i)
           n == Cardinality(I)
           back == [k \in 1 .. Len(kept) |-> Reverse(kept)[k].block]
           new == st[i] \o back
<1>1. rq \in Seq(Items) /\ I \in SUBSET DOMAIN rq
  BY DEF IsQueue
<1>2. /\ n \in Nat /\ kept \in Seq(Items) /\ Len(kept) = n /\ DOMAIN kept = 1 .. n
      /\ \A k \in DOMAIN kept : \E j \in I : kept[k] = rq[j]
      /\ \A j \in I : \E k \in DOMAIN kept : kept[k] = rq[j]
      /\ \E e \in [1 .. n -> I] : /\ \A j, k \in 1 .. n : e[j] = e[k] => j = k
                                  /\ \A k \in 1 .. n : kept[k] = rq[e[k]]
  <2>1. kept = Kept(rq, I)
    BY DEF ReturnedTo
  <2> HIDE DEF I, kept
  <2>2. /\ Cardinality(I) \in Nat /\ Kept(rq, I) \in Seq(Items) /\ Len(Kept(rq, I)) = Cardinality(I)
        /\ DOMAIN Kept(rq, I) = 1 .. Cardinality(I)
    BY <1>1, KeptFacts
  <2>3. /\ \A k \in DOMAIN Kept(rq, I) : \E j \in I : Kept(rq, I)[k] = rq[j]
        /\ \A j \in I : \E k \in DOMAIN Kept(rq, I) : Kept(rq, I)[k] = rq[j]
    BY <1>1, KeptFacts
  <2>4. \E e \in [1 .. Cardinality(I) -> I] :
             /\ \A j, k \in 1 .. Cardinality(I) : e[j] = e[k] => j = k
             /\ \A k \in 1 .. Cardinality(I) : Kept(rq, I)[k] = rq[e[k]]
    <3>1. Renumbers(rq, I)
      BY <1>1, KeptFacts
    <3> QED
      BY <3>1 DEF Renumbers
  <2> QED
    BY <2>1, <2>2, <2>3, <2>4, Zenon
<1>3. PICK e \in [1 .. n -> I] : /\ \A j, k \in 1 .. n : e[j] = e[k] => j = k
                                 /\ \A k \in 1 .. n : kept[k] = rq[e[k]]
  BY <1>2
<1> HIDE DEF kept, I, n
<1>4. back = [k \in 1 .. n |-> kept[(n - k) + 1].block]
  <2>1. \A k \in 1 .. n : Reverse(kept)[k] = kept[(n - k) + 1]
    BY <1>2 DEF Reverse
  <2> QED
    BY <1>2, <2>1
<1> HIDE DEF back
<1>5. \A k \in 1 .. n : (n - k) + 1 \in 1 .. n
  BY <1>2
<1>6. \A k \in 1 .. n : back[k] = rq[e[(n - k) + 1]].block /\ e[(n - k) + 1] \in I
  BY <1>3, <1>4, <1>5
<1>7. \A j \in I : rq[j] \in Items /\ rq[j].block \in ChunkBlocks /\ rq[j].freelist_index = i
                   /\ rq[j].block.size = sizeClassToBlockSize(i) /\ j \in DOMAIN rq
  BY <1>1 DEF I, Items
<1>8. back \in Seq(ChunkBlocks) /\ Len(back) = n /\ DOMAIN back = 1 .. n
  <2>1. back \in [1 .. n -> ChunkBlocks]
    <3>1. \A k \in 1 .. n : kept[(n - k) + 1].block \in ChunkBlocks
      BY <1>3, <1>5, <1>7
    <3> QED
      BY <1>4, <3>1
  <2> QED
    BY <1>2, <2>1
<1>9. \A j, k \in 1 .. n : back[j] = back[k] => j = k
  <2> SUFFICES ASSUME NEW j \in 1 .. n, NEW k \in 1 .. n, back[j] = back[k] PROVE j = k
    OBVIOUS
  <2>1. e[(n - j) + 1] = e[(n - k) + 1]
    BY <1>6, <1>7 DEF IsQueue
  <2>2. (n - j) + 1 = (n - k) + 1
    BY <1>3, <1>5, <2>1
  <2> QED
    BY <1>2, <2>2
<1>10. ToSet(back) = {rq[k].block : k \in I}
  <2>1. \A j \in I : \E k \in 1 .. n : back[k] = rq[j].block
    <3> SUFFICES ASSUME NEW j \in I PROVE \E k \in 1 .. n : back[k] = rq[j].block
      OBVIOUS
    <3>1. PICK k \in 1 .. n : kept[k] = rq[j]
      BY <1>2
    <3>2. (n - k) + 1 \in 1 .. n /\ (n - ((n - k) + 1)) + 1 = k
      BY <1>2
    <3>3. back[(n - k) + 1] = kept[k].block
      BY <1>4, <3>2
    <3> QED
      BY <3>1, <3>2, <3>3
  <2>2. ToSet(back) = {back[k] : k \in 1 .. n}
    BY <1>8 DEF ToSet
  <2>3. \A k \in 1 .. n : \E j \in I : back[k] = rq[j].block
    BY <1>6
  <2>4. ASSUME NEW b \in ToSet(back) PROVE b \in {rq[k].block : k \in I}
    BY <2>2, <2>3
  <2>5. ASSUME NEW b \in {rq[k].block : k \in I} PROVE b \in ToSet(back)
    BY <2>1, <2>2
  <2> QED
    BY <2>4, <2>5
<1>11. /\ st[i] \in Seq(ChunkBlocks) /\ IsInjective(st[i])
       /\ \A k \in DOMAIN st[i] : st[i][k].size = sizeClassToBlockSize(i)
       /\ ToSet(st[i]) \subseteq Stacked(st)
  BY DEF AreStacks, Stacked
<1>12. ToSet(back) \cap ToSet(st[i]) = {}
  <2>1. ToSet(back) \subseteq Queued(rq)
    BY <1>7, <1>10 DEF Queued
  <2> QED
    BY <1>11, <2>1
<1> DEFINE a == st[i]
           l == Len(a)
<1>13. /\ l \in Nat /\ new \in Seq(ChunkBlocks) /\ Len(new) = l + n /\ DOMAIN new = 1 .. (l + n)
       /\ DOMAIN a = 1 .. l
       /\ \A k \in 1 .. l : new[k] = a[k]
       /\ \A k \in 1 .. (l + n) : k \notin 1 .. l => k - l \in 1 .. n /\ new[k] = back[k - l]
       /\ \A k \in 1 .. n : l + k \in 1 .. (l + n) /\ new[l + k] = back[k]
  <2>1. a \in Seq(ChunkBlocks) /\ new = a \o back
    BY <1>11
  <2> HIDE DEF new, a
  <2>2. l \in Nat /\ DOMAIN a = 1 .. l
    BY <2>1
  <2>3. new \in Seq(ChunkBlocks) /\ Len(new) = Len(a) + Len(back)
        /\ \A k \in 1 .. Len(a) + Len(back) :
             new[k] = IF k <= Len(a) THEN a[k] ELSE back[k - Len(a)]
    BY <2>1, <1>8, ConcatProperties, Zenon
  <2>4. new \in Seq(ChunkBlocks) /\ Len(new) = l + n
        /\ \A k \in 1 .. (l + n) : new[k] = IF k <= l THEN a[k] ELSE back[k - l]
    BY <2>3, <1>8, Zenon
  <2> HIDE DEF l
  <2>5. DOMAIN new = 1 .. (l + n)
    BY <2>4
  <2>6. \A k \in 1 .. l : new[k] = a[k]
    BY <1>2, <2>2, <2>4
  <2>7. \A k \in 1 .. (l + n) : k \notin 1 .. l => k - l \in 1 .. n /\ new[k] = back[k - l]
    <3> SUFFICES ASSUME NEW k \in 1 .. (l + n), k \notin 1 .. l
                 PROVE  k - l \in 1 .. n /\ new[k] = back[k - l]
      OBVIOUS
    <3>1. ~(k <= l) /\ k - l \in 1 .. n
      BY <1>2, <2>2
    <3> QED
      BY <2>4, <3>1
  <2>8. \A k \in 1 .. n : l + k \in 1 .. (l + n) /\ new[l + k] = back[k]
    <3> SUFFICES ASSUME NEW k \in 1 .. n
                 PROVE  l + k \in 1 .. (l + n) /\ new[l + k] = back[k]
      OBVIOUS
    <3>1. ~(l + k <= l) /\ (l + k) - l = k /\ l + k \in 1 .. (l + n)
      BY <1>2, <2>2
    <3>2. new[l + k] = back[(l + k) - l]
      BY <2>4, <3>1, Zenon
    <3> QED
      BY <3>1, <3>2
  <2> QED
    BY <2>2, <2>4, <2>5, <2>6, <2>7, <2>8, Zenon
<1> HIDE DEF new, a, l
<1>14. ToSet(new) = ToSet(a) \cup ToSet(back)
  <2>1. ASSUME NEW b \in ToSet(new) PROVE b \in ToSet(a) \cup ToSet(back)
    <3>1. PICK k \in 1 .. (l + n) : new[k] = b
      BY <1>13 DEF ToSet
    <3> QED
      BY <1>8, <1>13, <3>1 DEF ToSet
  <2>2. ASSUME NEW b \in ToSet(a) PROVE b \in ToSet(new)
    <3>1. PICK k \in 1 .. l : a[k] = b
      BY <1>13 DEF ToSet
    <3>2. k \in 1 .. (l + n)
      BY <1>2, <1>13
    <3> QED
      BY <1>13, <3>1, <3>2 DEF ToSet
  <2>3. ASSUME NEW b \in ToSet(back) PROVE b \in ToSet(new)
    <3>1. PICK k \in 1 .. n : back[k] = b
      BY <1>8 DEF ToSet
    <3> QED
      BY <1>13, <3>1 DEF ToSet
  <2> QED
    BY <2>1, <2>2, <2>3
<1>15. IsInjective(new)
  <2> SUFFICES ASSUME NEW j \in 1 .. (l + n), NEW k \in 1 .. (l + n), new[j] = new[k] PROVE j = k
    BY <1>13 DEF IsInjective
  <2>1. CASE j \in 1 .. l /\ k \in 1 .. l
    BY <1>11, <1>13, <2>1 DEF IsInjective, a
  <2>2. CASE j \in 1 .. l /\ k \notin 1 .. l
    <3>1. new[j] \in ToSet(a) /\ new[k] \in ToSet(back)
      BY <1>8, <1>13, <2>2 DEF ToSet
    <3> QED
      BY <1>12, <3>1 DEF a
  <2>3. CASE j \notin 1 .. l /\ k \in 1 .. l
    <3>1. new[k] \in ToSet(a) /\ new[j] \in ToSet(back)
      BY <1>8, <1>13, <2>3 DEF ToSet
    <3> QED
      BY <1>12, <3>1 DEF a
  <2>4. CASE j \notin 1 .. l /\ k \notin 1 .. l
    <3>1. j - l = k - l
      BY <1>9, <1>13, <2>4
    <3> QED
      BY <1>13, <3>1
  <2> QED
    BY <2>1, <2>2, <2>3, <2>4
<1>16. \A k \in DOMAIN new : new[k].size = sizeClassToBlockSize(i)
  <2>1. \A b \in ToSet(new) : b.size = sizeClassToBlockSize(i)
    BY <1>7, <1>10, <1>11, <1>14 DEF ToSet, a
  <2> QED
    BY <2>1 DEF ToSet
<1>17. StacksAfter(st, rq)[i] = new
  BY DEF StacksAfter, new, back, kept
<1> QED
  BY <1>10, <1>13, <1>14, <1>15, <1>16, <1>17 DEF a, I

-----------------------------------------------------------------------------
(* The queues.                                                             *)

\* What a loop keeps of a queue is a queue.
LEMMA KeptQueue ==
    ASSUME NEW q, IsQueue(q), NEW I \in SUBSET DOMAIN q
    PROVE  /\ IsQueue(Kept(q, I))
           /\ Queued(Kept(q, I)) = {q[k].block : k \in I}
<1> DEFINE n == Cardinality(I)
           r == Kept(q, I)
<1>1. q \in Seq(Items) /\ \A j, k \in DOMAIN q : q[j].block = q[k].block => j = k
  BY DEF IsQueue
<1>2. r \in Seq(Items) /\ DOMAIN r = 1 .. n
  BY <1>1, KeptFacts
<1>3. /\ \A k \in DOMAIN r : \E j \in I : r[k] = q[j]
      /\ \A j \in I : \E k \in DOMAIN r : r[k] = q[j]
  BY <1>1, KeptFacts
<1>4. \E e \in [1 .. n -> I] : /\ \A j, k \in 1 .. n : e[j] = e[k] => j = k
                               /\ \A k \in 1 .. n : r[k] = q[e[k]]
  <2>1. Renumbers(q, I)
    BY <1>1, KeptFacts
  <2> QED
    BY <2>1 DEF Renumbers
<1>5. PICK e \in [1 .. n -> I] : /\ \A j, k \in 1 .. n : e[j] = e[k] => j = k
                                 /\ \A k \in 1 .. n : r[k] = q[e[k]]
  BY <1>4
<1> HIDE DEF n, r
<1>6. \A j, k \in DOMAIN r : r[j].block = r[k].block => j = k
  <2> SUFFICES ASSUME NEW j \in 1 .. n, NEW k \in 1 .. n, r[j].block = r[k].block PROVE j = k
    BY <1>2
  <2>1. e[j] \in DOMAIN q /\ e[k] \in DOMAIN q /\ q[e[j]].block = q[e[k]].block
    BY <1>5
  <2>2. e[j] = e[k]
    BY <1>1, <2>1, Zenon
  <2> QED
    BY <1>5, <2>2, Zenon
<1>7. IsQueue(r)
  BY <1>2, <1>6 DEF IsQueue
<1>8. Queued(r) = {q[k].block : k \in I}
  <2>1. ASSUME NEW b \in Queued(r) PROVE b \in {q[k].block : k \in I}
    BY <1>3 DEF Queued
  <2>2. ASSUME NEW b \in {q[k].block : k \in I} PROVE b \in Queued(r)
    BY <1>3 DEF Queued
  <2> QED
    BY <2>1, <2>2
<1> QED
  BY <1>7, <1>8 DEF r

\* One queue after the other is a queue.
LEMMA ConcatQueue ==
    ASSUME NEW p, IsQueue(p), NEW q, IsQueue(q), Queued(p) \cap Queued(q) = {}
    PROVE  IsQueue(p \o q) /\ Queued(p \o q) = Queued(p) \cup Queued(q)
<1> DEFINE r == p \o q
           l == Len(p)
           n == Len(q)
<1>1. p \in Seq(Items) /\ q \in Seq(Items)
  BY DEF IsQueue
<1>2. /\ l \in Nat /\ DOMAIN p = 1 .. l /\ n \in Nat /\ DOMAIN q = 1 .. n
  BY <1>1
<1>3. /\ r \in Seq(Items) /\ Len(r) = l + n
      /\ \A k \in 1 .. l + n : r[k] = IF k <= l THEN p[k] ELSE q[k - l]
  BY <1>1, ConcatProperties, Zenon
<1> HIDE DEF r, l, n
<1>4. DOMAIN r = 1 .. (l + n)
  BY <1>3
<1>5. ASSUME NEW k \in 1 .. (l + n)
      PROVE  \/ k \in 1 .. l /\ r[k] = p[k]
             \/ k \notin 1 .. l /\ k - l \in 1 .. n /\ r[k] = q[k - l]
  <2>1. CASE k <= l
    <3>1. k \in 1 .. l
      BY <1>2, <2>1
    <3> QED
      BY <1>3, <2>1, <3>1
  <2>2. CASE ~(k <= l)
    <3>1. k \notin 1 .. l /\ k - l \in 1 .. n
      BY <1>2, <2>2
    <3> QED
      BY <1>3, <2>2, <3>1
  <2> QED
    BY <2>1, <2>2
<1>6. \A k \in 1 .. l : k \in 1 .. (l + n) /\ r[k] = p[k]
  <2>1. \A k \in 1 .. l : k \in 1 .. (l + n) /\ k <= l
    BY <1>2
  <2> QED
    BY <1>3, <2>1
<1>7. ASSUME NEW k \in 1 .. n PROVE l + k \in 1 .. (l + n) /\ r[l + k] = q[k]
  <2>1. ~(l + k <= l) /\ (l + k) - l = k /\ l + k \in 1 .. (l + n)
    BY <1>2
  <2>2. r[l + k] = q[(l + k) - l]
    BY <1>3, <2>1, Zenon
  <2> QED
    BY <2>1, <2>2
<1>8. Queued(r) = Queued(p) \cup Queued(q)
  <2>1. ASSUME NEW b \in Queued(r) PROVE b \in Queued(p) \cup Queued(q)
    <3>1. PICK k \in 1 .. (l + n) : b = r[k].block
      BY <1>4 DEF Queued
    <3> QED
      BY <1>2, <1>5, <3>1 DEF Queued
  <2>2. ASSUME NEW b \in Queued(p) PROVE b \in Queued(r)
    <3>1. PICK k \in 1 .. l : b = p[k].block
      BY <1>2 DEF Queued
    <3> QED
      BY <1>4, <1>6, <3>1 DEF Queued
  <2>3. ASSUME NEW b \in Queued(q) PROVE b \in Queued(r)
    <3>1. PICK k \in 1 .. n : b = q[k].block
      BY <1>2 DEF Queued
    <3> QED
      BY <1>4, <1>7, <3>1 DEF Queued
  <2> QED
    BY <2>1, <2>2, <2>3
<1>9. ASSUME NEW j \in 1 .. (l + n), NEW k \in 1 .. (l + n), r[j].block = r[k].block PROVE j = k
  <2>1. CASE j \in 1 .. l /\ k \in 1 .. l
    BY <1>2, <1>6, <1>9, <2>1 DEF IsQueue
  <2>2. CASE j \in 1 .. l /\ k \notin 1 .. l
    <3>1. r[j].block \in Queued(p) /\ r[k].block \in Queued(q)
      BY <1>2, <1>5, <2>2 DEF Queued
    <3> QED
      BY <1>9, <3>1
  <2>3. CASE j \notin 1 .. l /\ k \in 1 .. l
    <3>1. r[k].block \in Queued(p) /\ r[j].block \in Queued(q)
      BY <1>2, <1>5, <2>3 DEF Queued
    <3> QED
      BY <1>9, <3>1
  <2>4. CASE j \notin 1 .. l /\ k \notin 1 .. l
    <3>1. j - l \in DOMAIN q /\ k - l \in DOMAIN q /\ q[j - l].block = q[k - l].block
      BY <1>2, <1>5, <1>9, <2>4
    <3>2. j - l = k - l
      BY <3>1 DEF IsQueue
    <3> QED
      BY <1>2, <3>2
  <2> QED
    BY <2>1, <2>2, <2>3, <2>4
<1>10. IsQueue(r)
  BY <1>3, <1>4, <1>9 DEF IsQueue
<1> QED
  BY <1>8, <1>10 DEF r

\* An empty queue.
LEMMA EmptyQueue == IsQueue(<< >>) /\ Queued(<< >>) = {}
BY DEF IsQueue, Queued

\* The drain moves blocks from the pending to the ready queue, those whose
\* device work is complete.
LEMMA QueuesDrained ==
    ASSUME IsQueue(pending_queue), IsQueue(ready_queue),
           Queued(pending_queue) \cap Queued(ready_queue) = {}
    PROVE  /\ IsQueue(stillPending) /\ IsQueue(nowReady)
           /\ Queued(stillPending) \cap Queued(nowReady) = {}
           /\ Queued(stillPending) \cup Queued(nowReady) =
                Queued(pending_queue) \cup Queued(ready_queue)
           /\ Queued(stillPending) = {b \in Queued(pending_queue) : RegionOf(b) \in busy}
<1> DEFINE q == pending_queue
           C == completed
           D == DOMAIN q \ C
           done == Kept(q, C)
<1>1. C = {k \in DOMAIN q : RegionOf(q[k].block) \notin busy}
  BY DEF completed, isCompleted
<1>2. C \in SUBSET DOMAIN q /\ D \in SUBSET DOMAIN q
  BY <1>1
<1>3. stillPending = Kept(q, D) /\ nowReady = ready_queue \o done
  BY DEF stillPending, nowReady
<1>4. \A j, k \in DOMAIN q : q[j].block = q[k].block => j = k
  BY DEF IsQueue
<1> HIDE DEF C, D
<1>5. IsQueue(done) /\ Queued(done) = {q[k].block : k \in C}
  BY <1>2, KeptQueue
<1>6. IsQueue(stillPending) /\ Queued(stillPending) = {q[k].block : k \in D}
  BY <1>2, <1>3, KeptQueue
<1> HIDE DEF done
<1>7. Queued(stillPending) = {b \in Queued(q) : RegionOf(b) \in busy}
  <2>1. ASSUME NEW b \in Queued(stillPending) PROVE b \in Queued(q) /\ RegionOf(b) \in busy
    BY <1>1, <1>6 DEF D, Queued
  <2>2. ASSUME NEW b \in Queued(q), RegionOf(b) \in busy PROVE b \in Queued(stillPending)
    BY <1>1, <1>6, <2>2 DEF D, Queued
  <2> QED
    BY <2>1, <2>2
<1>8. Queued(done) = {b \in Queued(q) : RegionOf(b) \notin busy}
  <2>1. ASSUME NEW b \in Queued(done) PROVE b \in Queued(q) /\ RegionOf(b) \notin busy
    BY <1>1, <1>5 DEF Queued
  <2>2. ASSUME NEW b \in Queued(q), RegionOf(b) \notin busy PROVE b \in Queued(done)
    BY <1>1, <1>5, <2>2 DEF Queued
  <2> QED
    BY <2>1, <2>2
<1>9. IsQueue(nowReady) /\ Queued(nowReady) = Queued(ready_queue) \cup Queued(done)
  <2>1. Queued(ready_queue) \cap Queued(done) = {}
    BY <1>8
  <2> QED
    BY <1>3, <1>5, <2>1, ConcatQueue
<1> QED
  BY <1>6, <1>7, <1>8, <1>9

-----------------------------------------------------------------------------
(* The chunks.                                                             *)

\* Only slots, bases and sizes matter to how chunks are cut.
LEMMA CutSame ==
    ASSUME NEW ch, NEW all, IsCut(ch, all), NEW ch2, DOMAIN ch2 = DOMAIN ch,
           \A s \in DOMAIN ch : /\ ch2[s].alive = ch[s].alive
                                /\ ch2[s].base = ch[s].base /\ ch2[s].size = ch[s].size
    PROVE  Alive(ch2) = Alive(ch) /\ IsCut(ch2, all)
<1>1. Alive(ch2) = Alive(ch) /\ Alive(ch) \subseteq DOMAIN ch
  BY DEF Alive
<1>2. \A s \in Alive(ch) : ch2[s].base = ch[s].base /\ ch2[s].size = ch[s].size
  BY <1>1
<1> HIDE DEF Alive
<1> QED
  BY <1>1, <1>2 DEF IsCut

\* The sets of blocks of a chunk are finite.
LEMMA PartFinite ==
    ASSUME NEW ch, NEW all, IsCut(ch, all), NEW s \in Alive(ch), NEW S \in SUBSET all
    PROVE  IsFiniteSet(Of(S, s)) /\ Cardinality(Of(S, s)) \in Nat
<1>1. IsFiniteSet(Of(all, s)) /\ Of(S, s) \in SUBSET Of(all, s)
  BY ChunkFinite DEF Of
<1> QED
  BY <1>1, FS_Subset, FS_CardinalityType

\* Two chunk tables with the same chunks, up to their counters.
SameChunks(ch, ch2) ==
    /\ DOMAIN ch2 = DOMAIN ch
    /\ \A s \in DOMAIN ch :
        /\ ch2[s].alive = ch[s].alive
        /\ ch2[s].base = ch[s].base /\ ch2[s].size = ch[s].size
        /\ ~ ch[s].alive => ch2[s] = ch[s]

\* The rows of a chunk table.
LEMMA ChunkRows ==
    ASSUME NEW ch \in Seq(ChunkInfos), NEW s \in DOMAIN ch
    PROVE  /\ ch[s] \in ChunkInfos /\ ch[s].alive \in BOOLEAN
           /\ ch[s].alive => /\ ch[s] \in [base : Base, size : Nat, used : Nat, pending : Nat, alive : {TRUE}]
                             /\ ch[s].used \in Nat /\ ch[s].pending \in Nat /\ ch[s].base \in Base
           /\ ~ ch[s].alive => ch[s] = NoChunk
<1>1. ch[s] \in ChunkInfos
  OBVIOUS
<1>2. CASE ch[s] = NoChunk
  BY <1>1, <1>2 DEF NoChunk
<1>3. CASE ch[s] \in [base : Base, size : Nat, used : Nat, pending : Nat, alive : {TRUE}]
  BY <1>1, <1>3
<1> QED
  BY <1>1, <1>2, <1>3 DEF ChunkInfos

\* The stacks get every item of the queue.
LEMMA StacksReturned ==
    ASSUME NEW st, AreStacks(st), NEW rq, IsQueue(rq), Queued(rq) \cap Stacked(st) = {}
    PROVE  AreStacks(StacksAfter(st, rq)) /\ Stacked(StacksAfter(st, rq)) = Stacked(st) \cup Queued(rq)
<1> DEFINE new == StacksAfter(st, rq)
           J(i) == {j \in DOMAIN rq : rq[j].freelist_index = i}
<1>1. ASSUME NEW i \in Class
      PROVE  /\ new[i] \in Seq(ChunkBlocks) /\ IsInjective(new[i])
             /\ \A k \in DOMAIN new[i] : new[i][k].size = sizeClassToBlockSize(i)
             /\ ToSet(new[i]) = ToSet(st[i]) \cup {rq[k].block : k \in J(i)}
  BY StackAfter
<1>2. new = [i \in Class |-> new[i]]
  BY DEF StacksAfter
<1> HIDE DEF new
<1>3. AreStacks(new)
  <2>1. new \in [Class -> Seq(ChunkBlocks)]
    BY <1>1, <1>2
  <2> QED
    BY <1>1, <2>1 DEF AreStacks
<1>4. \A k \in DOMAIN rq : rq[k].freelist_index \in Class
  BY DEF IsQueue, Items
<1>5. ASSUME NEW b \in Stacked(new) PROVE b \in Stacked(st) \cup Queued(rq)
  <2>1. PICK i \in Class : b \in ToSet(new[i])
    BY DEF Stacked
  <2>2. b \in ToSet(st[i]) \/ b \in {rq[k].block : k \in J(i)}
    BY <1>1, <2>1
  <2> QED
    BY <2>2 DEF Stacked, Queued
<1>6. ASSUME NEW b \in Stacked(st) PROVE b \in Stacked(new)
  <2>1. PICK i \in Class : b \in ToSet(st[i])
    BY DEF Stacked
  <2>2. b \in ToSet(new[i])
    BY <1>1, <2>1
  <2> QED
    BY <2>2 DEF Stacked
<1>7. ASSUME NEW b \in Queued(rq) PROVE b \in Stacked(new)
  <2>1. PICK k \in DOMAIN rq : b = rq[k].block
    BY DEF Queued
  <2> DEFINE i == rq[k].freelist_index
  <2>2. i \in Class /\ k \in J(i)
    BY <1>4
  <2>3. b \in ToSet(new[i])
    BY <1>1, <2>1, <2>2
  <2> QED
    BY <2>2, <2>3 DEF Stacked
<1> QED
  BY <1>3, <1>5, <1>6, <1>7 DEF new

\* The chunk table after the drain.
LEMMA ChunksReturned ==
    ASSUME NEW ch \in Seq(ChunkInfos), NEW rq, IsQueue(rq)
    PROVE  /\ ChunksAfter(ch, rq) \in Seq(ChunkInfos) /\ SameChunks(ch, ChunksAfter(ch, rq))
           /\ \A s \in Alive(ch) :
                LET n == Cardinality(Of(Queued(rq), s)) c == ChunksAfter(ch, rq)[s] IN
                c.pending = Minus(ch[s].pending, n) /\ c.used = Minus(ch[s].used, n)
<1> DEFINE new == ChunksAfter(ch, rq)
           n(s) == Cardinality(BlocksOf(rq, s))
<1>1. new = [s \in DOMAIN ch |->
              IF ch[s].alive THEN decrementPendingAndUsed(ch[s], n(s)) ELSE ch[s]]
  BY DEF ChunksAfter
<1>2. ASSUME NEW s \in DOMAIN ch
      PROVE  n(s) \in Nat /\ n(s) = Cardinality(Of(Queued(rq), s))
  BY QueuedCount, FS_CardinalityType
<1> HIDE DEF new, n
<1>3. ASSUME NEW s \in DOMAIN ch, ch[s].alive
      PROVE  /\ new[s] = [ch[s] EXCEPT !.pending = Minus(ch[s].pending, n(s)), !.used = Minus(ch[s].used, n(s))]
             /\ Minus(ch[s].pending, n(s)) \in Nat /\ Minus(ch[s].used, n(s)) \in Nat
             /\ ch[s] \in [base : Base, size : Nat, used : Nat, pending : Nat, alive : {TRUE}]
  <2>1. new[s] = decrementPendingAndUsed(ch[s], n(s))
    BY <1>1, <1>3
  <2>2. /\ ch[s] \in [base : Base, size : Nat, used : Nat, pending : Nat, alive : {TRUE}]
        /\ ch[s].used \in Nat /\ ch[s].pending \in Nat
    BY <1>3, ChunkRows
  <2>3. Minus(ch[s].pending, n(s)) \in Nat /\ Minus(ch[s].used, n(s)) \in Nat
    BY <1>2, <2>2 DEF Minus
  <2> QED
    BY <2>1, <2>2, <2>3 DEF decrementPendingAndUsed
<1>4. ASSUME NEW s \in DOMAIN ch, ~ ch[s].alive PROVE new[s] = ch[s] /\ ch[s] \in ChunkInfos
  BY <1>1, <1>4
<1>5. ASSUME NEW s \in DOMAIN ch, ch[s].alive
      PROVE  /\ new[s] \in [base : Base, size : Nat, used : Nat, pending : Nat, alive : {TRUE}]
             /\ new[s].alive = ch[s].alive /\ new[s].base = ch[s].base /\ new[s].size = ch[s].size
             /\ new[s].pending = Minus(ch[s].pending, n(s)) /\ new[s].used = Minus(ch[s].used, n(s))
  <2> HIDE DEF Minus
  <2> QED
    BY <1>3, <1>5
<1>6. DOMAIN new = DOMAIN ch /\ DOMAIN ch = 1 .. Len(ch) /\ Len(ch) \in Nat
  BY <1>1
<1>7. \A s \in DOMAIN ch : new[s] \in ChunkInfos
  BY <1>4, <1>5 DEF ChunkInfos
<1>8. new \in Seq(ChunkInfos)
  <2>1. new = [s \in 1 .. Len(ch) |-> new[s]]
    BY <1>1, <1>6
  <2>2. new \in [1 .. Len(ch) -> ChunkInfos]
    BY <1>6, <1>7, <2>1
  <2> QED
    BY <1>6, <2>2
<1>9. SameChunks(ch, new)
  BY <1>4, <1>5, <1>6 DEF SameChunks
<1>10. \A s \in Alive(ch) : new[s].pending = Minus(ch[s].pending, n(s)) /\ new[s].used = Minus(ch[s].used, n(s))
                            /\ n(s) = Cardinality(Of(Queued(rq), s))
  BY <1>2, <1>5 DEF Alive
<1> QED
  BY <1>8, <1>9, <1>10 DEF new

\* processPendingReuses keeps the blocks together.
LEMMA BlocksReturned ==
    ASSUME NEW ch \in Seq(ChunkInfos), NEW st, NEW pq, NEW rq, NEW lv, Blocks(ch, st, pq, rq, lv)
    PROVE  Blocks(ChunksAfter(ch, rq), StacksAfter(st, rq), pq, << >>, lv)
<1> DEFINE P == Queued(pq)
           R == Queued(rq)
           L == SmallOf(lv)
           F == Stacked(st)
           ch2 == ChunksAfter(ch, rq)
           st2 == StacksAfter(st, rq)
<1>1. /\ IsQueue(pq) /\ IsQueue(rq) /\ P \cap R = {} /\ AreStacks(st)
      /\ Apart(P \cup R, L, F) /\ IsCut(ch, P \cup R \cup L \cup F) /\ AreCounted(ch, P \cup R, L)
  BY DEF Blocks
<1>2. AreStacks(st2) /\ Stacked(st2) = F \cup R
  <2>1. R \cap F = {}
    BY <1>1 DEF Apart
  <2> QED
    BY <1>1, <2>1, StacksReturned
<1>3. /\ ch2 \in Seq(ChunkInfos) /\ SameChunks(ch, ch2)
      /\ \A s \in Alive(ch) : /\ ch2[s].pending = Minus(ch[s].pending, Cardinality(Of(R, s)))
                              /\ ch2[s].used = Minus(ch[s].used, Cardinality(Of(R, s)))
  BY <1>1, ChunksReturned
<1>4. IsQueue(<< >>) /\ Queued(<< >>) = {}
  BY EmptyQueue
<1> HIDE DEF P, R, L, F, ch2, st2
<1>5. Alive(ch2) = Alive(ch) /\ IsCut(ch2, P \cup R \cup L \cup F)
  BY <1>1, <1>3, CutSame DEF SameChunks
<1>6. Apart(P, L, F \cup R)
  BY <1>1 DEF Apart
<1>7. AreCounted(ch2, P, L)
  <2> SUFFICES ASSUME NEW s \in Alive(ch)
               PROVE  /\ ch2[s].pending = Cardinality(Of(P, s))
                      /\ ch2[s].used = Cardinality(Of(P, s)) + Cardinality(Of(L, s))
    BY <1>5 DEF AreCounted
  <2> DEFINE p == Cardinality(Of(P, s))
             r == Cardinality(Of(R, s))
             l == Cardinality(Of(L, s))
  <2>1. /\ P \in SUBSET (P \cup R \cup L \cup F) /\ R \in SUBSET (P \cup R \cup L \cup F)
        /\ L \in SUBSET (P \cup R \cup L \cup F)
    OBVIOUS
  <2>2. IsFiniteSet(Of(P, s)) /\ IsFiniteSet(Of(R, s)) /\ p \in Nat /\ r \in Nat /\ l \in Nat
    BY <1>1, <2>1, PartFinite
  <2>3. Cardinality(Of(P \cup R, s)) = p + r
    BY <1>1, <2>2, OfUnion
  <2>4. ch[s].pending = p + r /\ ch[s].used = p + r + l
    BY <1>1, <2>3 DEF AreCounted
  <2> HIDE DEF p, r, l
  <2>5. Minus(p + r, r) = p /\ Minus(p + r + l, r) = p + l
    BY <2>2 DEF Minus
  <2> QED
    BY <1>3, <2>4, <2>5 DEF p, r, l
<1>8. P \cup {} = P /\ P \cap {} = {} /\ P \cup L \cup (F \cup R) = P \cup R \cup L \cup F
  OBVIOUS
<1> QED
  BY <1>1, <1>2, <1>4, <1>5, <1>6, <1>7, <1>8, Zenon DEF Blocks, P, R, L, F, ch2, st2

\* The tables after a drain.
LEMMA DrainFacts ==
    ASSUME IInv
    PROVE  /\ Drained.pending = stillPending
           /\ Drained.chunks \in Seq(ChunkInfos) /\ SameChunks(chunks, Drained.chunks)
           /\ Blocks(Drained.chunks, Drained.stacks, stillPending, << >>, live)
           /\ Queued(stillPending) = {b \in Queued(pending_queue) : RegionOf(b) \in busy}
<1>1. /\ Drained.pending = stillPending
      /\ Drained.stacks = StacksAfter(stacks, nowReady)
      /\ Drained.chunks = ChunksAfter(chunks, nowReady)
  BY DEF Drained, StacksAfter, ChunksAfter, ReturnedTo
<1>2. /\ IsQueue(pending_queue) /\ IsQueue(ready_queue)
      /\ Queued(pending_queue) \cap Queued(ready_queue) = {}
      /\ Blocks(chunks, stacks, pending_queue, ready_queue, live)
      /\ chunks \in Seq(ChunkInfos)
  BY DEF IInv, Blocks, Tables, IsTable
<1>3. /\ IsQueue(stillPending) /\ IsQueue(nowReady)
      /\ Queued(stillPending) \cap Queued(nowReady) = {}
      /\ Queued(stillPending) \cup Queued(nowReady) = Queued(pending_queue) \cup Queued(ready_queue)
      /\ Queued(stillPending) = {b \in Queued(pending_queue) : RegionOf(b) \in busy}
  BY <1>2, QueuesDrained
<1>4. Blocks(chunks, stacks, stillPending, nowReady, live)
  BY <1>2, <1>3, Zenon DEF Blocks
<1> QED
  BY <1>1, <1>2, <1>3, <1>4, BlocksReturned, ChunksReturned

-----------------------------------------------------------------------------
(* Stacks and tables.                                                      *)

\* The top of a stack.
LEMMA PopFacts ==
    ASSUME NEW X, NEW s \in Seq(X), s # << >>, IsInjective(s)
    PROVE  /\ Last(s) \in X /\ Last(s) \in ToSet(s)
           /\ Front(s) \in Seq(X) /\ IsInjective(Front(s))
           /\ ToSet(Front(s)) = ToSet(s) \ {Last(s)}
           /\ DOMAIN Front(s) \subseteq DOMAIN s /\ Len(s) \in DOMAIN s /\ Last(s) = s[Len(s)]
           /\ \A k \in DOMAIN Front(s) : Front(s)[k] = s[k] /\ k # Len(s)
<1> DEFINE n == Len(s)
           f == Front(s)
<1>1. n \in Nat /\ n # 0 /\ DOMAIN s = 1 .. n
  BY EmptySeq
<1>2. Last(s) = s[n] /\ n \in DOMAIN s
  BY <1>1 DEF Last
<1>3. f \in Seq(X) /\ Len(f) = n - 1 /\ \A k \in 1 .. n - 1 : f[k] = s[k]
  BY <1>1 DEF Front
<1> HIDE DEF n, f
<1>4. DOMAIN f = 1 .. (n - 1)
  BY <1>1, <1>3
<1>5. \A k \in DOMAIN f : k \in DOMAIN s /\ k # n /\ f[k] = s[k]
  BY <1>1, <1>3, <1>4
<1>6. \A k \in DOMAIN s : k # n => k \in DOMAIN f
  BY <1>1, <1>4
<1>7. \A j, k \in DOMAIN s : s[j] = s[k] => j = k
  BY DEF IsInjective
<1>8. IsInjective(f)
  <2>1. \A j, k \in DOMAIN f : f[j] = f[k] => j = k
    BY <1>5, <1>7
  <2> QED
    BY <2>1 DEF IsInjective
<1>9. ToSet(f) = ToSet(s) \ {Last(s)}
  <2>1. ASSUME NEW b \in ToSet(f) PROVE b \in ToSet(s) /\ b # Last(s)
    BY <1>2, <1>5, <1>7 DEF ToSet
  <2>2. ASSUME NEW b \in ToSet(s), b # Last(s) PROVE b \in ToSet(f)
    BY <1>2, <1>5, <1>6, <2>2 DEF ToSet
  <2> QED
    BY <2>1, <2>2
<1>10. Last(s) \in X /\ Last(s) \in ToSet(s)
  BY <1>2 DEF ToSet
<1> QED
  BY <1>2, <1>3, <1>5, <1>8, <1>9, <1>10 DEF n, f

\* A table with a row more, or another one, at slot.
StoredAt(t, t2, slot, x) ==
    /\ slot \in Nat /\ t2[slot] = x /\ DOMAIN t2 = DOMAIN t \cup {slot}
    /\ \A s \in DOMAIN t : s # slot => t2[s] = t[s]

\* A table and its free slots, after a reservation.
LEMMA TableStore ==
    ASSUME NEW t, NEW freed, NEW rows, NEW none, IsTable(t, freed, rows, none), NEW x \in rows
    PROVE  LET slot == reserveSlot(t, freed) t2 == stored(t, slot, x) IN
           /\ IsTable(t2, withoutSlot(freed), rows, none)
           /\ slot \in DOMAIN t => t[slot] = none
           /\ StoredAt(t, t2, slot, x)
<1> DEFINE slot == reserveSlot(t, freed)
           t2 == stored(t, slot, x)
           rest == withoutSlot(freed)
           n == Len(t)
<1>1. /\ t \in Seq(rows) /\ freed \in Seq(DOMAIN t) /\ IsInjective(freed)
      /\ \A k \in DOMAIN freed : t[freed[k]] = none
  BY DEF IsTable
<1>2. n \in Nat /\ DOMAIN t = 1 .. n
  BY <1>1
<1>3. CASE freed = << >>
  <2>1. slot = n + 1 /\ rest = << >>
    BY <1>3 DEF reserveSlot, withoutSlot
  <2>2. t2 = Append(t, x)
    <3> HIDE DEF slot
    <3>1. slot > Len(t)
      BY <1>2, <2>1
    <3> QED
      BY <3>1 DEF stored
  <2> HIDE DEF slot, t2, rest
  <2>3. t2 \in Seq(rows) /\ Len(t2) = n + 1 /\ t2[n + 1] = x /\ \A k \in 1 .. n : t2[k] = t[k]
    BY <1>1, <2>2, AppendProperties
  <2> HIDE DEF n
  <2>4. DOMAIN t2 = 1 .. (n + 1) /\ 1 .. (n + 1) = 1 .. n \cup {n + 1} /\ n + 1 \notin 1 .. n
    BY <1>2, <2>3
  <2>5. rest \in Seq(DOMAIN t2) /\ IsInjective(rest) /\ DOMAIN rest = {}
    BY <2>1 DEF IsInjective
  <2>6. IsTable(t2, rest, rows, none)
    BY <2>3, <2>5 DEF IsTable
  <2>7. slot \in Nat /\ t2[slot] = x /\ DOMAIN t2 = DOMAIN t \cup {slot} /\ slot \notin DOMAIN t
        /\ \A s \in DOMAIN t : s # slot => t2[s] = t[s]
    BY <1>2, <2>1, <2>3, <2>4
  <2> QED
    BY <2>6, <2>7 DEF slot, t2, rest, StoredAt
<1>4. CASE freed # << >>
  <2>1. slot = Last(freed) /\ rest = Front(freed)
    BY <1>4 DEF reserveSlot, withoutSlot
  <2>2. /\ Last(freed) \in DOMAIN t
        /\ Front(freed) \in Seq(DOMAIN t) /\ IsInjective(Front(freed))
        /\ ToSet(Front(freed)) = ToSet(freed) \ {Last(freed)}
    BY <1>1, <1>4, PopFacts
  <2>3. Last(freed) \in ToSet(freed) /\ \A s \in ToSet(freed) : t[s] = none
    <3>1. Last(freed) \in ToSet(freed)
      BY <1>1, <1>4, PopFacts
    <3> QED
      BY <1>1, <3>1 DEF ToSet
  <2>4. slot \in 1 .. n /\ t[slot] = none
    BY <1>2, <2>1, <2>2, <2>3
  <2>5. t2 = [t EXCEPT ![slot] = x]
    <3> HIDE DEF slot
    <3>1. ~(slot > Len(t))
      BY <1>2, <2>4
    <3> QED
      BY <3>1 DEF stored
  <2>6. \A k \in DOMAIN rest : rest[k] \in ToSet(freed) /\ rest[k] # slot
    BY <2>1, <2>2 DEF ToSet
  <2>7. rest \in Seq(DOMAIN t) /\ IsInjective(rest)
    BY <2>1, <2>2
  <2> HIDE DEF slot, t2, rest
  <2>8. /\ t2 \in Seq(rows) /\ DOMAIN t2 = DOMAIN t /\ t2[slot] = x
        /\ \A s \in DOMAIN t : s # slot => t2[s] = t[s]
    BY <1>1, <1>2, <2>4, <2>5
  <2>9. \A k \in DOMAIN rest : rest[k] \in DOMAIN t /\ t2[rest[k]] = none
    BY <2>3, <2>6, <2>7, <2>8
  <2>10. IsTable(t2, rest, rows, none)
    BY <2>7, <2>8, <2>9 DEF IsTable
  <2>11. slot \in Nat /\ slot \in DOMAIN t /\ DOMAIN t2 = DOMAIN t \cup {slot}
    BY <1>2, <2>4, <2>8
  <2> QED
    BY <2>4, <2>8, <2>10, <2>11 DEF slot, t2, rest, StoredAt
<1> QED
  BY <1>3, <1>4

\* A table that changes only in rows that are not free.
LEMMA TableSame ==
    ASSUME NEW ch, NEW freed, IsTable(ch, freed, ChunkInfos, NoChunk),
           NEW ch2 \in Seq(ChunkInfos), SameChunks(ch, ch2)
    PROVE  IsTable(ch2, freed, ChunkInfos, NoChunk) /\ Alive(ch2) = Alive(ch)
           /\ Len(ch2) = Len(ch) /\ reserveSlot(ch2, freed) = reserveSlot(ch, freed)
<1>1. /\ freed \in Seq(DOMAIN ch) /\ IsInjective(freed) /\ ch \in Seq(ChunkInfos)
      /\ \A k \in DOMAIN freed : freed[k] \in DOMAIN ch /\ ch[freed[k]] = NoChunk
  BY DEF IsTable
<1>2. DOMAIN ch2 = DOMAIN ch /\ \A s \in DOMAIN ch : ch[s] = NoChunk => ch2[s] = NoChunk
  BY DEF SameChunks, NoChunk
<1>3. Alive(ch2) = Alive(ch)
  BY DEF SameChunks, Alive
<1>4. Len(ch2) = Len(ch)
  BY <1>1, <1>2
<1>5. IsTable(ch2, freed, ChunkInfos, NoChunk)
  BY <1>1, <1>2, Zenon DEF IsTable
<1> QED
  BY <1>3, <1>4, <1>5 DEF reserveSlot

\* The memory behind a chunk table does not depend on the counters.
LEMMA BackedSame ==
    ASSUME NEW ch, NEW en, NEW bk, AreBacked(ch, en, bk), NEW ch2, SameChunks(ch, ch2)
    PROVE  AreBacked(ch2, en, bk)
<1>1. Alive(ch2) = Alive(ch) /\ \A s \in Alive(ch) : ch2[s].base = ch[s].base
  BY DEF SameChunks, Alive
<1>2. {ch2[s].base : s \in Alive(ch)} = {ch[s].base : s \in Alive(ch)}
  BY <1>1
<1> HIDE DEF Alive
<1> QED
  BY <1>1, <1>2 DEF AreBacked

\* A block more in a set.
LEMMA OfAdd ==
    ASSUME NEW S, NEW b, b \notin S, NEW s, IsFiniteSet(Of(S, s))
    PROVE  /\ IsFiniteSet(Of(S \cup {b}, s)) /\ Cardinality(Of(S, s)) \in Nat
           /\ b.slot = s => Cardinality(Of(S \cup {b}, s)) = Cardinality(Of(S, s)) + 1
           /\ b.slot # s => Cardinality(Of(S \cup {b}, s)) = Cardinality(Of(S, s))
<1>1. Cardinality(Of(S, s)) \in Nat
  BY FS_CardinalityType
<1>2. CASE b.slot = s
  <2>1. Of(S \cup {b}, s) = Of(S, s) \cup {b} /\ b \notin Of(S, s)
    BY <1>2 DEF Of
  <2>2. /\ IsFiniteSet(Of(S, s) \cup {b})
        /\ Cardinality(Of(S, s) \cup {b}) = Cardinality(Of(S, s)) + 1
    BY <2>1, FS_AddElement
  <2> QED
    BY <1>1, <1>2, <2>1, <2>2, Zenon
<1>3. CASE b.slot # s
  <2>1. Of(S \cup {b}, s) = Of(S, s)
    BY <1>3 DEF Of
  <2> QED
    BY <1>1, <1>3, <2>1
<1> QED
  BY <1>2, <1>3

\* One block moves from the stack of its class to a client.
LEMMA TakeBlock ==
    ASSUME NEW ch \in Seq(ChunkInfos), NEW st, NEW pq, NEW lv, Blocks(ch, st, pq, << >>, lv),
           NEW i \in Class, st[i] # << >>, NEW size, size <= MaxBlock
    PROVE  LET b == Last(st[i]) ch2 == incrementUsed(ch, b.slot) IN
           /\ Blocks(ch2, [st EXCEPT ![i] = Front(@)], pq, << >>,
                     lv \cup {[block |-> b, size |-> size]})
           /\ b \in ChunkBlocks /\ b.slot \in Alive(ch) /\ b.size = sizeClassToBlockSize(i)
           /\ b \notin SmallOf(lv) \cup Queued(pq)
           /\ ch2 \in Seq(ChunkInfos) /\ SameChunks(ch, ch2)
<1> DEFINE P == Queued(pq)
           L == SmallOf(lv)
           F == Stacked(st)
           b == Last(st[i])
           ch2 == incrementUsed(ch, b.slot)
           st2 == [st EXCEPT ![i] = Front(st[i])]
           lv2 == lv \cup {[block |-> b, size |-> size]}
<1>1. /\ IsQueue(pq) /\ IsQueue(<< >>) /\ AreStacks(st)
      /\ Apart(P, L, F) /\ IsCut(ch, P \cup L \cup F) /\ AreCounted(ch, P, L)
  <2>1. Queued(<< >>) = {} /\ P \cup {} = P
    BY EmptyQueue
  <2> QED
    BY <2>1, Zenon DEF Blocks
<1>2. /\ st \in [Class -> Seq(ChunkBlocks)]
      /\ \A j \in Class : st[j] \in Seq(ChunkBlocks) /\ IsInjective(st[j])
      /\ \A j \in Class : \A k \in DOMAIN st[j] : st[j][k].size = sizeClassToBlockSize(j)
  BY <1>1 DEF AreStacks
<1>3. /\ b \in ChunkBlocks /\ b \in ToSet(st[i])
      /\ Front(st[i]) \in Seq(ChunkBlocks) /\ IsInjective(Front(st[i]))
      /\ ToSet(Front(st[i])) = ToSet(st[i]) \ {b}
  BY <1>2, PopFacts
<1>4. \A k \in DOMAIN Front(st[i]) : k \in DOMAIN st[i] /\ Front(st[i])[k] = st[i][k]
  BY <1>2, PopFacts
<1>5. \A j \in Class : \A x \in ToSet(st[j]) : x.size = sizeClassToBlockSize(j)
  BY <1>2 DEF ToSet
<1> HIDE DEF P, L, F, b
<1>6. /\ st2 \in [Class -> Seq(ChunkBlocks)] /\ st2[i] = Front(st[i])
      /\ \A j \in Class : j # i => st2[j] = st[j]
  BY <1>2, <1>3
<1> HIDE DEF st2
<1>7. AreStacks(st2)
  <2>1. ASSUME NEW j \in Class
        PROVE  IsInjective(st2[j]) /\ \A k \in DOMAIN st2[j] : st2[j][k].size = sizeClassToBlockSize(j)
    <3>1. CASE j = i
      BY <1>2, <1>3, <1>4, <1>6, <3>1
    <3>2. CASE j # i
      BY <1>2, <1>6, <3>2
    <3> QED
      BY <3>1, <3>2
  <2> QED
    BY <1>6, <2>1 DEF AreStacks
<1>8. Stacked(st2) = F \ {b}
  <2>1. ASSUME NEW j \in Class, j # i PROVE b \notin ToSet(st[j])
    <3>1. sizeClassToBlockSize(i) # sizeClassToBlockSize(j)
      BY <2>1, ClassSizes
    <3> HIDE DEF sizeClassToBlockSize
    <3> QED
      BY <1>3, <1>5, <3>1
  <2>2. ASSUME NEW x \in Stacked(st2) PROVE x \in F /\ x # b
    <3>1. PICK j \in Class : x \in ToSet(st2[j])
      BY DEF Stacked
    <3>2. x \in ToSet(st[j]) /\ x # b
      BY <1>3, <1>6, <2>1, <3>1
    <3> QED
      BY <3>2 DEF Stacked, F
  <2>3. ASSUME NEW x \in F, x # b PROVE x \in Stacked(st2)
    <3>1. PICK j \in Class : x \in ToSet(st[j])
      BY DEF Stacked, F
    <3>2. x \in ToSet(st2[j])
      BY <1>3, <1>6, <2>3, <3>1
    <3> QED
      BY <3>2 DEF Stacked
  <2> QED
    BY <2>2, <2>3
<1>9. b \in F
  BY <1>3 DEF Stacked, F
<1>10. SmallOf(lv2) = L \cup {b}
  <2> DEFINE o == [block |-> b, size |-> size]
  <2>1. o.block = b /\ o.size <= MaxBlock
    OBVIOUS
  <2> HIDE DEF o
  <2>2. ASSUME NEW x \in SmallOf(lv2) PROVE x \in L \cup {b}
    <3>1. PICK p \in lv2 : p.size <= MaxBlock /\ x = p.block
      BY DEF SmallOf
    <3>2. p \in lv \/ p = o
      BY DEF o
    <3> QED
      BY <2>1, <3>1, <3>2 DEF SmallOf, L
  <2>3. L \subseteq SmallOf(lv2)
    BY DEF SmallOf, L
  <2>4. b \in SmallOf(lv2)
    <3>1. o \in lv2
      BY DEF o
    <3> QED
      BY <2>1, <3>1 DEF SmallOf
  <2> QED
    BY <2>2, <2>3, <2>4
<1> HIDE DEF lv2
<1>11. b.slot \in Alive(ch) /\ b \notin L \cup P
  BY <1>1, <1>9 DEF IsCut, Apart
<1>12. /\ ch2 \in Seq(ChunkInfos) /\ SameChunks(ch, ch2)
       /\ ch2[b.slot].used = ch[b.slot].used + 1
       /\ \A s \in Alive(ch) : ch2[s].pending = ch[s].pending /\ (s # b.slot => ch2[s] = ch[s])
  <2>1. b.slot \in DOMAIN ch /\ ch[b.slot].alive
    BY <1>11 DEF Alive
  <2>2. /\ ch[b.slot] \in [base : Base, size : Nat, used : Nat, pending : Nat, alive : {TRUE}]
        /\ ch[b.slot].used \in Nat
    BY <2>1, ChunkRows
  <2> DEFINE r == [ch[b.slot] EXCEPT !.used = ch[b.slot].used + 1]
  <2>3. ch2 = [ch EXCEPT ![b.slot] = r]
    BY <2>1 DEF incrementUsed
  <2>4. /\ r \in [base : Base, size : Nat, used : Nat, pending : Nat, alive : {TRUE}]
        /\ r.used = ch[b.slot].used + 1 /\ r.pending = ch[b.slot].pending
        /\ r.alive = ch[b.slot].alive /\ r.base = ch[b.slot].base /\ r.size = ch[b.slot].size
    <3> DEFINE c == ch[b.slot]
    <3> HIDE DEF c
    <3>0. c \in [base : Base, size : Nat, used : Nat, pending : Nat, alive : {TRUE}] /\ c.used \in Nat
      BY <2>2, Zenon DEF c
    <3>1. c.used + 1 \in Nat
      <4>1. \A u \in Nat : u + 1 \in Nat
        OBVIOUS
      <4> QED
        BY <3>0, <4>1, Zenon
    <3>2. r = [c EXCEPT !.used = c.used + 1]
      BY DEF c
    <3> HIDE DEF r
    <3>3. /\ r \in [base : Base, size : Nat, used : Nat, pending : Nat, alive : {TRUE}]
          /\ r.used = c.used + 1 /\ r.pending = c.pending
          /\ r.alive = c.alive /\ r.base = c.base /\ r.size = c.size
      BY <3>0, <3>1, <3>2
    <3> QED
      BY <3>3 DEF c
  <2>5. r \in ChunkInfos
    BY <2>4 DEF ChunkInfos
  <2> HIDE DEF r, ch2
  <2>6. ch2 \in Seq(ChunkInfos) /\ DOMAIN ch2 = DOMAIN ch /\ ch2[b.slot] = r
        /\ \A s \in DOMAIN ch : s # b.slot => ch2[s] = ch[s]
    BY <2>1, <2>3, <2>5
  <2>7. SameChunks(ch, ch2)
    BY <2>1, <2>4, <2>6 DEF SameChunks
  <2> QED
    BY <2>4, <2>6, <2>7 DEF Alive
<1> HIDE DEF ch2
<1>13. Alive(ch2) = Alive(ch) /\ IsCut(ch2, P \cup L \cup F)
  BY <1>1, <1>12, CutSame DEF SameChunks
<1>14. AreCounted(ch2, P, L \cup {b})
  <2> SUFFICES ASSUME NEW s \in Alive(ch)
               PROVE  /\ ch2[s].pending = Cardinality(Of(P, s))
                      /\ ch2[s].used = Cardinality(Of(P, s)) + Cardinality(Of(L \cup {b}, s))
    BY <1>13 DEF AreCounted
  <2> DEFINE p == Cardinality(Of(P, s))
             l == Cardinality(Of(L, s))
  <2>1. P \in SUBSET (P \cup L \cup F) /\ L \in SUBSET (P \cup L \cup F)
    OBVIOUS
  <2>2. IsFiniteSet(Of(L, s)) /\ p \in Nat /\ l \in Nat
    BY <1>1, <2>1, PartFinite
  <2>3. /\ b.slot = s => Cardinality(Of(L \cup {b}, s)) = l + 1
        /\ b.slot # s => Cardinality(Of(L \cup {b}, s)) = l
    BY <1>11, <2>2, OfAdd
  <2>4. ch[s].pending = p /\ ch[s].used = p + l
    BY <1>1 DEF AreCounted
  <2> HIDE DEF p, l
  <2>5. CASE b.slot = s
    <3>1. (p + l) + 1 = p + (l + 1)
      BY <2>2
    <3>2. ch2[s].used = (p + l) + 1 /\ ch2[s].pending = p
      BY <1>12, <2>4, <2>5
    <3> QED
      BY <2>3, <2>5, <3>1, <3>2 DEF p
  <2>6. CASE b.slot # s
    BY <1>12, <2>3, <2>4, <2>6 DEF p
  <2> QED
    BY <2>5, <2>6
<1>15. Apart(P, L \cup {b}, F \ {b})
  BY <1>1, <1>11 DEF Apart
<1>16. P \cup {} = P /\ P \cap {} = {} /\ P \cup (L \cup {b}) \cup (F \ {b}) = P \cup L \cup F
  BY <1>9
<1>17. Blocks(ch2, st2, pq, << >>, lv2)
  <2>1. Queued(<< >>) = {}
    BY EmptyQueue
  <2> QED
    BY <1>1, <1>7, <1>8, <1>10, <1>13, <1>14, <1>15, <1>16, <2>1, Zenon DEF Blocks, P
<1> QED
  BY <1>3, <1>5, <1>11, <1>12, <1>17 DEF b, ch2, st2, lv2, L, P

-----------------------------------------------------------------------------
(* A new chunk.                                                            *)

\* A chunk has at least one block and at least ChunkSize bytes.
LEMMA CountFacts ==
    ASSUME NEW size \in Sizes
    PROVE  /\ blockCount(size) \in Nat \ {0}
           /\ blockCount(size) * size \in Nat /\ blockCount(size) * size >= ChunkSize
           /\ (blockCount(size) * size) \div size = blockCount(size)
           /\ (blockCount(size) * size) % size = 0
<1>1. ChunkSize \in Nat \ {0} /\ size \in Nat \ {0}
  BY SizesAssumption DEF Sizes
<1> DEFINE n == blockCount(size)
<1>2. n = (ChunkSize + size - 1) \div size
  BY DEF blockCount
<1> HIDE DEF n
<1>3. n \in Nat /\ n * size >= ChunkSize
  BY <1>1, <1>2
<1>4. n # 0
  BY <1>1, <1>3
<1>5. n * size \in Nat /\ (n * size) \div size = n
  BY <1>1, <1>3
<1>6. (n * size) % size = 0
  BY <1>1, <1>3
<1> QED
  BY <1>3, <1>4, <1>5, <1>6 DEF n

\* The blocks a chunk is cut into are different ones.
LEMMA CutFacts ==
    ASSUME NEW slot \in Nat, NEW base \in Base, NEW size \in Sizes
    PROVE  LET cut == CutBlocks(slot, base, blockCount(size), size) IN
           /\ cut \in Seq(ChunkBlocks) /\ cut # << >> /\ IsInjective(cut)
           /\ ToSet(cut) = Cut(slot, base, size)
           /\ \A k \in DOMAIN cut : cut[k].size = size /\ cut[k].slot = slot
           /\ Last(cut).slot = slot
<1> DEFINE n == blockCount(size)
           cut == CutBlocks(slot, base, n, size)
<1>1. n \in Nat \ {0} /\ size \in Nat \ {0}
  BY CountFacts DEF Sizes
<1> HIDE DEF n
<1>2. cut = [k \in 1 .. n |-> ChunkBlock(slot, base, (k - 1) * size, size)]
  BY DEF CutBlocks
<1> HIDE DEF cut
<1>3. \A k \in 1 .. n : (k - 1) * size \in Nat
  BY <1>1
<1>4. ASSUME NEW k \in 1 .. n
      PROVE  /\ cut[k] = ChunkBlock(slot, base, (k - 1) * size, size)
             /\ cut[k] \in ChunkBlocks /\ cut[k].offset = (k - 1) * size
             /\ cut[k].slot = slot /\ cut[k].size = size
  <2> DEFINE m == (k - 1) * size
  <2>1. m \in Nat /\ cut[k] = ChunkBlock(slot, base, m, size)
    BY <1>2, <1>3
  <2> HIDE DEF m
  <2>2. /\ cut[k] \in ChunkBlocks /\ cut[k].offset = m /\ cut[k].slot = slot /\ cut[k].size = size
    BY <2>1 DEF ChunkBlock, ChunkBlocks
  <2> QED
    BY <2>1, <2>2 DEF m
<1>5. cut \in [1 .. n -> ChunkBlocks]
  <2>1. \A k \in 1 .. n : cut[k] \in ChunkBlocks
    BY <1>4
  <2>2. cut = [k \in 1 .. n |-> cut[k]]
    BY <1>2
  <2> QED
    BY <2>1, <2>2
<1>6. cut \in Seq(ChunkBlocks) /\ Len(cut) = n /\ DOMAIN cut = 1 .. n
  BY <1>1, <1>5
<1>7. cut # << >>
  BY <1>1, <1>6
<1>8. IsInjective(cut)
  <2>1. ASSUME NEW j \in 1 .. n, NEW k \in 1 .. n, (j - 1) * size = (k - 1) * size PROVE j = k
    BY <1>1, <2>1
  <2>2. \A j, k \in 1 .. n : cut[j] = cut[k] => j = k
    BY <1>4, <2>1
  <2> QED
    BY <1>6, <2>2 DEF IsInjective
<1>9. ToSet(cut) = Cut(slot, base, size)
  <2>1. Cut(slot, base, size) = {ChunkBlock(slot, base, k * size, size) : k \in 0 .. n - 1}
    BY DEF Cut, n
  <2>2. ASSUME NEW k \in 1 .. n PROVE cut[k] \in Cut(slot, base, size)
    <3>1. k - 1 \in 0 .. n - 1
      BY <1>1
    <3> QED
      BY <1>4, <2>1, <3>1
  <2>3. ASSUME NEW k \in 0 .. n - 1 PROVE ChunkBlock(slot, base, k * size, size) \in ToSet(cut)
    <3>1. k + 1 \in 1 .. n /\ (k + 1) - 1 = k
      BY <1>1
    <3>2. cut[k + 1] = ChunkBlock(slot, base, k * size, size)
      BY <1>4, <3>1
    <3> QED
      BY <1>6, <3>1, <3>2 DEF ToSet
  <2> QED
    BY <1>6, <2>1, <2>2, <2>3 DEF ToSet
<1>10. Last(cut).slot = slot
  <2>1. Last(cut) = cut[n] /\ n \in 1 .. n
    BY <1>1, <1>6 DEF Last
  <2> QED
    BY <1>4, <2>1
<1> QED
  BY <1>4, <1>6, <1>7, <1>8, <1>9, <1>10 DEF cut, n

\* The pool is expanded by a chunk whose blocks are all free.
LEMMA AddChunk ==
    ASSUME NEW ch \in Seq(ChunkInfos), NEW st, NEW pq, NEW lv, Blocks(ch, st, pq, << >>, lv),
           NEW i \in Class, st[i] = << >>,
           NEW slot \in Nat, slot \notin Alive(ch), NEW base \in Base,
           NEW ch2, DOMAIN ch2 = DOMAIN ch \cup {slot},
           ch2[slot] = ExpandedChunk(base, blockCount(sizeClassToBlockSize(i)), sizeClassToBlockSize(i)),
           \A s \in DOMAIN ch : s # slot => ch2[s] = ch[s]
    PROVE  LET size == sizeClassToBlockSize(i)
               cut == CutBlocks(slot, base, blockCount(size), size) IN
           Blocks(ch2, [st EXCEPT ![i] = cut], pq, << >>, lv)
<1> DEFINE P == Queued(pq)
           L == SmallOf(lv)
           F == Stacked(st)
           size == sizeClassToBlockSize(i)
           n == blockCount(size)
           cut == CutBlocks(slot, base, n, size)
           C == Cut(slot, base, size)
           st2 == [st EXCEPT ![i] = cut]
<1>1. /\ IsQueue(pq) /\ IsQueue(<< >>) /\ AreStacks(st)
      /\ Apart(P, L, F) /\ IsCut(ch, P \cup L \cup F) /\ AreCounted(ch, P, L)
  <2>1. Queued(<< >>) = {} /\ P \cup {} = P
    BY EmptyQueue
  <2> QED
    BY <2>1, Zenon DEF Blocks
<1>2. /\ st \in [Class -> Seq(ChunkBlocks)]
      /\ \A j \in Class : st[j] \in Seq(ChunkBlocks) /\ IsInjective(st[j])
      /\ \A j \in Class : \A k \in DOMAIN st[j] : st[j][k].size = sizeClassToBlockSize(j)
  BY <1>1 DEF AreStacks
<1>3. size \in Sizes /\ size \in BlockSize
  BY ClassSizes DEF BlockSize
<1> HIDE DEF size
<1>4. /\ cut \in Seq(ChunkBlocks) /\ IsInjective(cut) /\ ToSet(cut) = C
      /\ \A k \in DOMAIN cut : cut[k].size = size /\ cut[k].slot = slot
  BY <1>3, CutFacts
<1>5. \A x \in C : x \in ChunkBlocks /\ x.slot = slot
  BY <1>4 DEF ToSet
<1>6. Alive(ch2) = Alive(ch) \cup {slot}
  <2>1. ch2[slot].alive
    BY DEF ExpandedChunk
  <2> QED
    BY <2>1 DEF Alive
<1>7. ch2[slot].base = base /\ ch2[slot].size = n * size /\ ch2[slot].used = 0 /\ ch2[slot].pending = 0
  BY DEF ExpandedChunk, size
<1>8. \A s \in Alive(ch) : s # slot /\ ch2[s] = ch[s]
  BY DEF Alive
<1> HIDE DEF P, L, F, C, n, cut
<1>9. /\ st2 \in [Class -> Seq(ChunkBlocks)] /\ st2[i] = cut
      /\ \A j \in Class : j # i => st2[j] = st[j]
  BY <1>2, <1>4
<1> HIDE DEF st2
<1>10. AreStacks(st2)
  <2>1. ASSUME NEW j \in Class
        PROVE  IsInjective(st2[j]) /\ \A k \in DOMAIN st2[j] : st2[j][k].size = sizeClassToBlockSize(j)
    <3>1. CASE j = i
      BY <1>4, <1>9, <3>1 DEF size
    <3>2. CASE j # i
      BY <1>2, <1>9, <3>2
    <3> QED
      BY <3>1, <3>2
  <2> QED
    BY <1>9, <2>1 DEF AreStacks
<1>11. Stacked(st2) = F \cup C
  <2>1. ToSet(st[i]) = {}
    BY DEF ToSet
  <2>2. ASSUME NEW x \in Stacked(st2) PROVE x \in F \cup C
    <3>1. PICK j \in Class : x \in ToSet(st2[j])
      BY DEF Stacked
    <3>2. CASE j = i
      BY <1>4, <1>9, <3>1, <3>2
    <3>3. CASE j # i
      BY <1>9, <3>1, <3>3 DEF Stacked, F
    <3> QED
      BY <3>2, <3>3
  <2>3. ASSUME NEW x \in F PROVE x \in Stacked(st2)
    <3>1. PICK j \in Class : x \in ToSet(st[j])
      BY DEF Stacked, F
    <3>2. j # i
      BY <2>1, <3>1
    <3>3. x \in ToSet(st2[j])
      BY <1>9, <3>1, <3>2
    <3> QED
      BY <3>3 DEF Stacked
  <2>4. C \subseteq Stacked(st2)
    <3>1. C = ToSet(st2[i])
      BY <1>4, <1>9
    <3> QED
      BY <3>1 DEF Stacked
  <2> QED
    BY <2>2, <2>3, <2>4
<1>12. \A x \in P \cup L \cup F : x \in ChunkBlocks /\ x.slot \in Alive(ch) /\ x.slot # slot
  BY <1>1 DEF IsCut
<1>13. Apart(P, L, F \cup C)
  <2>1. C \cap (P \cup L) = {}
    BY <1>5, <1>12
  <2> QED
    BY <1>1, <2>1 DEF Apart
<1>14. IsCut(ch2, P \cup L \cup (F \cup C))
  <2> DEFINE all == P \cup L \cup F
             all2 == P \cup L \cup (F \cup C)
  <2>1. \A x \in all2 : x \in ChunkBlocks /\ x.slot \in Alive(ch2)
    BY <1>5, <1>6, <1>12
  <2>2. ASSUME NEW s \in Alive(ch)
        PROVE  \E z \in BlockSize : ch2[s].size = blockCount(z) * z /\ Of(all2, s) = Cut(s, ch2[s].base, z)
    <3>1. Of(all2, s) = Of(all, s)
      BY <1>5, <1>8 DEF Of
    <3>2. ch2[s] = ch[s]
      BY <1>8
    <3>3. \E z \in BlockSize : ch[s].size = blockCount(z) * z /\ Of(all, s) = Cut(s, ch[s].base, z)
      BY <1>1 DEF IsCut
    <3> QED
      BY <3>1, <3>2, <3>3, Zenon
  <2>3. Of(all2, slot) = C
    BY <1>5, <1>12 DEF Of
  <2>4. \E z \in BlockSize : ch2[slot].size = blockCount(z) * z /\ Of(all2, slot) = Cut(slot, ch2[slot].base, z)
    BY <1>3, <1>7, <2>3, Zenon DEF C, n
  <2>5. \A s \in Alive(ch2) : \E z \in BlockSize : ch2[s].size = blockCount(z) * z /\ Of(all2, s) = Cut(s, ch2[s].base, z)
    <3> HIDE DEF all2
    <3> QED
      BY <1>6, <2>2, <2>4
  <2> QED
    BY <2>1, <2>5 DEF IsCut
<1>15. AreCounted(ch2, P, L)
  <2>1. Of(P, slot) = {} /\ Of(L, slot) = {}
    BY <1>12 DEF Of
  <2>2. Cardinality({}) = 0
    BY FS_EmptySet
  <2>3. ch2[slot].pending = Cardinality(Of(P, slot)) /\ ch2[slot].used = Cardinality(Of(P, slot)) + Cardinality(Of(L, slot))
    BY <1>7, <2>1, <2>2
  <2>4. \A s \in Alive(ch) : /\ ch2[s].pending = Cardinality(Of(P, s))
                             /\ ch2[s].used = Cardinality(Of(P, s)) + Cardinality(Of(L, s))
    BY <1>1, <1>8 DEF AreCounted
  <2> QED
    BY <1>6, <2>3, <2>4 DEF AreCounted
<1>16. Blocks(ch2, st2, pq, << >>, lv)
  <2>1. Queued(<< >>) = {} /\ P \cup {} = P /\ P \cap {} = {}
    BY EmptyQueue
  <2> QED
    BY <1>1, <1>10, <1>11, <1>13, <1>14, <1>15, <2>1, Zenon DEF Blocks, P, L
<1> QED
  BY <1>16 DEF st2, cut, n, size

-----------------------------------------------------------------------------
(* Deallocation.                                                           *)

\* An item put at the end of a queue.
LEMMA AppendQueue ==
    ASSUME NEW q, IsQueue(q), NEW m \in Items, m.block \notin Queued(q)
    PROVE  IsQueue(Append(q, m)) /\ Queued(Append(q, m)) = Queued(q) \cup {m.block}
<1> DEFINE r == Append(q, m)
           n == Len(q)
<1>1. q \in Seq(Items) /\ \A j, k \in DOMAIN q : q[j].block = q[k].block => j = k
  BY DEF IsQueue
<1>2. n \in Nat /\ DOMAIN q = 1 .. n
  BY <1>1
<1>3. r \in Seq(Items) /\ Len(r) = n + 1 /\ r[n + 1] = m /\ \A k \in 1 .. n : r[k] = q[k]
  BY <1>1, AppendProperties
<1> HIDE DEF r, n
<1>4. DOMAIN r = 1 .. n \cup {n + 1}
  BY <1>2, <1>3
<1>5. \A k \in 1 .. n : r[k].block \in Queued(q)
  BY <1>2, <1>3 DEF Queued
<1>6. \A j, k \in DOMAIN r : r[j].block = r[k].block => j = k
  BY <1>1, <1>2, <1>3, <1>4, <1>5
<1>7. Queued(r) = Queued(q) \cup {m.block}
  <2>1. ASSUME NEW b \in Queued(r) PROVE b \in Queued(q) \cup {m.block}
    BY <1>3, <1>4, <1>5 DEF Queued
  <2>2. ASSUME NEW b \in Queued(q) PROVE b \in Queued(r)
    BY <1>2, <1>3, <1>4 DEF Queued
  <2>3. m.block \in Queued(r)
    BY <1>3, <1>4 DEF Queued
  <2> QED
    BY <2>1, <2>2, <2>3
<1> QED
  BY <1>3, <1>6, <1>7 DEF IsQueue, r

\* A queue with a block more.
OneMore(q, q2, b) == Queued(q2) = Queued(q) \cup {b}

\* A client's block is put in the pending queue.
LEMMA ScheduleBlock ==
    ASSUME NEW ch \in Seq(ChunkInfos), NEW st, NEW pq, NEW rq, NEW lv, NEW en,
           Blocks(ch, st, pq, rq, lv), AreHeld(lv, en), NEW o \in lv, o.size <= MaxBlock
    PROVE  LET m == [block |-> o.block, freelist_index |-> freeIndex(o.size)]
               ch2 == incrementPending(ch, o.block.slot) IN
           /\ Blocks(ch2, st, Append(pq, m), rq, lv \ {o})
           /\ ch2 \in Seq(ChunkInfos) /\ SameChunks(ch, ch2)
           /\ OneMore(pq, Append(pq, m), o.block)
<1> DEFINE P == Queued(pq)
           R == Queued(rq)
           L == SmallOf(lv)
           F == Stacked(st)
           b == o.block
           m == [block |-> b, freelist_index |-> freeIndex(o.size)]
           pq2 == Append(pq, m)
           ch2 == incrementPending(ch, b.slot)
<1>1. /\ IsQueue(pq) /\ IsQueue(rq) /\ P \cap R = {} /\ AreStacks(st)
      /\ Apart(P \cup R, L, F) /\ IsCut(ch, P \cup R \cup L \cup F) /\ AreCounted(ch, P \cup R, L)
  BY DEF Blocks
<1>2. o.size \in Request /\ b \in ChunkBlocks /\ b.size = blockSizeFor(o.size)
  BY DEF AreHeld
<1>3. m \in Items
  <2>1. freeIndex(o.size) \in Class /\ blockSizeFor(o.size) = sizeClassToBlockSize(freeIndex(o.size))
    BY <1>2, RequestClass
  <2>2. m.block = b /\ m.freelist_index = freeIndex(o.size) /\ m \in [block : ChunkBlocks, freelist_index : Class]
    BY <1>2, <2>1
  <2> HIDE DEF m
  <2> QED
    BY <1>2, <2>1, <2>2 DEF Items
<1>4. b \in L
  BY DEF SmallOf
<1>5. SmallOf(lv \ {o}) = L \ {b}
  <2>1. \A x \in lv : x.block = b => x = o
    BY DEF AreHeld
  <2>2. ASSUME NEW x \in SmallOf(lv \ {o}) PROVE x \in L /\ x # b
    BY <2>1 DEF SmallOf
  <2>3. ASSUME NEW x \in L, x # b PROVE x \in SmallOf(lv \ {o})
    BY <2>3 DEF SmallOf
  <2> QED
    BY <2>2, <2>3
<1>6. b \notin P /\ b \notin R
  BY <1>1, <1>4 DEF Apart
<1>7. IsQueue(pq2) /\ Queued(pq2) = P \cup {b}
  <2>1. m.block = b
    OBVIOUS
  <2> HIDE DEF m, b
  <2> QED
    BY <1>1, <1>3, <1>6, <2>1, AppendQueue
<1> HIDE DEF P, R, L, F, b, m, pq2
<1>8. b.slot \in Alive(ch)
  BY <1>1, <1>4 DEF IsCut
<1>9. /\ ch2 \in Seq(ChunkInfos) /\ SameChunks(ch, ch2)
      /\ ch2[b.slot].pending = ch[b.slot].pending + 1
      /\ \A s \in Alive(ch) : ch2[s].used = ch[s].used /\ (s # b.slot => ch2[s] = ch[s])
  <2>1. b.slot \in DOMAIN ch /\ ch[b.slot].alive
    BY <1>8 DEF Alive
  <2> DEFINE c == ch[b.slot]
             r == [c EXCEPT !.pending = c.pending + 1]
  <2>2. /\ c \in [base : Base, size : Nat, used : Nat, pending : Nat, alive : {TRUE}]
        /\ c.pending \in Nat
    BY <2>1, ChunkRows
  <2>3. ch2 = [ch EXCEPT ![b.slot] = r]
    BY <2>1 DEF incrementPending
  <2> HIDE DEF c
  <2>4. c.pending + 1 \in Nat
    <3>1. \A u \in Nat : u + 1 \in Nat
      OBVIOUS
    <3> QED
      BY <2>2, <3>1, Zenon
  <2>5. /\ r \in [base : Base, size : Nat, used : Nat, pending : Nat, alive : {TRUE}]
        /\ r.pending = c.pending + 1 /\ r.used = c.used
        /\ r.alive = c.alive /\ r.base = c.base /\ r.size = c.size
    BY <2>2, <2>4
  <2>6. r \in ChunkInfos
    BY <2>5 DEF ChunkInfos
  <2> HIDE DEF r, ch2
  <2>7. ch2 \in Seq(ChunkInfos) /\ DOMAIN ch2 = DOMAIN ch /\ ch2[b.slot] = r
        /\ \A s \in DOMAIN ch : s # b.slot => ch2[s] = ch[s]
    BY <2>1, <2>3, <2>6
  <2>8. SameChunks(ch, ch2)
    BY <2>1, <2>5, <2>7 DEF SameChunks, c
  <2> QED
    BY <2>5, <2>7, <2>8 DEF Alive, c
<1> HIDE DEF ch2
<1>10. Alive(ch2) = Alive(ch) /\ IsCut(ch2, P \cup R \cup L \cup F)
  BY <1>1, <1>9, CutSame DEF SameChunks
<1>11. (P \cup {b}) \cup R = (P \cup R) \cup {b}
  OBVIOUS
<1>12. AreCounted(ch2, (P \cup R) \cup {b}, L \ {b})
  <2> SUFFICES ASSUME NEW s \in Alive(ch)
               PROVE  /\ ch2[s].pending = Cardinality(Of((P \cup R) \cup {b}, s))
                      /\ ch2[s].used = Cardinality(Of((P \cup R) \cup {b}, s)) + Cardinality(Of(L \ {b}, s))
    BY <1>10 DEF AreCounted
  <2> DEFINE W == P \cup R
             M == L \ {b}
             w == Cardinality(Of(W, s))
             l == Cardinality(Of(M, s))
  <2>1. W \in SUBSET (P \cup R \cup L \cup F) /\ M \in SUBSET (P \cup R \cup L \cup F)
    OBVIOUS
  <2>2. IsFiniteSet(Of(W, s)) /\ IsFiniteSet(Of(M, s)) /\ w \in Nat /\ l \in Nat
    BY <1>1, <2>1, PartFinite
  <2>3. b \notin W /\ b \notin M /\ M \cup {b} = L
    BY <1>4, <1>6
  <2> HIDE DEF W, M
  <2>4. /\ b.slot = s => Cardinality(Of(W \cup {b}, s)) = w + 1
        /\ b.slot # s => Cardinality(Of(W \cup {b}, s)) = w
    BY <2>2, <2>3, OfAdd
  <2>5. /\ b.slot = s => Cardinality(Of(L, s)) = l + 1
        /\ b.slot # s => Cardinality(Of(L, s)) = l
    <3>1. /\ b.slot = s => Cardinality(Of(M \cup {b}, s)) = l + 1
          /\ b.slot # s => Cardinality(Of(M \cup {b}, s)) = l
      BY <2>2, <2>3, OfAdd
    <3> QED
      BY <2>3, <3>1, Zenon
  <2>6. ch[s].pending = w /\ ch[s].used = w + Cardinality(Of(L, s))
    BY <1>1 DEF AreCounted, W
  <2> HIDE DEF w, l
  <2>7. CASE b.slot = s
    <3>1. w + (l + 1) = (w + 1) + l
      BY <2>2
    <3>2. ch2[s].used = w + (l + 1) /\ ch2[s].pending = w + 1
      BY <1>9, <2>5, <2>6, <2>7
    <3> QED
      BY <2>4, <2>7, <3>1, <3>2 DEF l, W, M
  <2>8. CASE b.slot # s
    <3>1. ch2[s].used = w + l /\ ch2[s].pending = w
      BY <1>9, <2>5, <2>6, <2>8
    <3> QED
      BY <2>4, <2>8, <3>1 DEF l, W, M
  <2> QED
    BY <2>7, <2>8
<1>13. Apart((P \cup R) \cup {b}, L \ {b}, F)
  BY <1>1, <1>4 DEF Apart
<1>14. ((P \cup R) \cup {b}) \cup (L \ {b}) \cup F = P \cup R \cup L \cup F /\ (P \cup {b}) \cap R = {}
  BY <1>1, <1>4, <1>6
<1>15. Blocks(ch2, st, pq2, rq, lv \ {o})
  BY <1>1, <1>5, <1>7, <1>10, <1>11, <1>12, <1>13, <1>14, Zenon DEF Blocks, R, F
<1> QED
  BY <1>7, <1>9, <1>15 DEF pq2, m, ch2, b, P, OneMore

-----------------------------------------------------------------------------
(* releaseChunk.                                                           *)

\* What a loop keeps of a stack is a stack, and so is its reverse.
LEMMA KeptStack ==
    ASSUME NEW X, NEW s \in Seq(X), IsInjective(s), NEW slots
    PROVE  LET r == removeBlocksInChunks(s, slots) IN
           r \in Seq(X) /\ IsInjective(r) /\ ToSet(r) = {b \in ToSet(s) : b.slot \notin slots}
<1> DEFINE I == {k \in DOMAIN s : s[k].slot \notin slots}
           n == Cardinality(I)
           p == Kept(s, I)
           q == Reverse(p)
<1>1. I \in SUBSET DOMAIN s
  OBVIOUS
<1> HIDE DEF I
<1>2. n \in Nat /\ p \in Seq(X) /\ Len(p) = n /\ DOMAIN p = 1 .. n
  BY <1>1, KeptFacts
<1>3. /\ \A k \in DOMAIN p : \E i \in I : p[k] = s[i]
      /\ \A i \in I : \E k \in DOMAIN p : p[k] = s[i]
  BY <1>1, KeptFacts
<1>4. \E e \in [1 .. n -> I] : /\ \A j, k \in 1 .. n : e[j] = e[k] => j = k
                               /\ \A k \in 1 .. n : p[k] = s[e[k]]
  <2>1. Renumbers(s, I)
    BY <1>1, KeptFacts
  <2> QED
    BY <2>1 DEF Renumbers
<1>5. PICK e \in [1 .. n -> I] : /\ \A j, k \in 1 .. n : e[j] = e[k] => j = k
                                 /\ \A k \in 1 .. n : p[k] = s[e[k]]
  BY <1>4
<1> HIDE DEF n, p
<1>6. IsInjective(p)
  <2> SUFFICES ASSUME NEW j \in 1 .. n, NEW k \in 1 .. n, p[j] = p[k] PROVE j = k
    BY <1>2 DEF IsInjective
  <2>1. e[j] \in DOMAIN s /\ e[k] \in DOMAIN s /\ s[e[j]] = s[e[k]]
    BY <1>1, <1>5
  <2>2. e[j] = e[k]
    BY <2>1 DEF IsInjective
  <2> QED
    BY <1>5, <2>2, Zenon
<1>7. ToSet(p) = {b \in ToSet(s) : b.slot \notin slots}
  <2>1. ASSUME NEW b \in ToSet(p) PROVE b \in ToSet(s) /\ b.slot \notin slots
    BY <1>3 DEF ToSet, I
  <2>2. ASSUME NEW b \in ToSet(s), b.slot \notin slots PROVE b \in ToSet(p)
    BY <1>3, <2>2 DEF ToSet, I
  <2> QED
    BY <2>1, <2>2
<1>8. /\ q \in Seq(X) /\ DOMAIN q = 1 .. n
      /\ \A k \in 1 .. n : (n - k) + 1 \in 1 .. n /\ q[k] = p[(n - k) + 1]
  <2>1. q = [k \in 1 .. n |-> p[(n - k) + 1]]
    BY <1>2 DEF Reverse
  <2>2. \A k \in 1 .. n : (n - k) + 1 \in 1 .. n
    BY <1>2
  <2>3. \A k \in 1 .. n : p[(n - k) + 1] \in X
    BY <1>2, <2>2
  <2> HIDE DEF q
  <2>4. q \in [1 .. n -> X]
    BY <2>1, <2>3
  <2> QED
    BY <1>2, <2>1, <2>2, <2>4
<1> HIDE DEF q
<1>9. IsInjective(q)
  <2> SUFFICES ASSUME NEW j \in 1 .. n, NEW k \in 1 .. n, q[j] = q[k] PROVE j = k
    BY <1>8 DEF IsInjective
  <2> DEFINE x == (n - j) + 1
             y == (n - k) + 1
  <2>1. x \in DOMAIN p /\ y \in DOMAIN p /\ p[x] = p[y]
    BY <1>2, <1>8
  <2>2. x = y
    <3> HIDE DEF x, y
    <3> QED
      BY <1>6, <2>1 DEF IsInjective
  <2> QED
    BY <1>2, <2>2
<1>10. ToSet(q) = ToSet(p)
  <2>1. \A k \in 1 .. n : q[k] \in ToSet(p)
    BY <1>2, <1>8 DEF ToSet
  <2>2. ASSUME NEW k \in 1 .. n PROVE p[k] \in ToSet(q)
    <3>1. (n - k) + 1 \in 1 .. n /\ (n - ((n - k) + 1)) + 1 = k
      BY <1>2
    <3>2. q[(n - k) + 1] = p[k]
      BY <1>8, <3>1
    <3> QED
      BY <1>8, <3>1, <3>2 DEF ToSet
  <2>3. ToSet(p) = {p[k] : k \in 1 .. n} /\ ToSet(q) = {q[k] : k \in 1 .. n}
    BY <1>2, <1>8 DEF ToSet
  <2> QED
    BY <2>1, <2>2, <2>3
<1>11. removeBlocksInChunks(s, slots) = p \/ removeBlocksInChunks(s, slots) = q
  BY DEF removeBlocksInChunks, p, q, I
<1> QED
  BY <1>2, <1>6, <1>7, <1>8, <1>9, <1>10, <1>11

\* The chunks with no block in use go, with their blocks.
LEMMA ReleaseBlocks ==
    ASSUME NEW ch \in Seq(ChunkInfos), NEW st, NEW pq, NEW lv, Blocks(ch, st, pq, << >>, lv)
    PROVE  LET slots == released(ch) IN
           /\ Blocks(freedTable(ch, slots), [i \in Class |-> removeBlocksInChunks(st[i], slots)],
                     keptItems(pq, slots), << >>, lv)
           /\ Queued(keptItems(pq, slots)) = Queued(pq)
           /\ \A b \in Queued(pq) \cup SmallOf(lv) : b.slot \notin slots
<1> DEFINE P == Queued(pq)
           L == SmallOf(lv)
           F == Stacked(st)
           Z == released(ch)
           ch2 == freedTable(ch, Z)
           st2 == [i \in Class |-> removeBlocksInChunks(st[i], Z)]
           pq2 == keptItems(pq, Z)
           F2 == {b \in F : b.slot \notin Z}
<1>1. /\ IsQueue(pq) /\ IsQueue(<< >>) /\ AreStacks(st)
      /\ Apart(P, L, F) /\ IsCut(ch, P \cup L \cup F) /\ AreCounted(ch, P, L)
  <2>1. Queued(<< >>) = {} /\ P \cup {} = P
    BY EmptyQueue
  <2> QED
    BY <2>1, Zenon DEF Blocks
<1>2. /\ st \in [Class -> Seq(ChunkBlocks)]
      /\ \A j \in Class : st[j] \in Seq(ChunkBlocks) /\ IsInjective(st[j])
      /\ \A j \in Class : \A k \in DOMAIN st[j] : st[j][k].size = sizeClassToBlockSize(j)
  BY <1>1 DEF AreStacks
<1>3. \A s \in Z : s \in Alive(ch) /\ s \in DOMAIN ch /\ ch[s].used = 0 /\ ch[s].pending = 0
  BY DEF released, releasable, Alive
<1> HIDE DEF P, L, F, Z
<1>4. ASSUME NEW s \in Z PROVE Of(P, s) = {} /\ Of(L, s) = {}
  <2> DEFINE p == Cardinality(Of(P, s))
             l == Cardinality(Of(L, s))
  <2>1. P \in SUBSET (P \cup L \cup F) /\ L \in SUBSET (P \cup L \cup F) /\ s \in Alive(ch)
    BY <1>3
  <2>2. IsFiniteSet(Of(P, s)) /\ IsFiniteSet(Of(L, s)) /\ p \in Nat /\ l \in Nat
    BY <1>1, <2>1, PartFinite
  <2>3. p + l = 0
    BY <1>1, <1>3, <2>1 DEF AreCounted
  <2>4. p = 0 /\ l = 0
    <3> HIDE DEF p, l
    <3> QED
      BY <2>2, <2>3
  <2> QED
    BY <2>2, <2>4, FS_EmptySet
<1>5. \A b \in P \cup L : b.slot \notin Z
  BY <1>4 DEF Of
<1>6. IsQueue(pq2) /\ Queued(pq2) = P
  <2> DEFINE I == {k \in DOMAIN pq : pq[k].block.slot \notin Z}
  <2>1. I \in SUBSET DOMAIN pq /\ pq2 = Kept(pq, I)
    BY DEF keptItems
  <2>2. IsQueue(Kept(pq, I)) /\ Queued(Kept(pq, I)) = {pq[k].block : k \in I}
    BY <1>1, <2>1, KeptQueue
  <2>3. I = DOMAIN pq
    BY <1>5 DEF P, Queued
  <2> QED
    BY <2>1, <2>2, <2>3 DEF P, Queued
<1>7. ASSUME NEW i \in Class
      PROVE  /\ st2[i] \in Seq(ChunkBlocks) /\ IsInjective(st2[i])
             /\ ToSet(st2[i]) = {b \in ToSet(st[i]) : b.slot \notin Z}
  BY <1>2, KeptStack
<1>8. AreStacks(st2)
  <2>1. st2 \in [Class -> Seq(ChunkBlocks)]
    BY <1>7
  <2>2. ASSUME NEW i \in Class, NEW k \in DOMAIN st2[i] PROVE st2[i][k].size = sizeClassToBlockSize(i)
    <3> HIDE DEF st2
    <3>1. st2[i][k] \in ToSet(st[i])
      BY <1>7 DEF ToSet
    <3> QED
      BY <1>2, <3>1 DEF ToSet
  <2> HIDE DEF st2
  <2> QED
    BY <1>7, <2>1, <2>2 DEF AreStacks
<1>9. Stacked(st2) = F2
  <2> HIDE DEF st2
  <2>1. ASSUME NEW b \in Stacked(st2) PROVE b \in F /\ b.slot \notin Z
    BY <1>7 DEF Stacked, F
  <2>2. ASSUME NEW b \in F, b.slot \notin Z PROVE b \in Stacked(st2)
    BY <1>7, <2>2 DEF Stacked, F
  <2> QED
    BY <2>1, <2>2
<1>10. /\ DOMAIN ch2 = DOMAIN ch /\ Alive(ch2) = Alive(ch) \ Z
       /\ \A s \in Alive(ch2) : ch2[s] = ch[s] /\ s \in Alive(ch) /\ s \notin Z
  <2>1. ch2 = [s \in DOMAIN ch |-> IF s \in Z THEN NoChunk ELSE ch[s]]
    BY DEF freedTable
  <2> HIDE DEF ch2
  <2>2. \A s \in DOMAIN ch : (s \in Z => ~ ch2[s].alive) /\ (s \notin Z => ch2[s] = ch[s])
    BY <2>1 DEF NoChunk
  <2> QED
    BY <2>1, <2>2 DEF Alive
<1> HIDE DEF ch2, st2, pq2
<1>11. Apart(P, L, F2)
  BY <1>1 DEF Apart
<1>12. ASSUME NEW s \in Alive(ch2) PROVE Of(P \cup L \cup F2, s) = Of(P \cup L \cup F, s)
  BY <1>10 DEF Of
<1>13. IsCut(ch2, P \cup L \cup F2)
  <2>1. \A b \in P \cup L \cup F2 : b \in ChunkBlocks /\ b.slot \in Alive(ch2)
    BY <1>1, <1>5, <1>10 DEF IsCut
  <2>2. ASSUME NEW s \in Alive(ch2)
        PROVE  \E z \in BlockSize : ch2[s].size = blockCount(z) * z /\ Of(P \cup L \cup F2, s) = Cut(s, ch2[s].base, z)
    <3>1. s \in Alive(ch) /\ ch2[s] = ch[s]
      BY <1>10
    <3>2. \E z \in BlockSize : ch[s].size = blockCount(z) * z /\ Of(P \cup L \cup F, s) = Cut(s, ch[s].base, z)
      BY <1>1, <3>1 DEF IsCut
    <3> QED
      BY <1>12, <3>1, <3>2, Zenon
  <2> QED
    BY <2>1, <2>2 DEF IsCut
<1>14. AreCounted(ch2, P, L)
  BY <1>1, <1>10 DEF AreCounted
<1>15. Blocks(ch2, st2, pq2, << >>, lv)
  <2>1. Queued(<< >>) = {} /\ P \cup {} = P /\ P \cap {} = {}
    BY EmptyQueue
  <2> QED
    BY <1>1, <1>6, <1>8, <1>9, <1>11, <1>13, <1>14, <2>1, Zenon DEF Blocks, L
<1> QED
  BY <1>5, <1>6, <1>15 DEF ch2, st2, pq2, P, L, Z

-----------------------------------------------------------------------------
(* The tables after a drain.                                               *)

\* Draining the queues keeps the chunk table, and device work stays owned.
LEMMA DrainTables ==
    ASSUME IInv
    PROVE  /\ IsTable(Drained.chunks, chunk_free, ChunkInfos, NoChunk)
           /\ AreBacked(Drained.chunks, entries, backed)
           /\ Alive(Drained.chunks) = Alive(chunks)
           /\ \A w \in busy : w.base \in backed =>
                \/ \E o \in live : RegionOf(o.block) = w
                \/ \E b \in Queued(stillPending) : RegionOf(b) = w
<1>1. /\ Drained.chunks \in Seq(ChunkInfos) /\ SameChunks(chunks, Drained.chunks)
      /\ Queued(stillPending) = {b \in Queued(pending_queue) : RegionOf(b) \in busy}
  BY DrainFacts
<1>2. IsTable(chunks, chunk_free, ChunkInfos, NoChunk) /\ AreBacked(chunks, entries, backed) /\ WorkIsOwned
  BY DEF IInv, Tables
<1>3. \A w \in busy : w.base \in backed =>
                \/ \E o \in live : RegionOf(o.block) = w
                \/ \E b \in Queued(stillPending) : RegionOf(b) = w
  BY <1>1, <1>2 DEF WorkIsOwned
<1> QED
  BY <1>1, <1>2, <1>3, TableSame, BackedSame

\* processPendingReuses, and an allocation that fails.
LEMMA DrainKeeps ==
    ASSUME IInv,
           pending_queue' = Drained.pending, ready_queue' = << >>,
           stacks' = Drained.stacks, chunks' = Drained.chunks,
           UNCHANGED << chunk_free, large, flushing, backed, live, busy >>
    PROVE  IInv'
<1>1. /\ Drained.pending = stillPending
      /\ Blocks(Drained.chunks, Drained.stacks, stillPending, << >>, live)
  BY DrainFacts
<1>2. /\ entries' = entries /\ entry_free' = entry_free /\ chunk_free' = chunk_free
      /\ flushing' = flushing /\ backed' = backed /\ live' = live /\ busy' = busy
  BY DEF large
<1>3. Tables'
  <2>1. IsTable(entries, entry_free, EntryInfos, NoEntry)
    BY DEF IInv, Tables
  <2> QED
    BY <1>2, <2>1, DrainTables, Zenon DEF Tables
<1>4. Blocks(chunks, stacks, pending_queue, ready_queue, live)'
  BY <1>1, <1>2
<1>5. AreHeld(live, entries)'
  BY <1>2 DEF IInv
<1>6. EntriesHeld'
  BY <1>2 DEF IInv, EntriesHeld
<1>7. WorkIsOwned'
  BY <1>1, <1>2, DrainTables DEF WorkIsOwned
<1> QED
  BY <1>2, <1>3, <1>4, <1>5, <1>6, <1>7 DEF IInv

\* The client of a small block.
LEMMA HoldSmall ==
    ASSUME NEW lv, NEW en, AreHeld(lv, en), NEW size \in Request, size <= MaxBlock,
           NEW b \in ChunkBlocks, b.size = blockSizeFor(size), b \notin SmallOf(lv)
    PROVE  AreHeld(lv \cup {[block |-> b, size |-> size]}, en)
<1> DEFINE o == [block |-> b, size |-> size]
<1>1. o.block = b /\ o.size = size /\ o = [block |-> o.block, size |-> o.size]
  OBVIOUS
<1>2. size \in Nat /\ MaxBlock \in Nat /\ ~(size > MaxBlock)
  BY SizesAssumption
<1> HIDE DEF o
<1>3. ASSUME NEW p \in lv PROVE p.block # b
  <2>1. CASE p.size <= MaxBlock
    BY <2>1 DEF SmallOf
  <2>2. CASE ~(p.size <= MaxBlock)
    <3>1. p.size > MaxBlock
      <4>1. p.size \in Nat
        BY SizesAssumption DEF AreHeld
      <4> QED
        BY <1>2, <2>2, <4>1
    <3>2. p.block = LargeBlock(p.block.slot, p.block.base, p.size)
      BY <3>1 DEF AreHeld
    <3>3. p.block.kind = "large" /\ b.kind = "chunk"
      BY <3>2 DEF LargeBlock, ChunkBlocks
    <3> QED
      BY <3>3
  <2> QED
    BY <2>1, <2>2
<1>4. AreHeld(lv \cup {o}, en)
  <2>1. \A x, y \in lv \cup {o} : x.block = y.block => x = y
    BY <1>1, <1>3 DEF AreHeld
  <2>2. \A x, y \in lv \cup {o} : x.size > MaxBlock /\ y.size > MaxBlock /\ x.block.slot = y.block.slot => x = y
    BY <1>1, <1>2 DEF AreHeld
  <2>3. ASSUME NEW x \in lv
        PROVE  /\ x = [block |-> x.block, size |-> x.size] /\ x.size \in Request
               /\ x.size <= MaxBlock => x.block \in ChunkBlocks /\ x.block.size = blockSizeFor(x.size)
               /\ x.size > MaxBlock =>
                    /\ x.block = LargeBlock(x.block.slot, x.block.base, x.size)
                    /\ x.block.slot \in InUse(en) /\ en[x.block.slot].base = x.block.base
    BY DEF AreHeld
  <2>4. /\ o = [block |-> o.block, size |-> o.size] /\ o.size \in Request /\ ~(o.size > MaxBlock)
        /\ o.block \in ChunkBlocks /\ o.block.size = blockSizeFor(o.size)
    BY <1>1, <1>2
  <2> QED
    BY <2>1, <2>2, <2>3, <2>4 DEF AreHeld
<1> QED
  BY <1>4 DEF o

\* A block from the list of its class.
LEMMA AllocateFromListKeeps ==
    ASSUME IInv, NEW size \in Request, AllocateFromList(size)
    PROVE  IInv'
<1> DEFINE i == sizeClassIndex(blockSizeFor(size))
           st == Drained.stacks
           ch == Drained.chunks
           b == Last(st[i])
           o == [block |-> b, size |-> size]
           ch2 == incrementUsed(ch, b.slot)
<1>1. /\ size <= MaxBlock /\ st[i] # << >>
      /\ stacks' = [st EXCEPT ![i] = Front(@)] /\ chunks' = ch2
      /\ live' = live \cup {o}
      /\ pending_queue' = Drained.pending /\ ready_queue' = << >>
      /\ entries' = entries /\ entry_free' = entry_free /\ chunk_free' = chunk_free
      /\ flushing' = flushing /\ backed' = backed /\ busy' = busy
  BY DEF AllocateFromList, Give, SetQueues, large
<1>2. i \in Class /\ blockSizeFor(size) = sizeClassToBlockSize(i)
  BY <1>1, RequestClass
<1>3. /\ Drained.pending = stillPending
      /\ ch \in Seq(ChunkInfos)
      /\ Blocks(ch, st, stillPending, << >>, live)
  BY DrainFacts
<1>4. /\ IsTable(ch, chunk_free, ChunkInfos, NoChunk) /\ AreBacked(ch, entries, backed)
      /\ \A w \in busy : w.base \in backed =>
            \/ \E p \in live : RegionOf(p.block) = w
            \/ \E x \in Queued(stillPending) : RegionOf(x) = w
  BY DrainTables
<1> HIDE DEF i, st, ch
<1>5. /\ Blocks(ch2, [st EXCEPT ![i] = Front(@)], stillPending, << >>, live \cup {o})
      /\ b \in ChunkBlocks /\ b.size = sizeClassToBlockSize(i) /\ b \notin SmallOf(live)
      /\ ch2 \in Seq(ChunkInfos) /\ SameChunks(ch, ch2)
  BY <1>1, <1>2, <1>3, TakeBlock
<1>6. /\ IsTable(ch2, chunk_free, ChunkInfos, NoChunk) /\ AreBacked(ch2, entries, backed)
  BY <1>4, <1>5, TableSame, BackedSame
<1>7. AreHeld(live \cup {o}, entries)
  BY <1>1, <1>2, <1>5, HoldSmall DEF IInv
<1> HIDE DEF ch2, o, b
<1>8. Tables'
  <2>1. IsTable(entries, entry_free, EntryInfos, NoEntry)
    BY DEF IInv, Tables
  <2> QED
    BY <1>1, <1>6, <2>1, Zenon DEF Tables
<1>9. Blocks(chunks, stacks, pending_queue, ready_queue, live)'
  BY <1>1, <1>3, <1>5
<1>10. AreHeld(live, entries)'
  BY <1>1, <1>7
<1>11. EntriesHeld'
  BY <1>1 DEF IInv, EntriesHeld
<1>12. WorkIsOwned'
  BY <1>1, <1>3, <1>4 DEF WorkIsOwned
<1>13. flushing' \in BOOLEAN
  BY <1>1 DEF IInv
<1> QED
  BY <1>8, <1>9, <1>10, <1>11, <1>12, <1>13 DEF IInv

\* A chunk more in the tables and in the memory behind them.
LEMMA BackedChunk ==
    ASSUME NEW ch, NEW en, NEW bk, AreBacked(ch, en, bk), NEW slot, NEW base, base \notin bk,
           slot \notin Alive(ch), NEW ch2, DOMAIN ch2 = DOMAIN ch \cup {slot},
           ch2[slot].alive, ch2[slot].base = base,
           \A s \in DOMAIN ch : s # slot => ch2[s] = ch[s]
    PROVE  Alive(ch2) = Alive(ch) \cup {slot} /\ AreBacked(ch2, en, bk \cup {base})
<1>1. Alive(ch2) = Alive(ch) \cup {slot}
  BY DEF Alive
<1>2. \A s \in Alive(ch) : s # slot /\ ch2[s] = ch[s]
  BY DEF Alive
<1> HIDE DEF Alive
<1>3. \A s \in Alive(ch) : ch[s].base \in bk /\ ch2[s].base # base
  BY <1>2 DEF AreBacked
<1>4. \A e \in InUse(en) : en[e].base \in bk /\ en[e].base # base
  BY DEF AreBacked
<1>5. bk \cup {base} = {ch2[s].base : s \in Alive(ch2)} \cup {en[e].base : e \in InUse(en)}
  BY <1>1, <1>2 DEF AreBacked
<1>6. \A s, t \in Alive(ch2) : ch2[s].base = ch2[t].base => s = t
  BY <1>1, <1>2, <1>3 DEF AreBacked
<1>7. \A s \in Alive(ch2), e \in InUse(en) : ch2[s].base # en[e].base
  BY <1>1, <1>2, <1>4 DEF AreBacked
<1> QED
  BY <1>1, <1>5, <1>6, <1>7 DEF AreBacked

\* A large allocation more.
LEMMA BackedEntry ==
    ASSUME NEW ch, NEW en, NEW bk, AreBacked(ch, en, bk), NEW slot, NEW base, base \notin bk,
           slot \notin InUse(en), NEW en2, DOMAIN en2 = DOMAIN en \cup {slot},
           en2[slot].in_use, en2[slot].base = base,
           \A s \in DOMAIN en : s # slot => en2[s] = en[s]
    PROVE  /\ InUse(en2) = InUse(en) \cup {slot} /\ AreBacked(ch, en2, bk \cup {base})
           /\ \A e \in InUse(en) : e # slot /\ en2[e] = en[e]
<1>1. InUse(en2) = InUse(en) \cup {slot}
  BY DEF InUse
<1>2. \A e \in InUse(en) : e # slot /\ en2[e] = en[e]
  BY DEF InUse
<1> HIDE DEF InUse
<1>3. \A e \in InUse(en) : en[e].base \in bk /\ en2[e].base # base
  BY <1>2 DEF AreBacked
<1>4. \A s \in Alive(ch) : ch[s].base \in bk /\ ch[s].base # base
  BY DEF AreBacked
<1>5. bk \cup {base} = {ch[s].base : s \in Alive(ch)} \cup {en2[e].base : e \in InUse(en2)}
  BY <1>1, <1>2 DEF AreBacked
<1>6. \A e, f \in InUse(en2) : en2[e].base = en2[f].base => e = f
  BY <1>1, <1>2, <1>3 DEF AreBacked
<1>7. \A s \in Alive(ch), e \in InUse(en2) : ch[s].base # en2[e].base
  BY <1>1, <1>2, <1>4 DEF AreBacked
<1> QED
  BY <1>1, <1>2, <1>5, <1>6, <1>7 DEF AreBacked

\* The pool is expanded and a block of the new chunk handed out.
LEMMA AllocateExpandingKeeps ==
    ASSUME IInv, NEW size \in Request, NEW base \in Base, AllocateExpanding(size, base)
    PROVE  IInv'
<1> DEFINE z == blockSizeFor(size)
           i == sizeClassIndex(z)
           n == blockCount(z)
           st == Drained.stacks
           ch == Drained.chunks
           slot == reserveSlot(chunks, chunk_free)
           cut == CutBlocks(slot, base, n, z)
           row == ExpandedChunk(base, n, z)
           ch1 == stored(ch, slot, row)
           st1 == [st EXCEPT ![i] = cut]
           b == Last(cut)
           o == [block |-> b, size |-> size]
           ch2 == incrementUsed(ch1, slot)
<1>1. /\ size <= MaxBlock /\ st[i] = << >> /\ base \in Available
      /\ chunk_free' = withoutSlot(chunk_free)
      /\ chunks' = ch2 /\ stacks' = [st EXCEPT ![i] = Front(cut)]
      /\ live' = live \cup {o} /\ backed' = backed \cup {base}
      /\ pending_queue' = Drained.pending /\ ready_queue' = << >>
      /\ entries' = entries /\ entry_free' = entry_free
      /\ flushing' = flushing /\ busy' = busy
  BY DEF AllocateExpanding, Give, SetQueues, large
<1>2. i \in Class /\ z = sizeClassToBlockSize(i) /\ z \in Sizes
  BY <1>1, RequestClass
<1>3. /\ Drained.pending = stillPending
      /\ ch \in Seq(ChunkInfos) /\ SameChunks(chunks, ch)
      /\ Blocks(ch, st, stillPending, << >>, live)
  BY DrainFacts
<1>4. /\ IsTable(ch, chunk_free, ChunkInfos, NoChunk) /\ AreBacked(ch, entries, backed)
      /\ \A w \in busy : w.base \in backed =>
            \/ \E p \in live : RegionOf(p.block) = w
            \/ \E x \in Queued(stillPending) : RegionOf(x) = w
  BY DrainTables
<1>5. slot = reserveSlot(ch, chunk_free)
  <2>1. IsTable(chunks, chunk_free, ChunkInfos, NoChunk)
    BY DEF IInv, Tables
  <2> QED
    BY <1>3, <2>1, TableSame
<1>6. base \notin backed /\ \A w \in busy : w.base # base
  BY <1>1 DEF Available
<1> HIDE DEF z, i, st, ch, slot
<1>7. row \in ChunkInfos /\ row.alive /\ row.base = base
  <2>1. n * z \in Nat
    BY <1>2, CountFacts
  <2> HIDE DEF n
  <2> QED
    BY <2>1 DEF ChunkInfos, ExpandedChunk
<1>8. /\ IsTable(ch1, withoutSlot(chunk_free), ChunkInfos, NoChunk)
      /\ slot \in Nat /\ ch1[slot] = row /\ DOMAIN ch1 = DOMAIN ch \cup {slot}
      /\ slot \in DOMAIN ch => ch[slot] = NoChunk
      /\ \A s \in DOMAIN ch : s # slot => ch1[s] = ch[s]
  <2> HIDE DEF row
  <2>0. IsTable(ch, chunk_free, ChunkInfos, NoChunk) /\ row \in ChunkInfos
    BY <1>4, <1>7
  <2> DEFINE sl == reserveSlot(ch, chunk_free)
             t2 == stored(ch, sl, row)
  <2>1. IsTable(t2, withoutSlot(chunk_free), ChunkInfos, NoChunk)
    BY <2>0, TableStore
  <2>2. StoredAt(ch, t2, sl, row)
    BY <2>0, TableStore
  <2>3. sl \in DOMAIN ch => ch[sl] = NoChunk
    BY <2>0, TableStore
  <2> QED
    BY <1>5, <2>1, <2>2, <2>3, Zenon DEF StoredAt
<1>9. slot \notin Alive(ch)
  BY <1>8 DEF Alive, NoChunk
<1>10. Blocks(ch1, st1, stillPending, << >>, live)
  <2> HIDE DEF ch1
  <2> QED
    BY <1>1, <1>2, <1>3, <1>8, <1>9, AddChunk
<1>11. AreBacked(ch1, entries, backed \cup {base})
  <2> HIDE DEF ch1, row
  <2> QED
    BY <1>4, <1>6, <1>7, <1>8, <1>9, BackedChunk
<1>12. ch1 \in Seq(ChunkInfos)
  BY <1>8 DEF IsTable
<1>13. cut # << >> /\ b.slot = slot
  BY <1>2, <1>8, CutFacts
<1>14. st1[i] = cut /\ [st1 EXCEPT ![i] = Front(@)] = [st EXCEPT ![i] = Front(cut)]
  <2>1. st \in [Class -> Seq(ChunkBlocks)]
    BY <1>3 DEF Blocks, AreStacks
  <2> HIDE DEF cut
  <2> QED
    BY <1>2, <2>1
<1> HIDE DEF ch1, st1, cut
<1>15. /\ Blocks(ch2, [st1 EXCEPT ![i] = Front(@)], stillPending, << >>, live \cup {o})
       /\ b \in ChunkBlocks /\ b.size = sizeClassToBlockSize(i) /\ b \notin SmallOf(live)
       /\ ch2 \in Seq(ChunkInfos) /\ SameChunks(ch1, ch2)
  <2>1. st1[i] # << >> /\ Last(st1[i]) = b /\ b.slot = slot
    BY <1>13, <1>14
  <2>2. LET x == Last(st1[i]) c == incrementUsed(ch1, x.slot) IN
        /\ Blocks(c, [st1 EXCEPT ![i] = Front(@)], stillPending, << >>,
                  live \cup {[block |-> x, size |-> size]})
        /\ x \in ChunkBlocks /\ x.slot \in Alive(ch1) /\ x.size = sizeClassToBlockSize(i)
        /\ x \notin SmallOf(live) \cup Queued(stillPending)
        /\ c \in Seq(ChunkInfos) /\ SameChunks(ch1, c)
    BY <1>1, <1>2, <1>10, <1>12, <2>1, TakeBlock
  <2> QED
    BY <2>1, <2>2
<1>16. /\ IsTable(ch2, withoutSlot(chunk_free), ChunkInfos, NoChunk)
       /\ AreBacked(ch2, entries, backed \cup {base})
  BY <1>8, <1>11, <1>15, TableSame, BackedSame
<1>17. AreHeld(live \cup {o}, entries)
  BY <1>1, <1>2, <1>15, HoldSmall DEF IInv, z
<1> HIDE DEF ch2, o, b
<1>18. Tables'
  <2>1. IsTable(entries, entry_free, EntryInfos, NoEntry)
    BY DEF IInv, Tables
  <2> QED
    BY <1>1, <1>16, <2>1, Zenon DEF Tables
<1>19. Blocks(chunks, stacks, pending_queue, ready_queue, live)'
  BY <1>1, <1>3, <1>14, <1>15, Zenon
<1>20. AreHeld(live, entries)'
  BY <1>1, <1>17
<1>21. EntriesHeld'
  BY <1>1 DEF IInv, EntriesHeld
<1>22. WorkIsOwned'
  BY <1>1, <1>3, <1>4, <1>6 DEF WorkIsOwned
<1>23. flushing' \in BOOLEAN
  BY <1>1 DEF IInv
<1> QED
  BY <1>18, <1>19, <1>20, <1>21, <1>22, <1>23 DEF IInv

\* What a client holds of the large blocks is none of the small ones.
LEMMA SmallSame ==
    ASSUME NEW lv, NEW o, ~(o.size <= MaxBlock)
    PROVE  SmallOf(lv \cup {o}) = SmallOf(lv) /\ SmallOf(lv \ {o}) = SmallOf(lv)
<1>1. {p \in lv \cup {o} : p.size <= MaxBlock} = {p \in lv : p.size <= MaxBlock}
  OBVIOUS
<1>2. {p \in lv \ {o} : p.size <= MaxBlock} = {p \in lv : p.size <= MaxBlock}
  OBVIOUS
<1> QED
  BY <1>1, <1>2, Zenon DEF SmallOf

\* A large allocation.
LEMMA AllocateLargeKeeps ==
    ASSUME IInv, NEW size \in Request, NEW base \in Base, AllocateLarge(size, base)
    PROVE  IInv'
<1> DEFINE slot == reserveSlot(entries, entry_free)
           row == [base |-> base, in_use |-> TRUE]
           en2 == stored(entries, slot, row)
           b == LargeBlock(slot, base, size)
           o == [block |-> b, size |-> size]
<1>1. /\ size > MaxBlock /\ base \in Available
      /\ entries' = en2 /\ entry_free' = withoutSlot(entry_free)
      /\ backed' = backed \cup {base} /\ live' = live \cup {o}
      /\ chunks' = chunks /\ chunk_free' = chunk_free /\ stacks' = stacks
      /\ pending_queue' = pending_queue /\ ready_queue' = ready_queue
      /\ flushing' = flushing /\ busy' = busy
  BY DEF AllocateLarge, Give, locator, reuse
<1>2. base \notin backed /\ \A w \in busy : w.base # base
  BY <1>1 DEF Available
<1>3. row \in EntryInfos /\ row.in_use /\ row.base = base
  BY DEF EntryInfos
<1>4. IsTable(entries, entry_free, EntryInfos, NoEntry) /\ AreBacked(chunks, entries, backed)
      /\ IsTable(chunks, chunk_free, ChunkInfos, NoChunk) /\ AreHeld(live, entries)
  BY DEF IInv, Tables
<1>5. /\ IsTable(en2, withoutSlot(entry_free), EntryInfos, NoEntry)
      /\ slot \in Nat /\ en2[slot] = row /\ DOMAIN en2 = DOMAIN entries \cup {slot}
      /\ slot \in DOMAIN entries => entries[slot] = NoEntry
      /\ \A s \in DOMAIN entries : s # slot => en2[s] = entries[s]
  <2> HIDE DEF row
  <2>1. IsTable(entries, entry_free, EntryInfos, NoEntry) /\ row \in EntryInfos
    BY <1>3, <1>4
  <2>2. IsTable(en2, withoutSlot(entry_free), EntryInfos, NoEntry)
    BY <2>1, TableStore
  <2>3. StoredAt(entries, en2, slot, row)
    BY <2>1, TableStore
  <2>4. slot \in DOMAIN entries => entries[slot] = NoEntry
    BY <2>1, TableStore
  <2> QED
    BY <2>2, <2>3, <2>4, Zenon DEF StoredAt
<1>6. slot \notin InUse(entries)
  BY <1>5 DEF InUse, NoEntry
<1> HIDE DEF slot, en2, row
<1>7. /\ InUse(en2) = InUse(entries) \cup {slot} /\ AreBacked(chunks, en2, backed \cup {base})
      /\ \A e \in InUse(entries) : e # slot /\ en2[e] = entries[e]
  <2>1. en2[slot].in_use /\ en2[slot].base = base
    BY <1>3, <1>5
  <2>2. DOMAIN en2 = DOMAIN entries \cup {slot} /\ \A s \in DOMAIN entries : s # slot => en2[s] = entries[s]
    BY <1>5
  <2>3. AreBacked(chunks, entries, backed) /\ base \notin backed
    BY <1>2, <1>4
  <2>4. InUse(en2) = InUse(entries) \cup {slot}
    BY <2>1, <2>2 DEF InUse
  <2>5. AreBacked(chunks, en2, backed \cup {base})
    BY <1>6, <2>1, <2>2, <2>3, BackedEntry
  <2>6. \A e \in InUse(entries) : e # slot /\ en2[e] = entries[e]
    BY <1>6, <2>2 DEF InUse
  <2> QED
    BY <2>4, <2>5, <2>6
<1>8. /\ o.block = b /\ o.size = size /\ o = [block |-> o.block, size |-> o.size]
      /\ b.slot = slot /\ b.base = base /\ b.kind = "large"
      /\ o.block = LargeBlock(o.block.slot, o.block.base, o.size)
  BY DEF LargeBlock
<1>9. ~(size <= MaxBlock)
  BY <1>1, SizesAssumption
<1> HIDE DEF o, b
<1>10. SmallOf(live \cup {o}) = SmallOf(live)
  BY <1>8, <1>9, SmallSame
<1>11. AreHeld(live \cup {o}, en2)
  <2>1. ASSUME NEW p \in live
        PROVE  /\ p = [block |-> p.block, size |-> p.size] /\ p.size \in Request
               /\ p.size <= MaxBlock => p.block \in ChunkBlocks /\ p.block.size = blockSizeFor(p.size)
               /\ p.size > MaxBlock =>
                    /\ p.block = LargeBlock(p.block.slot, p.block.base, p.size)
                    /\ p.block.slot \in InUse(entries) /\ entries[p.block.slot].base = p.block.base
    BY <1>4 DEF AreHeld
  <2>2. ASSUME NEW p \in live, p.size > MaxBlock
        PROVE  p.block.slot # slot /\ p.block.slot \in InUse(en2) /\ en2[p.block.slot].base = p.block.base
    BY <1>7, <2>1, <2>2
  <2>3. ASSUME NEW p \in live PROVE p.block # b
    <3>1. CASE p.size > MaxBlock
      BY <1>8, <2>2, <3>1
    <3>2. CASE ~(p.size > MaxBlock)
      <4>1. p.size <= MaxBlock
        BY <2>1, <3>2, SizesAssumption
      <4>2. p.block.kind = "chunk"
        BY <2>1, <4>1 DEF ChunkBlocks
      <4> QED
        BY <1>8, <4>2
    <3> QED
      BY <3>1, <3>2
  <2>4. \A x, y \in live \cup {o} : x.block = y.block => x = y
    BY <1>4, <1>8, <2>3 DEF AreHeld
  <2>5. \A x, y \in live \cup {o} : x.size > MaxBlock /\ y.size > MaxBlock /\ x.block.slot = y.block.slot => x = y
    BY <1>4, <1>8, <2>2 DEF AreHeld
  <2>6. o.block.slot \in InUse(en2) /\ en2[o.block.slot].base = o.block.base
    BY <1>3, <1>5, <1>7, <1>8
  <2> QED
    BY <1>8, <1>9, <2>1, <2>2, <2>4, <2>5, <2>6 DEF AreHeld
<1>12. Tables'
  BY <1>1, <1>4, <1>5, <1>7, Zenon DEF Tables
<1>13. Blocks(chunks, stacks, pending_queue, ready_queue, live)'
  <2>1. Blocks(chunks, stacks, pending_queue, ready_queue, live)
    BY DEF IInv
  <2>2. Blocks(chunks, stacks, pending_queue, ready_queue, live \cup {o})
    BY <1>10, <2>1, Zenon DEF Blocks
  <2> QED
    BY <1>1, <2>2
<1>14. AreHeld(live, entries)'
  BY <1>1, <1>11
<1>15. EntriesHeld'
  <2>1. \A e \in InUse(entries) : \E p \in live : p.size > MaxBlock /\ p.block.slot = e
    BY DEF IInv, EntriesHeld
  <2>2. \A e \in InUse(en2) : \E p \in live \cup {o} : p.size > MaxBlock /\ p.block.slot = e
    BY <1>1, <1>7, <1>8, <2>1
  <2> QED
    BY <1>1, <2>2 DEF EntriesHeld
<1>16. WorkIsOwned'
  BY <1>1, <1>2 DEF IInv, WorkIsOwned
<1>17. flushing' \in BOOLEAN
  BY <1>1 DEF IInv
<1> QED
  BY <1>12, <1>13, <1>14, <1>15, <1>16, <1>17 DEF IInv

\* A client less.
LEMMA HeldLess ==
    ASSUME NEW lv, NEW en, AreHeld(lv, en), NEW o
    PROVE  AreHeld(lv \ {o}, en)
BY DEF AreHeld

\* A small block is freed.
LEMMA DeallocateKeeps ==
    ASSUME IInv, NEW o \in live, Deallocate(o)
    PROVE  IInv'
<1> DEFINE m == [block |-> o.block, freelist_index |-> freeIndex(o.size)]
           ch2 == incrementPending(chunks, o.block.slot)
           pq2 == Append(pending_queue, m)
<1>1. /\ o.size <= MaxBlock /\ live' = live \ {o} /\ chunks' = ch2 /\ pending_queue' = pq2
      /\ chunk_free' = chunk_free /\ entries' = entries /\ entry_free' = entry_free
      /\ stacks' = stacks /\ ready_queue' = ready_queue
      /\ flushing' = flushing /\ backed' = backed /\ busy' = busy
  BY DEF Deallocate, Schedule, large
<1>2. /\ IsTable(entries, entry_free, EntryInfos, NoEntry) /\ AreBacked(chunks, entries, backed)
      /\ IsTable(chunks, chunk_free, ChunkInfos, NoChunk) /\ AreHeld(live, entries)
      /\ Blocks(chunks, stacks, pending_queue, ready_queue, live)
      /\ chunks \in Seq(ChunkInfos)
  BY DEF IInv, Tables, IsTable
<1>3. /\ Blocks(ch2, stacks, pq2, ready_queue, live \ {o})
      /\ ch2 \in Seq(ChunkInfos) /\ SameChunks(chunks, ch2)
      /\ Queued(pq2) = Queued(pending_queue) \cup {o.block}
  <2>1. /\ AreHeld(live, entries) /\ chunks \in Seq(ChunkInfos) /\ o.size <= MaxBlock
        /\ Blocks(chunks, stacks, pending_queue, ready_queue, live)
    BY <1>1, <1>2
  <2>2. Blocks(ch2, stacks, pq2, ready_queue, live \ {o})
    BY <2>1, ScheduleBlock
  <2>3. ch2 \in Seq(ChunkInfos) /\ SameChunks(chunks, ch2)
    BY <2>1, ScheduleBlock
  <2>4. OneMore(pending_queue, pq2, o.block)
    BY <2>1, ScheduleBlock
  <2> QED
    BY <2>2, <2>3, <2>4, Zenon DEF OneMore
<1>4. IsTable(ch2, chunk_free, ChunkInfos, NoChunk) /\ AreBacked(ch2, entries, backed)
  BY <1>2, <1>3, TableSame, BackedSame
<1> HIDE DEF ch2, pq2
<1>5. Tables'
  BY <1>1, <1>2, <1>4, Zenon DEF Tables
<1>6. Blocks(chunks, stacks, pending_queue, ready_queue, live)'
  BY <1>1, <1>3
<1>7. AreHeld(live, entries)'
  <2>1. AreHeld(live \ {o}, entries)
    BY <1>2, HeldLess
  <2> QED
    BY <1>1, <2>1
<1>8. EntriesHeld'
  <2>1. ~(o.size > MaxBlock)
    BY <1>1, <1>2, SizesAssumption DEF AreHeld
  <2> QED
    BY <1>1, <2>1 DEF IInv, EntriesHeld
<1>9. WorkIsOwned'
  <2> SUFFICES ASSUME NEW w \in busy, w.base \in backed
               PROVE  \/ \E p \in live \ {o} : RegionOf(p.block) = w
                      \/ \E x \in Queued(pq2) : RegionOf(x) = w
    BY <1>1 DEF WorkIsOwned
  <2>1. \/ \E p \in live : RegionOf(p.block) = w
        \/ \E x \in Queued(pending_queue) : RegionOf(x) = w
    BY DEF IInv, WorkIsOwned
  <2> QED
    BY <1>3, <2>1
<1>10. flushing' \in BOOLEAN
  BY <1>1 DEF IInv
<1> QED
  BY <1>5, <1>6, <1>7, <1>8, <1>9, <1>10 DEF IInv

\* A large block is given back.
LEMMA DeallocateLargeKeeps ==
    ASSUME IInv, NEW o \in live, DeallocateLarge(o)
    PROVE  IInv'
<1> DEFINE slot == o.block.slot
           base == entries[slot].base
           en2 == [entries EXCEPT ![slot] = NoEntry]
           fr2 == Append(entry_free, slot)
<1>1. /\ o.size > MaxBlock /\ entries[slot].in_use
      /\ live' = live \ {o} /\ backed' = backed \ {base}
      /\ entries' = en2 /\ entry_free' = fr2
      /\ chunks' = chunks /\ chunk_free' = chunk_free /\ stacks' = stacks
      /\ pending_queue' = pending_queue /\ ready_queue' = ready_queue
      /\ flushing' = flushing /\ busy' = busy
  BY DEF DeallocateLarge, locator, reuse
<1>2. /\ IsTable(entries, entry_free, EntryInfos, NoEntry) /\ AreBacked(chunks, entries, backed)
      /\ IsTable(chunks, chunk_free, ChunkInfos, NoChunk) /\ AreHeld(live, entries)
      /\ Blocks(chunks, stacks, pending_queue, ready_queue, live)
  BY DEF IInv, Tables
<1>3. slot \in InUse(entries) /\ slot \in DOMAIN entries /\ o.block.base = base
      /\ o.block = LargeBlock(slot, o.block.base, o.size)
  BY <1>1, <1>2 DEF AreHeld, InUse
<1>4. ~(o.size <= MaxBlock)
  <2>1. o.size \in Nat /\ MaxBlock \in Nat
    BY <1>2, SizesAssumption DEF AreHeld
  <2> QED
    BY <1>1, <2>1
<1> HIDE DEF slot, base
<1>5. IsTable(en2, fr2, EntryInfos, NoEntry)
  <2> DEFINE n == Len(entry_free)
  <2>1. /\ entries \in Seq(EntryInfos) /\ entry_free \in Seq(DOMAIN entries) /\ IsInjective(entry_free)
        /\ \A k \in DOMAIN entry_free : entries[entry_free[k]] = NoEntry
    BY <1>2 DEF IsTable
  <2>2. n \in Nat /\ DOMAIN entry_free = 1 .. n
    BY <2>1
  <2>3. fr2 \in Seq(DOMAIN entries) /\ Len(fr2) = n + 1 /\ fr2[n + 1] = slot
        /\ \A k \in 1 .. n : fr2[k] = entry_free[k]
    BY <1>3, <2>1, AppendProperties
  <2>4. NoEntry \in EntryInfos /\ ~ NoEntry.in_use
    BY DEF EntryInfos, NoEntry
  <2>5. en2 \in Seq(EntryInfos) /\ DOMAIN en2 = DOMAIN entries /\ en2[slot] = NoEntry
        /\ \A s \in DOMAIN entries : s # slot => en2[s] = entries[s]
    <3> HIDE DEF fr2
    <3> QED
      BY <1>3, <2>1, <2>4
  <2> HIDE DEF fr2, en2, n
  <2>6. DOMAIN fr2 = 1 .. n \cup {n + 1}
    BY <2>2, <2>3
  <2>7. \A k \in 1 .. n : entry_free[k] # slot /\ entry_free[k] \in DOMAIN entries
    BY <1>1, <2>1, <2>2, <2>4
  <2>8. \A j, k \in DOMAIN fr2 : fr2[j] = fr2[k] => j = k
    <3>1. \A j, k \in 1 .. n : entry_free[j] = entry_free[k] => j = k
      BY <2>1, <2>2 DEF IsInjective
    <3> QED
      BY <2>3, <2>6, <2>7, <3>1
  <2>9. \A k \in DOMAIN fr2 : en2[fr2[k]] = NoEntry
    BY <2>1, <2>2, <2>3, <2>5, <2>6, <2>7
  <2> QED
    BY <2>3, <2>5, <2>8, <2>9 DEF IsTable, IsInjective
<1>6. /\ InUse(en2) = InUse(entries) \ {slot}
      /\ \A e \in InUse(entries) : e # slot => en2[e] = entries[e]
  <2>1. entries \in Seq(EntryInfos)
    BY <1>2 DEF IsTable
  <2>2. DOMAIN en2 = DOMAIN entries /\ ~ en2[slot].in_use
        /\ \A s \in DOMAIN entries : s # slot => en2[s] = entries[s]
    BY <1>3, <2>1 DEF NoEntry
  <2> HIDE DEF en2
  <2> QED
    BY <2>2 DEF InUse
<1> HIDE DEF en2, fr2
<1>7. AreBacked(chunks, en2, backed \ {base})
  <2>1. \A s \in Alive(chunks) : chunks[s].base # base
    BY <1>2, <1>3 DEF AreBacked, base
  <2>2. \A e \in InUse(entries) : e # slot => entries[e].base # base
    BY <1>2, <1>3 DEF AreBacked, base
  <2>3. backed \ {base} = {chunks[s].base : s \in Alive(chunks)} \cup {en2[e].base : e \in InUse(en2)}
    <3>1. backed = {chunks[s].base : s \in Alive(chunks)} \cup {entries[e].base : e \in InUse(entries)}
      BY <1>2 DEF AreBacked
    <3>2. ASSUME NEW x \in backed, x # base
          PROVE  x \in {chunks[s].base : s \in Alive(chunks)} \cup {en2[e].base : e \in InUse(en2)}
      BY <1>6, <3>1, <3>2 DEF base
    <3>3. ASSUME NEW s \in Alive(chunks) PROVE chunks[s].base \in backed \ {base}
      BY <2>1, <3>1
    <3>4. ASSUME NEW e \in InUse(en2) PROVE en2[e].base \in backed \ {base}
      BY <1>6, <2>2, <3>1
    <3> QED
      BY <3>2, <3>3, <3>4
  <2> QED
    BY <1>2, <1>6, <2>3 DEF AreBacked
<1>8. Tables'
  BY <1>1, <1>2, <1>5, <1>7, Zenon DEF Tables
<1>9. Blocks(chunks, stacks, pending_queue, ready_queue, live)'
  <2>1. SmallOf(live \ {o}) = SmallOf(live)
    BY <1>4, SmallSame
  <2>2. Blocks(chunks, stacks, pending_queue, ready_queue, live \ {o})
    BY <1>2, <2>1, Zenon DEF Blocks
  <2> QED
    BY <1>1, <2>2
<1>10. AreHeld(live, entries)'
  <2>1. AreHeld(live \ {o}, entries)
    BY <1>2, HeldLess
  <2>2. ASSUME NEW p \in live \ {o}, p.size > MaxBlock
        PROVE  p.block.slot # slot /\ p.block.slot \in InUse(entries) /\ entries[p.block.slot].base = p.block.base
    BY <1>1, <1>2, <2>2 DEF AreHeld, slot
  <2>3. ASSUME NEW p \in live \ {o}, p.size > MaxBlock
        PROVE  p.block.slot \in InUse(en2) /\ en2[p.block.slot].base = p.block.base
    BY <1>6, <2>2, <2>3
  <2>4. AreHeld(live \ {o}, en2)
    BY <2>1, <2>3 DEF AreHeld
  <2> QED
    BY <1>1, <2>4
<1>11. EntriesHeld'
  <2>1. ASSUME NEW e \in InUse(en2) PROVE \E p \in live \ {o} : p.size > MaxBlock /\ p.block.slot = e
    <3>1. e \in InUse(entries) /\ e # slot
      BY <1>6
    <3>2. PICK p \in live : p.size > MaxBlock /\ p.block.slot = e
      BY <3>1 DEF IInv, EntriesHeld
    <3> QED
      BY <3>1, <3>2 DEF slot
  <2> QED
    BY <1>1, <2>1 DEF EntriesHeld
<1>12. WorkIsOwned'
  <2> SUFFICES ASSUME NEW w \in busy, w.base \in backed, w.base # base
               PROVE  \/ \E p \in live \ {o} : RegionOf(p.block) = w
                      \/ \E x \in Queued(pending_queue) : RegionOf(x) = w
    BY <1>1 DEF WorkIsOwned
  <2>1. \/ \E p \in live : RegionOf(p.block) = w
        \/ \E x \in Queued(pending_queue) : RegionOf(x) = w
    BY DEF IInv, WorkIsOwned
  <2>2. RegionOf(o.block).base = base
    BY <1>3 DEF RegionOf
  <2> QED
    BY <2>1, <2>2
<1>13. flushing' \in BOOLEAN
  BY <1>1 DEF IInv
<1> QED
  BY <1>8, <1>9, <1>10, <1>11, <1>12, <1>13 DEF IInv

\* The slots of released chunks join the free ones.
LEMMA TableFreed ==
    ASSUME NEW ch, NEW freed, IsTable(ch, freed, ChunkInfos, NoChunk), NEW Z \in SUBSET Alive(ch)
    PROVE  IsTable(freedTable(ch, Z), freed \o InOrder(Z), ChunkInfos, NoChunk)
<1> DEFINE ch2 == freedTable(ch, Z)
           new == InOrder(Z)
           l == Len(freed)
           n == Cardinality(Z)
           all == freed \o new
<1>1. /\ ch \in Seq(ChunkInfos) /\ freed \in Seq(DOMAIN ch) /\ IsInjective(freed)
      /\ \A k \in DOMAIN freed : freed[k] \in DOMAIN ch /\ ch[freed[k]] = NoChunk
  BY DEF IsTable
<1>2. DOMAIN ch = 1 .. Len(ch) /\ Len(ch) \in Nat
  BY <1>1
<1>3. Z \subseteq DOMAIN ch /\ \A s \in Z : ch[s].alive
  BY DEF Alive
<1>4. IsFiniteSet(Z) /\ Z \in SUBSET Int
  <2>1. 1 \in Int /\ Len(ch) \in Int
    BY <1>2
  <2>2. IsFiniteSet(1 .. Len(ch))
    BY <2>1, FS_Interval
  <2> QED
    BY <1>2, <1>3, <2>2, FS_Subset
<1>5. /\ n \in Nat /\ new \in [1 .. n -> Z]
      /\ \A j, k \in 1 .. n : new[j] = new[k] => j = k
  BY <1>4, InOrderFacts
<1> HIDE DEF new, n
<1>6. new \in Seq(DOMAIN ch) /\ Len(new) = n
  BY <1>3, <1>5
<1>7. l \in Nat /\ DOMAIN freed = 1 .. l
  BY <1>1
<1>8. /\ all \in Seq(DOMAIN ch) /\ Len(all) = l + Len(new)
      /\ \A k \in 1 .. l + Len(new) : all[k] = IF k <= l THEN freed[k] ELSE new[k - l]
  BY <1>1, <1>6, ConcatProperties, Zenon
<1> HIDE DEF all, l
<1>9. DOMAIN all = 1 .. (l + n) /\ \A k \in 1 .. (l + n) : all[k] = IF k <= l THEN freed[k] ELSE new[k - l]
  BY <1>5, <1>6, <1>7, <1>8
<1>10. ASSUME NEW k \in 1 .. (l + n)
       PROVE  \/ k \in 1 .. l /\ all[k] = freed[k] /\ ch[all[k]] = NoChunk
              \/ k \notin 1 .. l /\ k - l \in 1 .. n /\ all[k] = new[k - l] /\ all[k] \in Z
  <2>1. CASE k <= l
    <3>1. k \in 1 .. l
      BY <1>7, <2>1
    <3> QED
      BY <1>1, <1>7, <1>9, <2>1, <3>1
  <2>2. CASE ~(k <= l)
    <3>1. k \notin 1 .. l /\ k - l \in 1 .. n
      BY <1>5, <1>7, <2>2
    <3> QED
      BY <1>5, <1>9, <2>2, <3>1
  <2> QED
    BY <2>1, <2>2
<1>11. \A s \in Z : ch[s] # NoChunk
  BY <1>3 DEF NoChunk
<1>12. ASSUME NEW j \in 1 .. (l + n), NEW k \in 1 .. (l + n), all[j] = all[k] PROVE j = k
  <2>1. CASE j \in 1 .. l /\ k \in 1 .. l
    BY <1>1, <1>7, <1>10, <1>12, <2>1 DEF IsInjective
  <2>2. CASE (j \in 1 .. l /\ k \notin 1 .. l) \/ (j \notin 1 .. l /\ k \in 1 .. l)
    BY <1>10, <1>11, <1>12, <2>2
  <2>3. CASE j \notin 1 .. l /\ k \notin 1 .. l
    <3>1. j - l = k - l
      BY <1>5, <1>10, <1>12, <2>3
    <3> QED
      BY <1>7, <3>1
  <2> QED
    BY <2>1, <2>2, <2>3
<1>13. ch2 = [s \in DOMAIN ch |-> IF s \in Z THEN NoChunk ELSE ch[s]]
  BY DEF freedTable
<1> HIDE DEF ch2
<1>14. NoChunk \in ChunkInfos
  BY DEF ChunkInfos
<1>15. ch2 \in Seq(ChunkInfos) /\ DOMAIN ch2 = DOMAIN ch
       /\ \A s \in DOMAIN ch : (s \in Z \/ ch[s] = NoChunk) => ch2[s] = NoChunk
  <2>1. \A s \in DOMAIN ch : ch2[s] \in ChunkInfos
    BY <1>1, <1>13, <1>14
  <2>2. ch2 \in [1 .. Len(ch) -> ChunkInfos]
    BY <1>2, <1>13, <2>1
  <2> QED
    BY <1>2, <1>13, <2>2
<1>16. \A k \in DOMAIN all : all[k] \in DOMAIN ch /\ ch2[all[k]] = NoChunk
  <2> SUFFICES ASSUME NEW k \in DOMAIN all PROVE all[k] \in DOMAIN ch /\ ch2[all[k]] = NoChunk
    OBVIOUS
  <2>1. all[k] \in DOMAIN ch
    BY <1>8
  <2>2. ch[all[k]] = NoChunk \/ all[k] \in Z
    BY <1>9, <1>10, Zenon
  <2> QED
    BY <1>15, <2>1, <2>2, Zenon
<1>17. IsTable(ch2, all, ChunkInfos, NoChunk)
  BY <1>8, <1>9, <1>12, <1>15, <1>16 DEF IsTable, IsInjective
<1> QED
  BY <1>17 DEF ch2, all, new

\* Unused chunks are given back.
LEMMA releaseChunkKeeps ==
    ASSUME IInv, releaseChunk
    PROVE  IInv'
<1> DEFINE st == Drained.stacks
           ch == Drained.chunks
           pq == Drained.pending
           Z == released(ch)
           ch2 == freedTable(ch, Z)
           st2 == [i \in Class |-> removeBlocksInChunks(st[i], Z)]
           pq2 == keptItems(pq, Z)
           bk2 == backed \ {chunks[s].base : s \in Z}
<1>1. /\ pending_queue' = pq2 /\ ready_queue' = << >> /\ stacks' = st2
      /\ backed' = bk2
      /\ chunks' = ch2 /\ chunk_free' = chunk_free \o InOrder(Z)
      /\ entries' = entries /\ entry_free' = entry_free
      /\ flushing' = flushing /\ live' = live /\ busy' = busy
  BY DEF releaseChunk, large
<1>2. /\ pq = stillPending
      /\ ch \in Seq(ChunkInfos) /\ SameChunks(chunks, ch)
      /\ Blocks(ch, st, pq, << >>, live)
  BY DrainFacts
<1>3. /\ IsTable(ch, chunk_free, ChunkInfos, NoChunk) /\ AreBacked(ch, entries, backed)
      /\ \A w \in busy : w.base \in backed =>
            \/ \E p \in live : RegionOf(p.block) = w
            \/ \E x \in Queued(pq) : RegionOf(x) = w
  BY <1>2, DrainTables
<1>4. Z \in SUBSET Alive(ch)
  BY DEF released, releasable, Alive
<1> HIDE DEF st, ch, pq
<1>5. Blocks(ch2, st2, pq2, << >>, live) /\ Queued(pq2) = Queued(pq)
  BY <1>2, ReleaseBlocks, Zenon
<1>6. IsTable(ch2, chunk_free \o InOrder(Z), ChunkInfos, NoChunk)
  <2> HIDE DEF Z
  <2> QED
    BY <1>3, <1>4, TableFreed
<1> HIDE DEF Z, st2, pq2
<1>7. Alive(ch2) = Alive(ch) \ Z /\ \A s \in Alive(ch2) : ch2[s] = ch[s]
  <2>1. ch2 = [s \in DOMAIN ch |-> IF s \in Z THEN NoChunk ELSE ch[s]]
    BY DEF freedTable
  <2> HIDE DEF ch2
  <2>2. DOMAIN ch2 = DOMAIN ch /\ \A s \in DOMAIN ch : (s \in Z => ~ ch2[s].alive) /\ (s \notin Z => ch2[s] = ch[s])
    BY <2>1 DEF NoChunk
  <2> QED
    BY <2>2 DEF Alive
<1>8. \A s \in Alive(ch) : chunks[s].base = ch[s].base
  BY <1>2 DEF SameChunks, Alive
<1> HIDE DEF ch2
<1>9. AreBacked(ch2, entries, bk2)
  <2>1. /\ backed = {ch[s].base : s \in Alive(ch)} \cup {entries[e].base : e \in InUse(entries)}
        /\ \A s, t \in Alive(ch) : ch[s].base = ch[t].base => s = t
        /\ \A s \in Alive(ch), e \in InUse(entries) : ch[s].base # entries[e].base
        /\ \A e, f \in InUse(entries) : entries[e].base = entries[f].base => e = f
    BY <1>3 DEF AreBacked
  <2>2. \A s \in Z : s \in Alive(ch) /\ chunks[s].base = ch[s].base
    BY <1>4, <1>8
  <2>3. ASSUME NEW x \in bk2
        PROVE  x \in {ch2[s].base : s \in Alive(ch2)} \cup {entries[e].base : e \in InUse(entries)}
    <3>1. x \in backed /\ \A s \in Z : x # ch[s].base
      BY <2>2
    <3>2. CASE \E e \in InUse(entries) : x = entries[e].base
      BY <3>2
    <3>3. CASE \E s \in Alive(ch) : x = ch[s].base
      BY <1>7, <3>1, <3>3
    <3> QED
      BY <2>1, <3>1, <3>2, <3>3
  <2>4. ASSUME NEW s \in Alive(ch2) PROVE ch2[s].base \in bk2
    <3>1. s \in Alive(ch) /\ s \notin Z /\ ch2[s] = ch[s]
      BY <1>7
    <3>2. ch[s].base \in backed
      BY <2>1, <3>1
    <3>3. \A z \in Z : ch[s].base # chunks[z].base
      BY <2>1, <2>2, <3>1
    <3> QED
      BY <3>1, <3>2, <3>3
  <2>5. ASSUME NEW e \in InUse(entries) PROVE entries[e].base \in bk2
    <3>1. entries[e].base \in backed
      BY <2>1
    <3>2. \A z \in Z : entries[e].base # chunks[z].base
      BY <2>1, <2>2
    <3> QED
      BY <3>1, <3>2
  <2>6. bk2 = {ch2[s].base : s \in Alive(ch2)} \cup {entries[e].base : e \in InUse(entries)}
    <3> HIDE DEF bk2
    <3> QED
      BY <2>3, <2>4, <2>5
  <2> QED
    BY <1>7, <2>1, <2>6 DEF AreBacked
<1>10. bk2 \subseteq backed
  OBVIOUS
<1> HIDE DEF bk2
<1>11. Tables'
  <2>1. IsTable(entries, entry_free, EntryInfos, NoEntry)
    BY DEF IInv, Tables
  <2> QED
    BY <1>1, <1>6, <1>9, <2>1, Zenon DEF Tables
<1>12. Blocks(chunks, stacks, pending_queue, ready_queue, live)'
  BY <1>1, <1>5, Zenon
<1>13. AreHeld(live, entries)'
  BY <1>1 DEF IInv
<1>14. EntriesHeld'
  BY <1>1 DEF IInv, EntriesHeld
<1>15. WorkIsOwned'
  BY <1>1, <1>3, <1>5, <1>10 DEF WorkIsOwned
<1>16. flushing' \in BOOLEAN
  BY <1>1 DEF IInv
<1> QED
  BY <1>11, <1>12, <1>13, <1>14, <1>15, <1>16 DEF IInv

\* flushPending moves items from one queue to the other.
LEMMA FlushStepKeeps ==
    ASSUME IInv, FlushStep
    PROVE  IInv'
<1>1. /\ pending_queue' = stillPending /\ ready_queue' = nowReady
      /\ flushing' = (~ flushDone(stillPending, nowReady))
      /\ chunks' = chunks /\ chunk_free' = chunk_free /\ entries' = entries /\ entry_free' = entry_free
      /\ stacks' = stacks /\ backed' = backed /\ live' = live /\ busy' = busy
  BY DEF FlushStep, locator, large
<1>2. /\ Blocks(chunks, stacks, pending_queue, ready_queue, live)
      /\ IsQueue(pending_queue) /\ IsQueue(ready_queue)
      /\ Queued(pending_queue) \cap Queued(ready_queue) = {}
  BY DEF IInv, Blocks
<1>3. /\ IsQueue(stillPending) /\ IsQueue(nowReady)
      /\ Queued(stillPending) \cap Queued(nowReady) = {}
      /\ Queued(stillPending) \cup Queued(nowReady) = Queued(pending_queue) \cup Queued(ready_queue)
  BY <1>2, QueuesDrained
<1>4. Blocks(chunks, stacks, stillPending, nowReady, live)
  BY <1>2, <1>3, Zenon DEF Blocks
<1>5. Blocks(chunks, stacks, pending_queue, ready_queue, live)'
  BY <1>1, <1>4
<1>6. Tables'
  BY <1>1 DEF IInv, Tables
<1>7. AreHeld(live, entries)' /\ EntriesHeld'
  BY <1>1 DEF IInv, EntriesHeld
<1>8. WorkIsOwned'
  BY <1>1, DrainTables DEF WorkIsOwned
<1>9. flushing' \in BOOLEAN
  BY <1>1
<1> QED
  BY <1>5, <1>6, <1>7, <1>8, <1>9 DEF IInv

\* Device work begins and ends.
LEMMA DeviceKeeps ==
    ASSUME IInv, (\E o \in live : Submit(o)) \/ (\E r \in busy : Complete(r)) \/ StartFlush \/ UNCHANGED vars
    PROVE  IInv'
<1>1. /\ pending_queue' = pending_queue /\ ready_queue' = ready_queue
      /\ chunks' = chunks /\ chunk_free' = chunk_free /\ entries' = entries /\ entry_free' = entry_free
      /\ stacks' = stacks /\ backed' = backed /\ live' = live
      /\ flushing' \in BOOLEAN
      /\ \A w \in busy' : w \in busy \/ \E o \in live : RegionOf(o.block) = w
  <2>1. CASE \E o \in live : Submit(o)
    BY <2>1 DEF Submit, locator, large, reuse, IInv
  <2>2. CASE \E r \in busy : Complete(r)
    BY <2>2 DEF Complete, locator, large, reuse, IInv
  <2>3. CASE StartFlush
    BY <2>3 DEF StartFlush, locator, large
  <2>4. CASE UNCHANGED vars
    BY <2>4 DEF vars, locator, large, reuse, IInv
  <2> QED
    BY <2>1, <2>2, <2>3, <2>4
<1>2. Blocks(chunks, stacks, pending_queue, ready_queue, live)'
  BY <1>1 DEF IInv
<1>3. Tables'
  BY <1>1 DEF IInv, Tables
<1>4. AreHeld(live, entries)' /\ EntriesHeld'
  BY <1>1 DEF IInv, EntriesHeld
<1>5. WorkIsOwned'
  BY <1>1 DEF IInv, WorkIsOwned
<1> QED
  BY <1>1, <1>2, <1>3, <1>4, <1>5 DEF IInv

\* The pool starts empty.
LEMMA InitHolds == Init => IInv
<1> SUFFICES ASSUME Init PROVE IInv
  OBVIOUS
<1>1. /\ chunks = << >> /\ chunk_free = << >> /\ entries = << >> /\ entry_free = << >>
      /\ stacks = [i \in Class |-> << >>] /\ pending_queue = << >> /\ ready_queue = << >>
      /\ flushing = FALSE /\ backed = {} /\ live = {} /\ busy = {}
  BY DEF Init
<1>2. Alive(chunks) = {} /\ InUse(entries) = {} /\ SmallOf(live) = {}
  BY <1>1 DEF Alive, InUse, SmallOf
<1>3. Queued(pending_queue) = {} /\ Queued(ready_queue) = {} /\ IsQueue(pending_queue) /\ IsQueue(ready_queue)
  BY <1>1, EmptyQueue
<1>4. AreStacks(stacks) /\ Stacked(stacks) = {}
  <2>1. \A i \in Class : stacks[i] = << >>
    BY <1>1
  <2>2. << >> \in Seq(ChunkBlocks) /\ IsInjective(<< >>) /\ ToSet(<< >>) = {} /\ DOMAIN << >> = {}
    BY DEF IsInjective, ToSet
  <2>3. stacks \in [Class -> Seq(ChunkBlocks)]
    BY <1>1, <2>2
  <2> QED
    BY <2>1, <2>2, <2>3 DEF AreStacks, Stacked
<1>5. Tables
  <2>1. AreBacked(chunks, entries, backed)
    BY <1>1, <1>2 DEF AreBacked
  <2>2. IsTable(chunks, chunk_free, ChunkInfos, NoChunk) /\ IsTable(entries, entry_free, EntryInfos, NoEntry)
    BY <1>1 DEF IsTable, IsInjective
  <2> QED
    BY <2>1, <2>2 DEF Tables
<1>6. Blocks(chunks, stacks, pending_queue, ready_queue, live)
  <2>1. Apart({}, {}, {}) /\ IsCut(chunks, {}) /\ AreCounted(chunks, {}, {})
    BY <1>2 DEF Apart, IsCut, AreCounted
  <2>2. {} \cup {} = {} /\ {} \cap {} = {}
    OBVIOUS
  <2> QED
    BY <1>2, <1>3, <1>4, <2>1, <2>2, Zenon DEF Blocks
<1>7. AreHeld(live, entries)
  BY <1>1 DEF AreHeld
<1>8. EntriesHeld
  BY <1>2 DEF EntriesHeld
<1>9. WorkIsOwned
  BY <1>1 DEF WorkIsOwned
<1> QED
  BY <1>1, <1>5, <1>6, <1>7, <1>8, <1>9 DEF IInv

\* Every step keeps the invariant.
LEMMA NextKeeps == IInv /\ [Next]_vars => IInv'
<1> SUFFICES ASSUME IInv, [Next]_vars PROVE IInv'
  OBVIOUS
<1>1. ASSUME NEW size \in Request, AllocateFromList(size) PROVE IInv'
  BY <1>1, AllocateFromListKeeps
<1>2. ASSUME NEW size \in Request, AllocateFails(size) PROVE IInv'
  BY <1>2, DrainKeeps DEF AllocateFails, SetQueues
<1>3. ASSUME NEW size \in Request, NEW base \in Base, AllocateExpanding(size, base) PROVE IInv'
  BY <1>3, AllocateExpandingKeeps
<1>4. ASSUME NEW size \in Request, NEW base \in Base, AllocateLarge(size, base) PROVE IInv'
  BY <1>4, AllocateLargeKeeps
<1>5. ASSUME NEW o \in live, Deallocate(o) PROVE IInv'
  BY <1>5, DeallocateKeeps
<1>6. ASSUME NEW o \in live, DeallocateLarge(o) PROVE IInv'
  BY <1>6, DeallocateLargeKeeps
<1>7. CASE (\E o \in live : Submit(o)) \/ (\E r \in busy : Complete(r)) \/ StartFlush \/ UNCHANGED vars
  BY <1>7, DeviceKeeps
<1>8. CASE processPendingReuses
  BY <1>8, DrainKeeps DEF processPendingReuses, SetQueues
<1>9. CASE releaseChunk
  BY <1>9, releaseChunkKeeps
<1>10. CASE FlushStep
  BY <1>10, FlushStepKeeps
<1> QED
  BY <1>1, <1>2, <1>3, <1>4, <1>5, <1>6, <1>7, <1>8, <1>9, <1>10 DEF Next

\* The invariant of the pool.
THEOREM PoolInvariant == Spec => []IInv
<1>1. Init => IInv
  BY InitHolds
<1>2. IInv /\ [Next]_vars => IInv'
  BY NextKeeps
<1> QED
  BY <1>1, <1>2, PTL DEF Spec

-----------------------------------------------------------------------------
(* What the invariant says.                                                *)

\* The blocks are chunks, cut.
LEMMA PartitionFollows == IInv => BlocksPartitionChunks
<1> SUFFICES ASSUME IInv PROVE BlocksPartitionChunks
  OBVIOUS
<1> DEFINE P == Queued(pending_queue)
           R == Queued(ready_queue)
           L == SmallOf(live)
           F == Stacked(stacks)
           all == LiveBlocks \cup WaitingBlocks \cup FreeBlocks
<1>1. /\ IsQueue(pending_queue) /\ IsQueue(ready_queue) /\ P \cap R = {} /\ AreStacks(stacks)
      /\ Apart(P \cup R, L, F) /\ IsCut(chunks, P \cup R \cup L \cup F)
      /\ AreHeld(live, entries)
  BY DEF IInv, Blocks
<1>2. ToSet(Freed(pending_queue)) = P /\ ToSet(Freed(ready_queue)) = R
  BY DEF ToSet, Freed, Queued
<1>3. WaitingBlocks = P \cup R /\ FreeBlocks = F /\ AliveChunks = Alive(chunks)
  BY <1>2 DEF WaitingBlocks, FreeBlocks, Stacked, AliveChunks, Alive
<1>4. IsInjective(Freed(pending_queue)) /\ IsInjective(Freed(ready_queue))
  <2>1. ASSUME NEW q, IsQueue(q) PROVE IsInjective(Freed(q))
    <3>1. DOMAIN Freed(q) = DOMAIN q /\ \A k \in DOMAIN q : Freed(q)[k] = q[k].block
      BY DEF Freed
    <3> QED
      BY <2>1, <3>1 DEF IsQueue, IsInjective
  <2> QED
    BY <1>1, <2>1
<1>5. ASSUME NEW b \in LiveBlocks
      PROVE  \/ b \in L /\ b.kind = "chunk"
             \/ b.kind = "large"
  <2>1. PICK o \in live : b = o.block
    BY DEF LiveBlocks
  <2>2. o.size \in Nat /\ MaxBlock \in Nat
    BY <1>1, SizesAssumption DEF AreHeld
  <2>3. CASE o.size <= MaxBlock
    <3>1. b \in ChunkBlocks
      BY <1>1, <2>1, <2>3 DEF AreHeld
    <3> QED
      BY <2>1, <2>3, <3>1 DEF SmallOf, ChunkBlocks
  <2>4. CASE o.size > MaxBlock
    <3>1. b = LargeBlock(b.slot, b.base, o.size)
      BY <1>1, <2>1, <2>4 DEF AreHeld
    <3> QED
      BY <3>1 DEF LargeBlock
  <2> QED
    BY <2>2, <2>3, <2>4
<1>6. L \subseteq LiveBlocks
  BY DEF SmallOf, LiveBlocks
<1>7. \A b \in P \cup R \cup L \cup F : b \in ChunkBlocks /\ b.kind = "chunk" /\ b.slot \in Alive(chunks)
  BY <1>1 DEF IsCut, ChunkBlocks
<1> HIDE DEF P, R, L, F
<1>8. EachBlockOnce
  <2>1. \A o, p \in live : o.block = p.block => o = p
    BY <1>1 DEF AreHeld
  <2>2. LiveBlocks \cap (P \cup R) = {} /\ F \cap (LiveBlocks \cup P \cup R) = {}
    BY <1>1, <1>5, <1>7 DEF Apart
  <2>3. \A i \in Class : IsInjective(stacks[i])
    BY <1>1 DEF AreStacks
  <2>4. \A i, j \in Class : i # j => ToSet(stacks[i]) \cap ToSet(stacks[j]) = {}
    <3> SUFFICES ASSUME NEW i \in Class, NEW j \in Class, i # j, NEW b \in ToSet(stacks[i]), b \in ToSet(stacks[j])
                 PROVE  FALSE
      OBVIOUS
    <3>1. b.size = sizeClassToBlockSize(i) /\ b.size = sizeClassToBlockSize(j)
      BY <1>1 DEF AreStacks, ToSet
    <3> QED
      BY <3>1, ClassSizes
  <2> QED
    BY <1>1, <1>2, <1>3, <1>4, <2>1, <2>2, <2>3, <2>4 DEF EachBlockOnce
<1>9. \A b \in all : b.kind = "chunk" => b \in P \cup R \cup L \cup F
  BY <1>3, <1>5
<1>10. \A b \in all : b.kind = "chunk" => b.slot \in AliveChunks
  BY <1>3, <1>7, <1>9
<1>11. P \cup R \cup L \cup F \subseteq all
  BY <1>3, <1>6
<1> HIDE DEF all
<1>12. ASSUME NEW s \in AliveChunks
       PROVE  /\ chunks[s].size >= ChunkSize
              /\ \E size \in BlockSize :
                    /\ chunks[s].size % size = 0
                    /\ BlocksOfChunk(all, s) =
                         {ChunkBlock(s, chunks[s].base, k * size, size) :
                            k \in 0 .. chunks[s].size \div size - 1}
  <2>1. PICK size \in BlockSize : /\ chunks[s].size = blockCount(size) * size
                                  /\ Of(P \cup R \cup L \cup F, s) = Cut(s, chunks[s].base, size)
    BY <1>1, <1>3 DEF IsCut
  <2>2. BlocksOfChunk(all, s) = Of(P \cup R \cup L \cup F, s)
    BY <1>7, <1>9, <1>11 DEF BlocksOfChunk, Of
  <2>3. /\ chunks[s].size >= ChunkSize /\ chunks[s].size % size = 0
        /\ chunks[s].size \div size = blockCount(size)
    <3>1. size \in Sizes
      BY ClassSizes
    <3> QED
      BY <2>1, <3>1, CountFacts
  <2>4. BlocksOfChunk(all, s) =
          {ChunkBlock(s, chunks[s].base, k * size, size) : k \in 0 .. chunks[s].size \div size - 1}
    BY <2>1, <2>2, <2>3, Zenon DEF Cut
  <2> QED
    BY <2>3, <2>4
<1> QED
  BY <1>8, <1>10, <1>12, Zenon DEF BlocksPartitionChunks, all

\* The counters are the numbers of blocks.
LEMMA CountsFollow == IInv => CountsExact
<1> SUFFICES ASSUME IInv, NEW s \in AliveChunks
             PROVE  LET waiting == Cardinality(BlocksOfChunk(WaitingBlocks, s)) IN
                    /\ chunks[s].pending = waiting
                    /\ chunks[s].used = waiting + Cardinality(BlocksOfChunk(LiveBlocks, s))
  BY DEF CountsExact
<1> DEFINE W == Queued(pending_queue) \cup Queued(ready_queue)
           L == SmallOf(live)
           F == Stacked(stacks)
<1>1. /\ IsCut(chunks, W \cup L \cup F) /\ AreCounted(chunks, W, L) /\ AreHeld(live, entries)
  BY DEF IInv, Blocks
<1>2. WaitingBlocks = W /\ s \in Alive(chunks)
  <2>1. ToSet(Freed(pending_queue)) = Queued(pending_queue) /\ ToSet(Freed(ready_queue)) = Queued(ready_queue)
    BY DEF ToSet, Freed, Queued
  <2> QED
    BY <2>1 DEF WaitingBlocks, AliveChunks, Alive
<1>3. \A b \in W \cup L \cup F : b.kind = "chunk"
  BY <1>1 DEF IsCut, ChunkBlocks
<1>4. BlocksOfChunk(WaitingBlocks, s) = Of(W, s)
  BY <1>2, <1>3 DEF BlocksOfChunk, Of
<1>5. BlocksOfChunk(LiveBlocks, s) = Of(L, s)
  <2>1. ASSUME NEW b \in LiveBlocks, b.kind = "chunk" PROVE b \in L
    <3>1. PICK o \in live : b = o.block
      BY DEF LiveBlocks
    <3>2. o.size \in Nat /\ MaxBlock \in Nat
      BY <1>1, SizesAssumption DEF AreHeld
    <3>3. ~(o.size > MaxBlock)
      <4> SUFFICES ASSUME o.size > MaxBlock PROVE FALSE
        OBVIOUS
      <4>1. b = LargeBlock(b.slot, b.base, o.size)
        BY <1>1, <3>1 DEF AreHeld
      <4>2. b.kind = "large"
        BY <4>1 DEF LargeBlock
      <4> QED
        BY <2>1, <4>2
    <3>4. o.size <= MaxBlock
      BY <3>2, <3>3
    <3> QED
      BY <3>1, <3>4 DEF SmallOf
  <2>2. L \subseteq LiveBlocks /\ \A b \in L : b.kind = "chunk"
    BY <1>3 DEF SmallOf, LiveBlocks
  <2> HIDE DEF L
  <2> QED
    BY <2>1, <2>2 DEF BlocksOfChunk, Of
<1>6. chunks[s].pending = Cardinality(Of(W, s)) /\ chunks[s].used = Cardinality(Of(W, s)) + Cardinality(Of(L, s))
  BY <1>1, <1>2 DEF AreCounted
<1> HIDE DEF W, L
<1> QED
  BY <1>4, <1>5, <1>6, Zenon

\* BlocksPartitionChunks: in every reachable state of the pool, for any block
\* sizes, the held, the waiting and the free blocks are the chunks, cut.
THEOREM PartitionChunks == Spec => []BlocksPartitionChunks
BY PoolInvariant, PartitionFollows, PTL

\* CountsExact: the two counters findReleasable looks at count the blocks.
THEOREM ExactCounts == Spec => []CountsExact
BY PoolInvariant, CountsFollow, PTL

\* StacksUniform: the blocks on the stack of a class have its size.
THEOREM UniformStacks == Spec => []StacksUniform
<1>1. IInv => StacksUniform
  BY DEF IInv, Blocks, AreStacks, StacksUniform
<1> QED
  BY <1>1, PoolInvariant, PTL

\* One call of releaseChunk with nothing held and nothing submitted.
LEMMA ReleaseAll ==
    ASSUME IInv, releaseChunk, live = {}, busy = {}
    PROVE  backed' = {}
<1> DEFINE ch == Drained.chunks
           Z == released(ch)
<1>1. backed' = backed \ {chunks[s].base : s \in Z}
  BY DEF releaseChunk
<1>2. /\ SameChunks(chunks, ch) /\ Blocks(ch, Drained.stacks, stillPending, << >>, live)
      /\ Queued(stillPending) = {b \in Queued(pending_queue) : RegionOf(b) \in busy}
  BY DrainFacts
<1>3. Alive(ch) = Alive(chunks)
  BY DrainTables
<1> HIDE DEF ch
<1>4. Queued(stillPending) = {} /\ SmallOf(live) = {}
  BY <1>2 DEF SmallOf
<1>5. ASSUME NEW s \in Alive(ch) PROVE s \in Z
  <2>1. AreCounted(ch, {}, {})
    <3>1. AreCounted(ch, Queued(stillPending) \cup Queued(<< >>), SmallOf(live))
      BY <1>2 DEF Blocks
    <3>2. Queued(stillPending) \cup Queued(<< >>) = {}
      BY <1>4, EmptyQueue
    <3> QED
      BY <1>4, <3>1, <3>2, Zenon
  <2>2. Of({}, s) = {} /\ Cardinality({}) = 0
    BY FS_EmptySet DEF Of
  <2>3. ch[s].pending = 0 /\ ch[s].used = 0
    BY <2>1, <2>2 DEF AreCounted
  <2> QED
    BY <2>3 DEF released, releasable, Alive
<1>6. InUse(entries) = {}
  BY DEF IInv, EntriesHeld
<1>7. backed = {chunks[s].base : s \in Alive(chunks)} \cup {entries[e].base : e \in InUse(entries)}
  BY DEF IInv, Tables, AreBacked
<1> HIDE DEF Z
<1> QED
  BY <1>1, <1>3, <1>5, <1>6, <1>7

\* ReleaseReturnsAll: whatever calls came before, one call of releaseChunk
\* with nothing held and an idle device gives all the memory back.
THEOREM ReleasingReturnsAll == Spec => ReleaseReturnsAll
<1>1. IInv /\ [Next]_vars => [releaseChunk /\ live = {} /\ busy = {} => backed' = {}]_vars
  BY ReleaseAll
<1> QED
  BY <1>1, PoolInvariant, PTL DEF Spec, ReleaseReturnsAll

-----------------------------------------------------------------------------
(* The pool implements DisjointBuffers.                                    *)

\* Where a block of a chunk lies.
LEMMA BlockPlace ==
    ASSUME NEW ch, NEW all, IsCut(ch, all), NEW b \in all
    PROVE  /\ b \in ChunkBlocks /\ b.slot \in Alive(ch) /\ b.base = ch[b.slot].base
           /\ b.size \in BlockSize /\ b.size \in Sizes
           /\ \E k \in 0 .. blockCount(b.size) - 1 : b.offset = k * b.size
<1>1. b \in ChunkBlocks /\ b.slot \in Alive(ch)
  BY DEF IsCut
<1>2. PICK z \in BlockSize : Of(all, b.slot) = Cut(b.slot, ch[b.slot].base, z)
  BY <1>1 DEF IsCut
<1>3. b \in Of(all, b.slot)
  BY DEF Of
<1>4. PICK k \in 0 .. blockCount(z) - 1 : b = ChunkBlock(b.slot, ch[b.slot].base, k * z, z)
  BY <1>2, <1>3 DEF Cut
<1>5. b.base = ch[b.slot].base /\ b.size = z /\ b.offset = k * z
  <2> DEFINE m == k * z
  <2>1. b = ChunkBlock(b.slot, ch[b.slot].base, m, z)
    BY <1>4
  <2> HIDE DEF m
  <2>2. b.base = ch[b.slot].base /\ b.size = z /\ b.offset = m
    BY <2>1 DEF ChunkBlock
  <2> QED
    BY <2>2 DEF m
<1> QED
  BY <1>1, <1>4, <1>5, ClassSizes

\* The blocks of a chunk have one size.
LEMMA OneSize ==
    ASSUME NEW ch, NEW all, IsCut(ch, all), NEW b \in all, NEW c \in all, b.slot = c.slot
    PROVE  b.size = c.size
<1>1. b.slot \in Alive(ch)
  BY DEF IsCut
<1>2. PICK z \in BlockSize : Of(all, b.slot) = Cut(b.slot, ch[b.slot].base, z)
  BY <1>1 DEF IsCut
<1>3. b \in Of(all, b.slot) /\ c \in Of(all, b.slot)
  BY DEF Of
<1>4. \A x \in Cut(b.slot, ch[b.slot].base, z) : x.size = z
  BY DEF Cut, ChunkBlock
<1> QED
  BY <1>2, <1>3, <1>4

\* Two blocks of the chunks do not overlap.
LEMMA ChunkBlocksApart ==
    ASSUME NEW ch, NEW en, NEW bk, NEW all, IsCut(ch, all), AreBacked(ch, en, bk),
           NEW b \in all, NEW c \in all, b # c
    PROVE  ~ Abstract!Overlap(RegionOf(b), RegionOf(c))
<1>1. /\ b \in ChunkBlocks /\ b.slot \in Alive(ch) /\ b.base = ch[b.slot].base /\ b.size \in Sizes
      /\ \E k \in 0 .. blockCount(b.size) - 1 : b.offset = k * b.size
  BY BlockPlace
<1>2. /\ c \in ChunkBlocks /\ c.slot \in Alive(ch) /\ c.base = ch[c.slot].base
      /\ \E k \in 0 .. blockCount(c.size) - 1 : c.offset = k * c.size
  BY BlockPlace
<1>3. /\ RegionOf(b).base = b.base /\ RegionOf(b).offset = b.offset /\ RegionOf(b).size = b.size
      /\ RegionOf(c).base = c.base /\ RegionOf(c).offset = c.offset /\ RegionOf(c).size = c.size
  BY DEF RegionOf
<1>4. CASE b.slot # c.slot
  <2>1. b.base # c.base
    BY <1>1, <1>2, <1>4 DEF AreBacked
  <2> QED
    BY <1>3, <2>1 DEF Abstract!Overlap
<1>5. CASE b.slot = c.slot
  <2>1. b.size = c.size /\ b.base = c.base
    BY <1>1, <1>2, <1>5, OneSize
  <2>2. b.offset # c.offset
    <3>1. /\ b = ChunkBlock(b.slot, b.base, b.offset, b.size)
          /\ c = ChunkBlock(c.slot, c.base, c.offset, c.size)
      BY <1>1, <1>2 DEF ChunkBlocks, ChunkBlock
    <3> QED
      BY <1>5, <2>1, <3>1
  <2> DEFINE z == b.size
             n == blockCount(z)
  <2>3. n \in Nat /\ z \in Nat /\ z > 0
    BY <1>1, CountFacts DEF Sizes
  <2>4. PICK j \in 0 .. n - 1 : b.offset = j * z
    BY <1>1
  <2>5. PICK k \in 0 .. n - 1 : c.offset = k * z
    BY <1>2, <2>1
  <2> HIDE DEF z, n
  <2>6. j \in Nat /\ k \in Nat
    BY <2>3
  <2>7. j # k
    BY <2>2, <2>4, <2>5
  <2>8. ASSUME NEW x \in Nat, NEW y \in Nat, x < y PROVE x * z + z <= y * z
    <3>1. (x + 1) * z <= y * z
      BY <2>3, <2>8
    <3>2. (x + 1) * z = x * z + z
      BY <2>3
    <3> QED
      BY <3>1, <3>2
  <2>9. ~(j * z < k * z + z /\ k * z < j * z + z)
    <3>1. j * z \in Nat /\ k * z \in Nat
      BY <2>3, <2>6
    <3>2. CASE j < k
      <4>1. j * z + z <= k * z
        BY <2>6, <2>8, <3>2
      <4> QED
        BY <2>3, <3>1, <4>1
    <3>3. CASE k < j
      <4>1. k * z + z <= j * z
        BY <2>6, <2>8, <3>3
      <4> QED
        BY <2>3, <3>1, <4>1
    <3> QED
      BY <2>6, <2>7, <3>2, <3>3
  <2>10. RegionOf(b).offset = j * z /\ RegionOf(c).offset = k * z /\ RegionOf(b).size = z /\ RegionOf(c).size = z
    BY <1>3, <2>1, <2>4, <2>5 DEF z
  <2> QED
    BY <2>9, <2>10 DEF Abstract!Overlap
<1> QED
  BY <1>4, <1>5

\* What clients hold lies apart, from each other and from what waits.
HeldApart ==
    /\ \A o, p \in live : o # p => ~ Abstract!Overlap(RegionOf(o.block), RegionOf(p.block))
    /\ \A o \in live : \A x \in Queued(pending_queue) : ~ Abstract!Overlap(RegionOf(o.block), RegionOf(x))
    /\ \A o \in live : /\ RegionOf(o.block).base \in backed /\ RegionOf(o.block) \in Region
                       /\ o.size \in Request /\ RegionOf(o.block).size >= o.size
                       /\ Abstract!Overlap(RegionOf(o.block), RegionOf(o.block))

\* It follows from the invariant.
LEMMA HeldFollows == IInv => HeldApart
<1> SUFFICES ASSUME IInv PROVE HeldApart
  OBVIOUS
<1> DEFINE W == Queued(pending_queue) \cup Queued(ready_queue)
           L == SmallOf(live)
           F == Stacked(stacks)
           all == W \cup L \cup F
<1>1. /\ IsCut(chunks, all) /\ Apart(W, L, F) /\ AreHeld(live, entries)
      /\ AreBacked(chunks, entries, backed) /\ entries \in Seq(EntryInfos)
  BY DEF IInv, Blocks, Tables, IsTable
<1>2. \A x \in Queued(pending_queue) : x \in all /\ x \notin L
  BY <1>1 DEF Apart
<1>3. \A x \in L : x \in all
  OBVIOUS
<1> HIDE DEF all, L
\* A small block.
<1>4. ASSUME NEW o \in live, o.size <= MaxBlock
      PROVE  /\ o.block \in L /\ o.block \in all /\ o.block.slot \in Alive(chunks)
             /\ o.block.base = chunks[o.block.slot].base
             /\ RegionOf(o.block).base \in backed /\ RegionOf(o.block) \in Region
             /\ RegionOf(o.block).size >= o.size
             /\ RegionOf(o.block).offset \in Nat /\ RegionOf(o.block).size \in Sizes
  <2> DEFINE b == o.block
  <2>1. b \in L
    BY <1>4 DEF L, SmallOf
  <2>2. /\ b \in ChunkBlocks /\ b.slot \in Alive(chunks) /\ b.base = chunks[b.slot].base
        /\ b.size \in BlockSize /\ b.size \in Sizes
        /\ \E k \in 0 .. blockCount(b.size) - 1 : b.offset = k * b.size
    BY <1>1, <1>3, <2>1, BlockPlace
  <2>3. b.size >= o.size
    <3>1. b.size = blockSizeFor(o.size) /\ o.size \in Request
      BY <1>1, <1>4 DEF AreHeld
    <3> QED
      BY <1>4, <3>1, RequestClass
  <2> HIDE DEF b
  <2>4. RegionOf(b) = [base |-> b.base, offset |-> b.offset, size |-> b.size]
    BY DEF RegionOf
  <2>5. b.base \in backed /\ b.base \in Base /\ b.offset \in Nat
    BY <1>1, <2>2 DEF AreBacked, ChunkBlocks
  <2>6. RegionOf(b) \in Region
    <3>1. RegionOf(b) \in [base : Base, offset : {k * b.size : k \in 0 .. blockCount(b.size) - 1}, size : {b.size}]
      BY <2>2, <2>4, <2>5
    <3> QED
      BY <2>2, <3>1 DEF Region
  <2> QED
    BY <1>3, <2>1, <2>2, <2>3, <2>4, <2>5, <2>6 DEF b
\* A large block.
<1>5. ASSUME NEW o \in live, ~(o.size <= MaxBlock)
      PROVE  /\ o.block.slot \in InUse(entries) /\ o.block.base = entries[o.block.slot].base
             /\ o.size > MaxBlock
             /\ RegionOf(o.block).base \in backed /\ RegionOf(o.block) \in Region
             /\ RegionOf(o.block).size >= o.size
             /\ RegionOf(o.block).offset \in Nat /\ RegionOf(o.block).size \in Sizes
  <2> DEFINE b == o.block
  <2>1. o.size \in Request /\ o.size \in Nat \ {0} /\ MaxBlock \in Nat
    BY <1>1, SizesAssumption DEF AreHeld
  <2>2. o.size > MaxBlock
    BY <1>5, <2>1
  <2>3. /\ b = LargeBlock(b.slot, b.base, o.size)
        /\ b.slot \in InUse(entries) /\ entries[b.slot].base = b.base
    BY <1>1, <2>2 DEF AreHeld
  <2>4. b.base \in backed /\ b.base \in Base
    <3>1. entries[b.slot] \in EntryInfos /\ entries[b.slot].in_use
      BY <1>1, <2>3 DEF InUse
    <3>2. entries[b.slot].base \in Base
      <4> DEFINE e == entries[b.slot]
      <4>1. e \in EntryInfos /\ e.in_use
        BY <3>1
      <4> HIDE DEF e
      <4>2. e # NoEntry
        BY <4>1 DEF NoEntry
      <4>3. e \in [base : Base, in_use : {TRUE}]
        BY <4>1, <4>2 DEF EntryInfos
      <4>4. e.base \in Base
        BY <4>3
      <4> QED
        BY <4>4 DEF e
    <3> QED
      BY <1>1, <2>3, <3>2 DEF AreBacked
  <2> HIDE DEF b
  <2>5. RegionOf(b) = [base |-> b.base, offset |-> 0, size |-> o.size]
    <3>1. b.offset = 0 /\ b.size = o.size
      BY <2>3 DEF LargeBlock
    <3> QED
      BY <3>1 DEF RegionOf
  <2>6. RegionOf(b) \in Region
    <3>1. RegionOf(b) \in [base : Base, offset : {0}, size : {n \in Request : n > MaxBlock}]
      BY <2>1, <2>2, <2>4, <2>5
    <3> QED
      BY <3>1 DEF Region
  <2>7. RegionOf(b).base = b.base /\ RegionOf(b).offset = 0 /\ RegionOf(b).size = o.size
    BY <2>5
  <2>8. RegionOf(b).size >= o.size /\ RegionOf(b).offset \in Nat /\ RegionOf(b).size \in Sizes
    BY <2>1, <2>7 DEF Sizes
  <2> QED
    BY <2>2, <2>3, <2>4, <2>6, <2>7, <2>8 DEF b
<1>6. ASSUME NEW o \in live PROVE RegionOf(o.block).base = o.block.base
  BY DEF RegionOf
<1>7. ASSUME NEW o \in live, ~(o.size <= MaxBlock), NEW s \in Alive(chunks)
      PROVE  o.block.base # chunks[s].base
  BY <1>1, <1>5, <1>7 DEF AreBacked
<1>8. ASSUME NEW o \in live, NEW p \in live, o # p
      PROVE  ~ Abstract!Overlap(RegionOf(o.block), RegionOf(p.block))
  <2>1. o.block # p.block
    BY <1>1, <1>8 DEF AreHeld
  <2>2. CASE o.size <= MaxBlock /\ p.size <= MaxBlock
    <3>1. o.block \in all /\ p.block \in all
      BY <1>4, <2>2
    <3> QED
      BY <1>1, <2>1, <3>1, ChunkBlocksApart
  <2>3. CASE ~(o.size <= MaxBlock) /\ p.size <= MaxBlock
    <3>1. o.block.base # p.block.base
      BY <1>4, <1>7, <2>3
    <3> QED
      BY <1>6, <3>1 DEF Abstract!Overlap
  <2>4. CASE o.size <= MaxBlock /\ ~(p.size <= MaxBlock)
    <3>1. o.block.base # p.block.base
      BY <1>4, <1>7, <2>4
    <3> QED
      BY <1>6, <3>1 DEF Abstract!Overlap
  <2>5. CASE ~(o.size <= MaxBlock) /\ ~(p.size <= MaxBlock)
    <3>1. o.block.slot # p.block.slot
      BY <1>1, <1>5, <1>8, <2>5 DEF AreHeld
    <3>2. o.block.base # p.block.base
      BY <1>1, <1>5, <2>5, <3>1 DEF AreBacked
    <3> QED
      BY <1>6, <3>2 DEF Abstract!Overlap
  <2> QED
    BY <2>2, <2>3, <2>4, <2>5
<1>9. ASSUME NEW o \in live, NEW x \in Queued(pending_queue)
      PROVE  ~ Abstract!Overlap(RegionOf(o.block), RegionOf(x))
  <2>1. x \in all /\ x \notin L
    BY <1>2
  <2>2. CASE o.size <= MaxBlock
    <3>1. o.block \in all /\ o.block # x
      BY <1>4, <2>1, <2>2
    <3> QED
      BY <1>1, <2>1, <3>1, ChunkBlocksApart
  <2>3. CASE ~(o.size <= MaxBlock)
    <3>1. x.slot \in Alive(chunks) /\ x.base = chunks[x.slot].base
      BY <1>1, <2>1, BlockPlace
    <3>2. o.block.base # x.base
      BY <1>7, <2>3, <3>1
    <3>3. RegionOf(x).base = x.base
      BY DEF RegionOf
    <3> QED
      BY <1>6, <3>2, <3>3 DEF Abstract!Overlap
  <2> QED
    BY <2>2, <2>3
<1>10. ASSUME NEW o \in live
       PROVE  /\ RegionOf(o.block).base \in backed /\ RegionOf(o.block) \in Region
              /\ o.size \in Request /\ RegionOf(o.block).size >= o.size
              /\ Abstract!Overlap(RegionOf(o.block), RegionOf(o.block))
  <2>1. /\ RegionOf(o.block).base \in backed /\ RegionOf(o.block) \in Region
        /\ RegionOf(o.block).size >= o.size
        /\ RegionOf(o.block).offset \in Nat /\ RegionOf(o.block).size \in Sizes
    BY <1>4, <1>5
  <2>2. o.size \in Request
    BY <1>1 DEF AreHeld
  <2>3. RegionOf(o.block).offset < RegionOf(o.block).offset + RegionOf(o.block).size
    BY <2>1 DEF Sizes
  <2> QED
    BY <2>1, <2>2, <2>3 DEF Abstract!Overlap
<1> QED
  BY <1>8, <1>9, <1>10 DEF HeldApart

\* What holds of the state holds of the next one.
LEMMA HeldNext == IInv' => HeldApart'
BY HeldFollows, PTL

\* An allocation of the pool is one of the abstract pool.
LEMMA AllocateRefines ==
    ASSUME IInv', NEW o, live' = live \cup {o}, o \notin live, busy' = busy,
           \A w \in busy : w.base \in backed' =>
                \/ \E p \in live : RegionOf(p.block) = w
                \/ \E x \in Queued(pending_queue') : RegionOf(x) = w
    PROVE  \E r \in Region, n \in Request : Abstract!Allocate(r, n)
<1> DEFINE r == RegionOf(o.block)
<1>1. HeldApart'
  BY HeldNext
<1>2. o \in live' /\ \A p \in live : p \in live' /\ p # o
  OBVIOUS
<1>3. /\ \A p \in live : ~ Abstract!Overlap(r, RegionOf(p.block))
      /\ \A x \in Queued(pending_queue') : ~ Abstract!Overlap(r, RegionOf(x))
      /\ r.base \in backed' /\ r \in Region /\ o.size \in Request /\ r.size >= o.size
  BY <1>1, <1>2 DEF HeldApart
<1> HIDE DEF r
<1>4. \A q \in owned : ~ Abstract!Overlap(r, q.region)
  BY <1>3 DEF owned
<1>5. ASSUME NEW w \in busy PROVE ~ Abstract!Overlap(r, w)
  <2>1. CASE w.base \in backed'
    BY <1>3, <2>1
  <2>2. CASE w.base \notin backed'
    BY <1>3, <2>2 DEF Abstract!Overlap
  <2> QED
    BY <2>1, <2>2
<1>6. owned' = owned \cup {[region |-> r, size |-> o.size]}
  BY DEF owned, r
<1>7. Abstract!Allocate(r, o.size)
  BY <1>3, <1>4, <1>5, <1>6 DEF Abstract!Allocate
<1> QED
  BY <1>3, <1>7

\* A deallocation of the pool is one of the abstract pool.
LEMMA DeallocateRefines ==
    ASSUME IInv, NEW o \in live, live' = live \ {o}, busy' = busy
    PROVE  \E q \in owned : Abstract!Deallocate(q)
<1> DEFINE q == [region |-> RegionOf(o.block), size |-> o.size]
<1>1. HeldApart
  BY HeldFollows
<1>2. q \in owned
  BY DEF owned
<1>3. ASSUME NEW p \in live, p # o PROVE RegionOf(p.block) # RegionOf(o.block)
  BY <1>1, <1>3 DEF HeldApart
<1>4. owned' = owned \ {q}
  <2>1. ASSUME NEW x \in owned' PROVE x \in owned /\ x # q
    <3>1. PICK p \in live : p # o /\ x = [region |-> RegionOf(p.block), size |-> p.size]
      BY DEF owned
    <3>2. x.region = RegionOf(p.block) /\ q.region = RegionOf(o.block)
      BY <3>1
    <3> QED
      BY <1>3, <3>1, <3>2 DEF owned
  <2>2. ASSUME NEW x \in owned, x # q PROVE x \in owned'
    BY <2>2 DEF owned
  <2> QED
    BY <2>1, <2>2
<1> HIDE DEF q
<1> QED
  BY <1>2, <1>4 DEF Abstract!Deallocate

\* Every step of the pool is a step of the abstract pool, or none.
LEMMA StepRefines == IInv /\ IInv' /\ [Next]_vars => [Abstract!Next]_(Abstract!vars)
<1> SUFFICES ASSUME IInv, IInv', [Next]_vars
             PROVE  Abstract!Next \/ (owned' = owned /\ busy' = busy)
  BY DEF Abstract!vars
<1>0. /\ \A w \in busy : w.base \in backed =>
            \/ \E p \in live : RegionOf(p.block) = w
            \/ \E x \in Queued(stillPending) : RegionOf(x) = w
      /\ Drained.pending = stillPending
  BY DrainTables, DrainFacts
<1>1. ASSUME NEW size \in Request, AllocateFromList(size) PROVE Abstract!Next
  <2> DEFINE i == sizeClassIndex(blockSizeFor(size))
             b == Last(Drained.stacks[i])
             o == [block |-> b, size |-> size]
  <2>1. /\ live' = live \cup {o} /\ busy' = busy /\ backed' = backed
        /\ pending_queue' = Drained.pending /\ size <= MaxBlock /\ Drained.stacks[i] # << >>
    BY <1>1 DEF AllocateFromList, Give, SetQueues
  <2>2. i \in Class
    BY <2>1, RequestClass
  <2>3. b \notin SmallOf(live)
    <3>1. Drained.chunks \in Seq(ChunkInfos) /\ Blocks(Drained.chunks, Drained.stacks, stillPending, << >>, live)
      BY DrainFacts
    <3> HIDE DEF i
    <3> QED
      BY <2>1, <2>2, <3>1, TakeBlock
  <2>4. o.block = b /\ o.size = size
    OBVIOUS
  <2> HIDE DEF b, o
  <2>5. o \notin live
    BY <2>1, <2>3, <2>4 DEF SmallOf
  <2>6. \E r \in Region, n \in Request : Abstract!Allocate(r, n)
    BY <1>0, <2>1, <2>5, AllocateRefines
  <2> QED
    BY <2>6 DEF Abstract!Next
<1>2. ASSUME NEW size \in Request, NEW base \in Base, AllocateExpanding(size, base) PROVE Abstract!Next
  <2> DEFINE z == blockSizeFor(size)
             slot == reserveSlot(chunks, chunk_free)
             cut == CutBlocks(slot, base, blockCount(z), z)
             b == Last(cut)
             o == [block |-> b, size |-> size]
  <2>1. /\ live' = live \cup {o} /\ busy' = busy /\ backed' = backed \cup {base} /\ base \in Available
        /\ pending_queue' = Drained.pending /\ size <= MaxBlock
    BY <1>2 DEF AllocateExpanding, Give, SetQueues
  <2>2. base \notin backed /\ \A w \in busy : w.base # base
    BY <2>1 DEF Available
  <2>3. b.base = base
    <3>1. z \in Sizes
      BY <2>1, RequestClass
    <3>2. blockCount(z) \in Nat \ {0}
      BY <3>1, CountFacts
    <3> DEFINE n == blockCount(z)
    <3> HIDE DEF n, slot, z
    <3>3. n \in Nat \ {0} /\ cut = [k \in 1 .. n |-> ChunkBlock(slot, base, (k - 1) * z, z)]
      BY <3>2 DEF CutBlocks, n
    <3> HIDE DEF cut
    <3>4. Len(cut) = n
      BY <3>3
    <3>5. n \in 1 .. n
      BY <3>3
    <3>6. b = ChunkBlock(slot, base, (n - 1) * z, z)
      BY <3>3, <3>4, <3>5 DEF Last
    <3> DEFINE m == (n - 1) * z
    <3>7. b = ChunkBlock(slot, base, m, z)
      BY <3>6
    <3> HIDE DEF m, b
    <3> QED
      BY <3>7 DEF ChunkBlock
  <2>4. o.block = b /\ o.size = size
    OBVIOUS
  <2> HIDE DEF b, o
  <2>5. o \notin live
    <3>1. HeldApart
      BY HeldFollows
    <3>2. RegionOf(o.block).base = base
      BY <2>3, <2>4 DEF RegionOf
    <3> QED
      BY <2>2, <3>1, <3>2 DEF HeldApart
  <2>6. \A w \in busy : w.base \in backed' => w.base \in backed
    BY <2>1, <2>2
  <2>7. \E r \in Region, n \in Request : Abstract!Allocate(r, n)
    BY <1>0, <2>1, <2>5, <2>6, AllocateRefines
  <2> QED
    BY <2>7 DEF Abstract!Next
<1>3. ASSUME NEW size \in Request, NEW base \in Base, AllocateLarge(size, base) PROVE Abstract!Next
  <2> DEFINE slot == reserveSlot(entries, entry_free)
             b == LargeBlock(slot, base, size)
             o == [block |-> b, size |-> size]
  <2>1. /\ live' = live \cup {o} /\ busy' = busy /\ backed' = backed \cup {base} /\ base \in Available
        /\ pending_queue' = pending_queue
    BY <1>3 DEF AllocateLarge, Give, reuse
  <2>2. base \notin backed /\ \A w \in busy : w.base # base
    BY <2>1 DEF Available
  <2>3. b.base = base
    BY DEF LargeBlock
  <2>4. o.block = b /\ o.size = size
    OBVIOUS
  <2> HIDE DEF b, o
  <2>5. o \notin live
    <3>1. HeldApart
      BY HeldFollows
    <3>2. RegionOf(o.block).base = base
      BY <2>3, <2>4 DEF RegionOf
    <3> QED
      BY <2>2, <3>1, <3>2 DEF HeldApart
  <2>6. \A w \in busy : w.base \in backed' =>
            \/ \E p \in live : RegionOf(p.block) = w
            \/ \E x \in Queued(pending_queue') : RegionOf(x) = w
    BY <2>1, <2>2 DEF IInv, WorkIsOwned
  <2>7. \E r \in Region, n \in Request : Abstract!Allocate(r, n)
    BY <2>1, <2>5, <2>6, AllocateRefines
  <2> QED
    BY <2>7 DEF Abstract!Next
<1>4. ASSUME NEW o \in live, Deallocate(o) \/ DeallocateLarge(o) PROVE Abstract!Next
  <2>1. live' = live \ {o} /\ busy' = busy
    BY <1>4 DEF Deallocate, DeallocateLarge
  <2>2. \E q \in owned : Abstract!Deallocate(q)
    BY <2>1, DeallocateRefines
  <2> QED
    BY <2>2 DEF Abstract!Next
<1>5. ASSUME NEW o \in live, Submit(o) PROVE Abstract!Next
  <2> DEFINE q == [region |-> RegionOf(o.block), size |-> o.size]
  <2>1. q \in owned /\ q.region = RegionOf(o.block)
    BY DEF owned
  <2>2. busy' = busy \cup {q.region} /\ owned' = owned
    BY <1>5, <2>1 DEF Submit, owned
  <2> HIDE DEF q
  <2>3. Abstract!Submit(q)
    BY <2>2 DEF Abstract!Submit
  <2> QED
    BY <2>1, <2>3 DEF Abstract!Next
<1>6. ASSUME NEW r \in busy, Complete(r) PROVE Abstract!Next
  <2>1. busy' = busy \ {r} /\ owned' = owned
    BY <1>6 DEF Complete, owned
  <2>2. Abstract!Complete(r)
    BY <2>1 DEF Abstract!Complete
  <2> QED
    BY <2>2 DEF Abstract!Next
<1>7. ASSUME live' = live, busy' = busy PROVE owned' = owned /\ busy' = busy
  BY <1>7 DEF owned
<1>8. ASSUME NEW size \in Request, AllocateFails(size) PROVE live' = live /\ busy' = busy
  BY <1>8 DEF AllocateFails
<1>9. CASE processPendingReuses
  BY <1>7, <1>9 DEF processPendingReuses
<1>10. CASE releaseChunk
  BY <1>7, <1>10 DEF releaseChunk
<1>11. CASE StartFlush \/ FlushStep
  BY <1>7, <1>11 DEF StartFlush, FlushStep
<1>12. CASE UNCHANGED vars
  BY <1>7, <1>12 DEF vars
<1> QED
  BY <1>1, <1>2, <1>3, <1>4, <1>5, <1>6, <1>7, <1>8, <1>9, <1>10, <1>11, <1>12 DEF Next

\* ImplementsDisjointBuffers: for any sizes and any memory, what the pool does
\* is what DisjointBuffers allows: a region it hands out is large enough and
\* overlaps no other client's and none that unfinished device work uses.
THEOREM PoolImplementsDisjointBuffers == Spec => ImplementsDisjointBuffers
<1>1. Init => Abstract!Init
  BY DEF Init, Abstract!Init, owned
<1>2. IInv /\ IInv' /\ [Next]_vars => [Abstract!Next]_(Abstract!vars)
  BY StepRefines
<1> QED
  BY <1>1, <1>2, PoolInvariant, PTL DEF Spec, ImplementsDisjointBuffers, Abstract!Spec
=============================================================================
