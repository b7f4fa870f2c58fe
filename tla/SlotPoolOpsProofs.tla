------------------------- MODULE SlotPoolOpsProofs -------------------------
(***************************************************************************)
(* What the operations of a slot pool do to its arrays, for every pool     *)
(* size and every width of the generation field.  The proofs about         *)
(* SlotPool and PoolManager rest on these lemmas.                          *)
(***************************************************************************)
EXTENDS SlotPoolOps, SequenceTheorems, TLAPS

-----------------------------------------------------------------------------
(* Generations are counters modulo GenMod: the arithmetic they rest on.    *)

\* Quotient and remainder of a natural number.
LEMMA DivMod ==
    ASSUME NEW m \in Nat \ {0}, NEW a \in Nat
    PROVE  /\ a % m \in 0 .. (m - 1)
           /\ a \div m \in Nat
           /\ a = m * (a \div m) + (a % m)
OBVIOUS

\* They are unique.
LEMMA DivModUnique ==
    ASSUME NEW m \in Nat \ {0}, NEW q1 \in Int, NEW q2 \in Int,
           NEW r1 \in 0 .. (m - 1), NEW r2 \in 0 .. (m - 1),
           m * q1 + r1 = m * q2 + r2
    PROVE  r1 = r2
<1>1. CASE q1 < q2
  <2>1. m * q2 >= m * (q1 + 1)
    BY <1>1
  <2>2. m * (q1 + 1) = m * q1 + m
    OBVIOUS
  <2> QED
    BY <2>1, <2>2
<1>2. CASE q2 < q1
  <2>1. m * q1 >= m * (q2 + 1)
    BY <1>2
  <2>2. m * (q2 + 1) = m * q2 + m
    OBVIOUS
  <2> QED
    BY <2>1, <2>2
<1>3. CASE q1 = q2
  BY <1>3
<1> QED
  BY <1>1, <1>2, <1>3

\* Two counts less than m apart differ modulo m: a generation field does not
\* repeat before it has gone all the way round.
LEMMA ModWindow ==
    ASSUME NEW m \in Nat \ {0}, NEW a \in Nat, NEW b \in Nat, a < b, b - a < m
    PROVE  a % m # b % m
<1> SUFFICES ASSUME a % m = b % m PROVE FALSE
  OBVIOUS
<1>1. PICK q1 \in Nat, r \in 0 .. (m - 1) : r = a % m /\ a = m * q1 + r
  BY DivMod
<1>2. PICK q2 \in Nat : b = m * q2 + r
  BY <1>1, DivMod
<1>3. m * q2 - m * q1 = b - a
  BY <1>1, <1>2
<1>4. CASE q2 <= q1
  <2>1. m * q2 <= m * q1
    BY <1>4
  <2> QED
    BY <2>1, <1>3
<1>5. CASE q2 >= q1 + 1
  <2>1. m * q2 >= m * (q1 + 1)
    BY <1>5
  <2>2. m * (q1 + 1) = m * q1 + m
    OBVIOUS
  <2> QED
    BY <2>1, <2>2, <1>3
<1> QED
  BY <1>4, <1>5

\* Incrementing the field is incrementing the count.
LEMMA ModSuccessor ==
    ASSUME NEW m \in Nat \ {0}, NEW a \in Nat
    PROVE  ((a % m) + 1) % m = (a + 1) % m
<1>1. PICK q \in Nat, r \in 0 .. (m - 1) : r = a % m /\ a = m * q + r
  BY DivMod
<1>2. a + 1 \in Nat /\ r + 1 \in Nat
  OBVIOUS
<1>3. PICK q2 \in Nat, s \in 0 .. (m - 1) : s = (a + 1) % m /\ a + 1 = m * q2 + s
  BY <1>2, DivMod
<1>4. PICK q3 \in Nat, t \in 0 .. (m - 1) : t = (r + 1) % m /\ r + 1 = m * q3 + t
  BY <1>2, DivMod
<1>5. m * (q + q3) = m * q + m * q3
  OBVIOUS
<1>6. m * (q + q3) + t = m * q2 + s
  BY <1>1, <1>3, <1>4, <1>5
<1>7. q + q3 \in Int /\ q2 \in Int
  OBVIOUS
<1>8. t = s
  BY <1>6, <1>7, DivModUnique
<1> QED
  BY <1>8, <1>1, <1>3, <1>4

\* The number of indices that resizeStorage pushes for the new slots.
LEMMA IntervalLength ==
    ASSUME NEW a \in Nat, NEW b \in Nat, 1 .. a = 1 .. b
    PROVE  a = b
<1>1. CASE a < b
  <2>1. b \in 1 .. b
    BY <1>1
  <2> QED
    BY <1>1, <2>1
<1>2. CASE b < a
  <2>1. a \in 1 .. a
    BY <1>2
  <2> QED
    BY <1>2, <2>1
<1> QED
  BY <1>1, <1>2

-----------------------------------------------------------------------------
(* What each operation of the pool does to the four arrays.                *)

\* A pool value, field by field.
LEMMA PoolFields ==
    ASSUME NEW p, IsPool(p)
    PROVE  /\ p.size \in 0 .. InvalidIndex
           /\ p.size \in Nat
           /\ Slots(p) = 0 .. (p.size - 1)
           /\ p.generations \in [Slots(p) -> 0 .. (GenMod - 1)]
           /\ p.created \in [Slots(p) -> BOOLEAN]
           /\ p.freelist \in Seq(Slots(p))
           /\ p = [ size |-> p.size, generations |-> p.generations,
                    created |-> p.created, freelist |-> p.freelist ]
<1>1. PICK n \in 0 .. InvalidIndex : p \in PoolsOfSize(n)
  BY DEF IsPool
<1> QED
  BY <1>1, SlotPoolConstants DEF PoolsOfSize, Slots

\* Four arrays of one length are a pool value.
LEMMA PoolOfFields ==
    ASSUME NEW n \in 0 .. InvalidIndex,
           NEW g \in [0 .. (n - 1) -> 0 .. (GenMod - 1)],
           NEW c \in [0 .. (n - 1) -> BOOLEAN],
           NEW f \in Seq(0 .. (n - 1))
    PROVE  IsPool([ size |-> n, generations |-> g, created |-> c, freelist |-> f ])
BY DEF IsPool, PoolsOfSize

\* A pool starts empty.
LEMMA EmptyPoolFacts ==
    /\ IsPool(EmptyPool)
    /\ Slots(EmptyPool) = {}
    /\ EmptyPool.size = 0
    /\ EmptyPool.freelist = << >>
<1>1. 0 \in 0 .. InvalidIndex
  BY SlotPoolConstants
<1>2. 0 .. (0 - 1) = {} /\ 0 .. -1 = {}
  OBVIOUS
<1> QED
  BY <1>1, <1>2 DEF EmptyPool, IsPool, PoolsOfSize, Slots

\* The record behind a pool value.
LEMMA PoolRecord ==
    ASSUME NEW p, IsPool(p)
    PROVE  \E n \in 0 .. InvalidIndex :
           \E g \in [0 .. (n - 1) -> 0 .. (GenMod - 1)], c \in [0 .. (n - 1) -> BOOLEAN],
              f \in Seq(0 .. (n - 1)) :
                p = [ size |-> n, generations |-> g, created |-> c, freelist |-> f ]
BY PoolFields

\* Taking a slot shortens the freelist by its last entry.
LEMMA TakeFacts ==
    ASSUME NEW p, IsPool(p), p.freelist # << >>
    PROVE  /\ IsPool(Take(p))
           /\ Take(p).size = p.size
           /\ Take(p).generations = p.generations
           /\ Len(Take(p).freelist) = Len(p.freelist) - 1
           /\ Len(p.freelist) \in Nat \ {0}
           /\ \A k \in 1 .. (Len(p.freelist) - 1) : Take(p).freelist[k] = p.freelist[k]
           /\ Top(p) = p.freelist[Len(p.freelist)]
           /\ Top(p) \in Slots(p)
<1>1. PICK n \in 0 .. InvalidIndex :
      \E g \in [0 .. (n - 1) -> 0 .. (GenMod - 1)], c \in [0 .. (n - 1) -> BOOLEAN],
         f \in Seq(0 .. (n - 1)) :
           p = [ size |-> n, generations |-> g, created |-> c, freelist |-> f ]
  BY PoolRecord
<1>2. PICK g \in [0 .. (n - 1) -> 0 .. (GenMod - 1)], c \in [0 .. (n - 1) -> BOOLEAN],
           f \in Seq(0 .. (n - 1)) :
           p = [ size |-> n, generations |-> g, created |-> c, freelist |-> f ]
  BY <1>1
<1> DEFINE t == SubSeq(f, 1, Len(f) - 1)
<1>3. Take(p) = [ size |-> n, generations |-> g, created |-> c, freelist |-> t ]
  <2>1. p.freelist = f
    BY <1>2
  <2>2. Take(p) = [p EXCEPT !.freelist = t]
    BY <2>1 DEF Take
  <2> HIDE DEF t
  <2> QED
    BY <1>2, <2>2
<1>4. f # << >> /\ Len(f) \in Nat \ {0}
  <2>1. f # << >>
    BY <1>2
  <2>2. Len(f) # 0
    BY <2>1
  <2> QED
    BY <2>1, <2>2
<1>5. t \in Seq(0 .. (n - 1)) /\ Len(t) = Len(f) - 1
  <2>1. \A i \in 1 .. (Len(f) - 1) : f[i] \in 0 .. (n - 1)
    BY <1>4, ElementOfSeq
  <2>2. 1 \in Int /\ Len(f) - 1 \in Int
    BY <1>4
  <2>3. t \in Seq(0 .. (n - 1))
    BY <2>1, <2>2, SubSeqProperties
  <2>4. Len(t) = IF 1 <= Len(f) - 1 THEN (Len(f) - 1) - 1 + 1 ELSE 0
    BY <2>1, <2>2, SubSeqProperties
  <2>5. \A l \in Nat \ {0} : (IF 1 <= l - 1 THEN (l - 1) - 1 + 1 ELSE 0) = l - 1
    OBVIOUS
  <2>6. Len(t) = Len(f) - 1
    BY <1>4, <2>4, <2>5, Zenon
  <2> QED
    BY <2>3, <2>6
<1>6. \A k \in 1 .. (Len(f) - 1) : t[k] = f[k]
  BY <1>4
<1>7. f[Len(f)] \in 0 .. (n - 1)
  BY <1>4
<1>8. IsPool(Take(p))
  BY <1>3, <1>5, PoolOfFields
<1>9. p.size = n /\ p.generations = g /\ p.freelist = f
  BY <1>2
<1> HIDE DEF t
<1>10. Top(p) = p.freelist[Len(p.freelist)] /\ Top(p) \in Slots(p)
  BY <1>7, <1>9 DEF Top, Slots
<1>11. /\ Take(p).size = n /\ Take(p).generations = g /\ Take(p).freelist = t
  BY <1>3
<1> QED
  BY <1>4, <1>5, <1>6, <1>8, <1>9, <1>10, <1>11

\* Changing created flags changes nothing else.
LEMMA SetCreatedFacts ==
    ASSUME NEW p, IsPool(p), NEW h, h.index \in Slots(p), NEW flag \in BOOLEAN
    PROVE  /\ IsPool(SetCreated(p, h, flag))
           /\ SetCreated(p, h, flag).size = p.size
           /\ SetCreated(p, h, flag).generations = p.generations
           /\ SetCreated(p, h, flag).freelist = p.freelist
<1>1. PICK n \in 0 .. InvalidIndex :
      \E g \in [0 .. (n - 1) -> 0 .. (GenMod - 1)], c \in [0 .. (n - 1) -> BOOLEAN],
         f \in Seq(0 .. (n - 1)) :
           p = [ size |-> n, generations |-> g, created |-> c, freelist |-> f ]
  BY PoolRecord
<1>2. PICK g \in [0 .. (n - 1) -> 0 .. (GenMod - 1)], c \in [0 .. (n - 1) -> BOOLEAN],
           f \in Seq(0 .. (n - 1)) :
           p = [ size |-> n, generations |-> g, created |-> c, freelist |-> f ]
  BY <1>1
<1> DEFINE d == [c EXCEPT ![h.index] = flag]
<1>3. SetCreated(p, h, flag) = [ size |-> n, generations |-> g, created |-> d, freelist |-> f ]
  <2>1. p.created = c
    BY <1>2
  <2>2. SetCreated(p, h, flag) = [p EXCEPT !.created = d]
    BY <2>1 DEF SetCreated
  <2> HIDE DEF d
  <2> QED
    BY <1>2, <2>2
<1>4. d \in [0 .. (n - 1) -> BOOLEAN]
  OBVIOUS
<1> HIDE DEF d
<1>5. IsPool(SetCreated(p, h, flag))
  BY <1>3, <1>4, PoolOfFields
<1> QED
  BY <1>2, <1>3, <1>5

\* createRange changes created flags only.
LEMMA CreateRangeFacts ==
    ASSUME NEW p, IsPool(p), NEW range, NEW ok
    PROVE  /\ IsPool(CreateRange(p, range, ok))
           /\ CreateRange(p, range, ok).size = p.size
           /\ CreateRange(p, range, ok).generations = p.generations
           /\ CreateRange(p, range, ok).freelist = p.freelist
<1>1. PICK n \in 0 .. InvalidIndex :
      \E g \in [0 .. (n - 1) -> 0 .. (GenMod - 1)], c \in [0 .. (n - 1) -> BOOLEAN],
         f \in Seq(0 .. (n - 1)) :
           p = [ size |-> n, generations |-> g, created |-> c, freelist |-> f ]
  BY PoolRecord
<1>2. PICK g \in [0 .. (n - 1) -> 0 .. (GenMod - 1)], c \in [0 .. (n - 1) -> BOOLEAN],
           f \in Seq(0 .. (n - 1)) :
           p = [ size |-> n, generations |-> g, created |-> c, freelist |-> f ]
  BY <1>1
<1> DEFINE d == [i \in 0 .. (n - 1) |-> c[i] \/ i \in range \cap ok]
<1>3. CreateRange(p, range, ok) =
        [ size |-> n, generations |-> g, created |-> d, freelist |-> f ]
  <2>1. p.created = c /\ p.size = n
    BY <1>2
  <2>2. CreateRange(p, range, ok) = [p EXCEPT !.created = d]
    BY <2>1 DEF CreateRange, Slots
  <2> HIDE DEF d
  <2> QED
    BY <1>2, <2>2
<1>4. d \in [0 .. (n - 1) -> BOOLEAN]
  OBVIOUS
<1> HIDE DEF d
<1>5. IsPool(CreateRange(p, range, ok))
  BY <1>3, <1>4, PoolOfFields
<1> QED
  BY <1>2, <1>3, <1>5

\* Releasing a slot moves its generation on and pushes it on the freelist.
LEMMA ReleaseFacts ==
    ASSUME NEW p, IsPool(p), NEW h, h.index \in Slots(p)
    PROVE  /\ IsPool(Release(p, h))
           /\ Release(p, h).size = p.size
           /\ Release(p, h).generations =
                [p.generations EXCEPT ![h.index] = (p.generations[h.index] + 1) % GenMod]
           /\ Len(p.freelist) \in Nat
           /\ Len(Release(p, h).freelist) = Len(p.freelist) + 1
           /\ \A k \in 1 .. Len(p.freelist) : Release(p, h).freelist[k] = p.freelist[k]
           /\ Release(p, h).freelist[Len(p.freelist) + 1] = h.index
<1>1. PICK n \in 0 .. InvalidIndex :
      \E g \in [0 .. (n - 1) -> 0 .. (GenMod - 1)], c \in [0 .. (n - 1) -> BOOLEAN],
         f \in Seq(0 .. (n - 1)) :
           p = [ size |-> n, generations |-> g, created |-> c, freelist |-> f ]
  BY PoolRecord
<1>2. PICK g \in [0 .. (n - 1) -> 0 .. (GenMod - 1)], c \in [0 .. (n - 1) -> BOOLEAN],
           f \in Seq(0 .. (n - 1)) :
           p = [ size |-> n, generations |-> g, created |-> c, freelist |-> f ]
  BY <1>1
<1>3. PICK i \in 0 .. (n - 1) : i = h.index
  BY <1>2 DEF Slots
<1> DEFINE g2 == [g EXCEPT ![i] = (g[i] + 1) % GenMod]
           c2 == [c EXCEPT ![i] = c[i] /\ ~DestroyOnRelease]
           f2 == Append(f, i)
<1>4. Release(p, h) = [ size |-> n, generations |-> g2, created |-> c2, freelist |-> f2 ]
  <2>1. p.created = c /\ p.generations = g /\ p.freelist = f
    BY <1>2
  <2>2. Release(p, h) = [p EXCEPT !.created = c2, !.generations = g2, !.freelist = f2]
    BY <2>1, <1>3 DEF Release
  <2> HIDE DEF c2, g2, f2
  <2> QED
    BY <1>2, <2>2
<1>5. (g[i] + 1) % GenMod \in 0 .. (GenMod - 1)
  <2>1. g[i] + 1 \in Nat
    BY SlotPoolConstants
  <2> QED
    BY <2>1, SlotPoolConstants, DivMod
<1>6. g2 \in [0 .. (n - 1) -> 0 .. (GenMod - 1)]
  BY <1>5
<1>7. c2 \in [0 .. (n - 1) -> BOOLEAN]
  <2>1. (c[i] /\ ~DestroyOnRelease) \in BOOLEAN
    OBVIOUS
  <2> QED
    BY <2>1
<1>8. f2 \in Seq(0 .. (n - 1)) /\ Len(f) \in Nat /\ Len(f2) = Len(f) + 1
  OBVIOUS
<1>9. (\A k \in 1 .. Len(f) : f2[k] = f[k]) /\ f2[Len(f) + 1] = i
  OBVIOUS
<1>10. IsPool(Release(p, h))
  <2> HIDE DEF g2, c2, f2
  <2> QED
    BY <1>4, <1>6, <1>7, <1>8, PoolOfFields
<1>11. p.generations = g /\ p.size = n /\ p.freelist = f
  BY <1>2
<1> HIDE DEF c2, f2
<1> QED
  BY <1>3, <1>4, <1>8, <1>9, <1>10, <1>11

\* Growing keeps the old slots and pushes the new ones on the freelist.
LEMMA ResizeFacts ==
    ASSUME NEW p, IsPool(p), NEW n, CanResize(p, n)
    PROVE  /\ n \in 0 .. InvalidIndex /\ n \in Nat /\ n >= p.size
           /\ IsPool(Resize(p, n))
           /\ Resize(p, n).size = n
           /\ \A i \in 0 .. (n - 1) : Resize(p, n).generations[i] =
                                        IF i < p.size THEN p.generations[i] ELSE 0
           /\ Len(p.freelist) \in Nat
           /\ Len(Resize(p, n).freelist) = Len(p.freelist) + (n - p.size)
           /\ \A k \in 1 .. Len(p.freelist) : Resize(p, n).freelist[k] = p.freelist[k]
           /\ \A k \in 1 .. (n - p.size) :
                Resize(p, n).freelist[Len(p.freelist) + k] = n - k
<1>1. PICK m \in 0 .. InvalidIndex :
      \E g \in [0 .. (m - 1) -> 0 .. (GenMod - 1)], c \in [0 .. (m - 1) -> BOOLEAN],
         f \in Seq(0 .. (m - 1)) :
           p = [ size |-> m, generations |-> g, created |-> c, freelist |-> f ]
  BY PoolRecord
<1>2. PICK g \in [0 .. (m - 1) -> 0 .. (GenMod - 1)], c \in [0 .. (m - 1) -> BOOLEAN],
           f \in Seq(0 .. (m - 1)) :
           p = [ size |-> m, generations |-> g, created |-> c, freelist |-> f ]
  BY <1>1
<1>3. m \in Nat /\ n \in 0 .. InvalidIndex /\ n \in Nat /\ n >= m /\ n - m \in Nat
  BY <1>2, SlotPoolConstants DEF CanResize
<1> DEFINE g2 == [i \in 0 .. (n - 1) |-> IF i < m THEN g[i] ELSE 0]
           c2 == [i \in 0 .. (n - 1) |-> IF i < m THEN c[i] ELSE FALSE]
           new == [k \in 1 .. (n - m) |-> n - k]
           f2 == f \o new
<1>4. Resize(p, n) = [ size |-> n, generations |-> g2, created |-> c2, freelist |-> f2 ]
  BY <1>2 DEF Resize
<1>5. g2 \in [0 .. (n - 1) -> 0 .. (GenMod - 1)]
  BY <1>3, SlotPoolConstants
<1>6. c2 \in [0 .. (n - 1) -> BOOLEAN]
  <2>1. \A i \in 0 .. (n - 1) : i < m => c[i] \in BOOLEAN
    BY <1>3
  <2>2. \A i \in 0 .. (n - 1) : (IF i < m THEN c[i] ELSE FALSE) \in BOOLEAN
    BY <2>1
  <2> QED
    BY <2>2
<1>7. new \in [1 .. (n - m) -> 0 .. (n - 1)] /\ new \in Seq(0 .. (n - 1)) /\ Len(new) = n - m
  <2>1. new \in [1 .. (n - m) -> 0 .. (n - 1)]
    BY <1>3
  <2>2. \A k \in 1 .. (n - m) : n - k \in 0 .. (n - 1)
    BY <1>3
  <2>3. new \in Seq(0 .. (n - 1))
    BY <1>3, <2>2
  <2>4. DOMAIN new = 1 .. (n - m)
    OBVIOUS
  <2> HIDE DEF new
  <2>5. Len(new) \in Nat /\ DOMAIN new = 1 .. Len(new)
    BY <2>3, LenProperties
  <2>6. Len(new) = n - m
    BY <2>4, <2>5, <1>3, IntervalLength
  <2> QED
    BY <2>1, <2>3, <2>6
<1>8. f \in Seq(0 .. (n - 1)) /\ Len(f) \in Nat
  <2>1. 0 .. (m - 1) \subseteq 0 .. (n - 1)
    BY <1>3
  <2>2. Len(f) \in Nat /\ f \in [1 .. Len(f) -> 0 .. (m - 1)]
    BY LenProperties
  <2>3. \A k \in 1 .. Len(f) : f[k] \in 0 .. (n - 1)
    BY <2>1, <2>2
  <2>4. f = [k \in 1 .. Len(f) |-> f[k]]
    BY <2>2
  <2> DEFINE b(k) == f[k]
  <2>5. \A k \in 1 .. Len(f) : b(k) \in 0 .. (n - 1)
    BY <2>3
  <2> HIDE DEF b
  <2>6. [k \in 1 .. Len(f) |-> b(k)] \in Seq(0 .. (n - 1))
    BY <2>2, <2>5, IsASeq
  <2> QED
    BY <2>2, <2>4, <2>6 DEF b
<1>9. \A k \in 1 .. (n - m) : new[k] = n - k
  OBVIOUS
<1> HIDE DEF new
<1>10. f2 \in Seq(0 .. (n - 1)) /\ Len(f2) = Len(f) + (n - m)
  BY <1>7, <1>8, ConcatProperties
<1>11. \A k \in 1 .. Len(f) : f2[k] = f[k]
  BY <1>7, <1>8, ConcatProperties
<1>12. \A k \in 1 .. (n - m) : f2[Len(f) + k] = n - k
  <2> SUFFICES ASSUME NEW k \in 1 .. (n - m) PROVE f2[Len(f) + k] = new[k]
    BY <1>9
  <2>1. Len(f) + k \in (Len(f) + 1) .. (Len(f) + Len(new))
    BY <1>3, <1>7, <1>8
  <2> QED
    BY <2>1, <1>3, <1>7, <1>8
<1>13. IsPool(Resize(p, n))
  <2> HIDE DEF g2, c2, f2
  <2> QED
    BY <1>3, <1>4, <1>5, <1>6, <1>10, PoolOfFields
<1>14. \A i \in 0 .. (n - 1) : g2[i] = IF i < m THEN g[i] ELSE 0
  OBVIOUS
<1>15. p.generations = g /\ p.size = m /\ p.freelist = f
  BY <1>2
<1> HIDE DEF g2, c2, f2
<1> QED
  BY <1>3, <1>4, <1>8, <1>10, <1>11, <1>12, <1>13, <1>14, <1>15

-----------------------------------------------------------------------------
(* The same, with the freelist as a set and the created flags.             *)

OnFreelist(p, i) == \E k \in 1 .. Len(p.freelist) : p.freelist[k] = i

NoDuplicates(p) ==
    \A j, k \in 1 .. Len(p.freelist) : p.freelist[j] = p.freelist[k] => j = k

\* Only slots of the pool are on its freelist.
LEMMA FreeAreSlots ==
    ASSUME NEW p, IsPool(p), NEW i, OnFreelist(p, i)
    PROVE  i \in Slots(p)
<1>1. p.freelist \in Seq(Slots(p))
  BY PoolFields
<1> QED
  BY <1>1 DEF OnFreelist

\* An empty pool has nothing to give out.
LEMMA EmptyPoolEffect ==
    /\ IsPool(EmptyPool) /\ NoDuplicates(EmptyPool)
    /\ Slots(EmptyPool) = {} /\ EmptyPool.size = 0
<1>1. IsPool(EmptyPool) /\ Slots(EmptyPool) = {} /\ EmptyPool.size = 0 /\ EmptyPool.freelist = << >>
  BY EmptyPoolFacts
<1>2. \A f : f = << >> => Len(f) = 0
  OBVIOUS
<1>3. Len(EmptyPool.freelist) = 0
  BY <1>1, <1>2
<1>4. NoDuplicates(EmptyPool)
  BY <1>3 DEF NoDuplicates
<1> QED
  BY <1>1, <1>4

\* Taking a slot: the top leaves the freelist, which holds it no second time.
LEMMA TakeEffect ==
    ASSUME NEW p, IsPool(p), NoDuplicates(p), p.freelist # << >>
    PROVE  /\ IsPool(Take(p)) /\ NoDuplicates(Take(p))
           /\ Take(p).size = p.size
           /\ Take(p).generations = p.generations
           /\ Take(p).created = p.created
           /\ Top(p) \in Slots(p)
           /\ OnFreelist(p, Top(p))
           /\ \A i : OnFreelist(Take(p), i) <=> OnFreelist(p, i) /\ i # Top(p)
<1> DEFINE n == Len(p.freelist)
<1>1. /\ IsPool(Take(p)) /\ Take(p).size = p.size /\ Take(p).generations = p.generations
      /\ Len(Take(p).freelist) = n - 1 /\ n \in Nat \ {0}
      /\ \A k \in 1 .. (n - 1) : Take(p).freelist[k] = p.freelist[k]
      /\ Top(p) = p.freelist[n] /\ Top(p) \in Slots(p)
  BY TakeFacts
<1>2. Take(p).created = p.created
  <2>1. p = [ size |-> p.size, generations |-> p.generations,
              created |-> p.created, freelist |-> p.freelist ]
    BY PoolFields
  <2> QED
    BY <2>1 DEF Take
<1> HIDE DEF n
<1>3. 1 .. (n - 1) \subseteq 1 .. n /\ n \in 1 .. n
  BY <1>1
<1>4. NoDuplicates(Take(p))
  BY <1>1, <1>3 DEF NoDuplicates, n
<1>5. OnFreelist(p, Top(p))
  BY <1>1, <1>3 DEF OnFreelist, n
<1>6. ASSUME NEW i, OnFreelist(Take(p), i) PROVE OnFreelist(p, i) /\ i # Top(p)
  <2>1. PICK k \in 1 .. (n - 1) : p.freelist[k] = i
    BY <1>1, <1>6 DEF OnFreelist
  <2>2. k # n
    BY <1>1
  <2> QED
    BY <1>1, <1>3, <2>1, <2>2 DEF OnFreelist, NoDuplicates, n
<1>7. ASSUME NEW i, OnFreelist(p, i), i # Top(p) PROVE OnFreelist(Take(p), i)
  <2>1. PICK k \in 1 .. n : p.freelist[k] = i
    BY <1>7 DEF OnFreelist, n
  <2>2. k \in 1 .. (n - 1)
    BY <1>1, <1>7, <2>1
  <2> QED
    BY <1>1, <2>1, <2>2 DEF OnFreelist
<1> QED
  BY <1>1, <1>2, <1>4, <1>5, <1>6, <1>7

\* Releasing a slot that is not on the freelist puts it there once.
LEMMA ReleaseEffect ==
    ASSUME NEW p, IsPool(p), NoDuplicates(p), NEW h, h.index \in Slots(p), ~OnFreelist(p, h.index)
    PROVE  /\ IsPool(Release(p, h)) /\ NoDuplicates(Release(p, h))
           /\ Release(p, h).size = p.size
           /\ Release(p, h).generations[h.index] = (p.generations[h.index] + 1) % GenMod
           /\ \A i \in Slots(p) : i # h.index =>
                /\ Release(p, h).generations[i] = p.generations[i]
                /\ Release(p, h).created[i] = p.created[i]
           /\ \A i : OnFreelist(Release(p, h), i) <=> OnFreelist(p, i) \/ i = h.index
<1> DEFINE n == Len(p.freelist)
<1>0. PICK q : q = Release(p, h)
  OBVIOUS
<1>1. /\ IsPool(q) /\ q.size = p.size
      /\ q.generations = [p.generations EXCEPT ![h.index] = (p.generations[h.index] + 1) % GenMod]
      /\ n \in Nat /\ Len(q.freelist) = n + 1
      /\ \A k \in 1 .. n : q.freelist[k] = p.freelist[k]
      /\ q.freelist[n + 1] = h.index
  <2>1. q.generations = [p.generations EXCEPT ![h.index] = (p.generations[h.index] + 1) % GenMod]
    BY <1>0, ReleaseFacts, Zenon
  <2>2. IsPool(q) /\ q.size = p.size
    BY <1>0, ReleaseFacts, Zenon
  <2>3. n \in Nat /\ Len(q.freelist) = n + 1
    BY <1>0, ReleaseFacts, Zenon
  <2>4. \A k \in 1 .. n : q.freelist[k] = p.freelist[k]
    <3>1. /\ p = [ size |-> p.size, generations |-> p.generations,
                   created |-> p.created, freelist |-> p.freelist ]
          /\ p.freelist \in Seq(Slots(p))
      BY PoolFields
    <3>2. q.freelist = Append(p.freelist, h.index)
      BY <1>0, <3>1 DEF Release
    <3> QED
      BY <3>1, <3>2
  <2>5. q.freelist[n + 1] = h.index
    BY <1>0, ReleaseFacts, Zenon
  <2> QED
    BY <2>1, <2>2, <2>3, <2>4, <2>5, Zenon
<1>2. \A i \in Slots(p) : i # h.index => q.created[i] = p.created[i]
  <2>1. /\ p = [ size |-> p.size, generations |-> p.generations,
                 created |-> p.created, freelist |-> p.freelist ]
        /\ p.created \in [Slots(p) -> BOOLEAN]
    BY PoolFields
  <2>2. q.created = [p.created EXCEPT ![h.index] = p.created[h.index] /\ ~DestroyOnRelease]
    BY <1>0, <2>1 DEF Release
  <2> QED
    BY <2>1, <2>2
<1> HIDE DEF n
<1>3. \A k \in 1 .. (n + 1) : k \in 1 .. n \/ k = n + 1
  BY <1>1
<1>4. 1 .. n \subseteq 1 .. (n + 1) /\ n + 1 \in 1 .. (n + 1)
  BY <1>1
<1>5. \A k \in 1 .. n : p.freelist[k] # h.index
  BY DEF OnFreelist, n
<1>6. NoDuplicates(q)
  BY <1>1, <1>3, <1>5 DEF NoDuplicates, n
<1>7. \A i : OnFreelist(q, i) <=> OnFreelist(p, i) \/ i = h.index
  BY <1>1, <1>3, <1>4 DEF OnFreelist, n
<1>8. /\ q.generations[h.index] = (p.generations[h.index] + 1) % GenMod
      /\ \A i \in Slots(p) : i # h.index => q.generations[i] = p.generations[i]
  <2>1. p.generations \in [Slots(p) -> 0 .. (GenMod - 1)]
    BY PoolFields
  <2> QED
    BY <1>1, <2>1
<1> QED
  BY <1>0, <1>1, <1>2, <1>6, <1>7, <1>8

\* Growing keeps what the old slots have, and the new ones are free and uncreated.
LEMMA ResizeEffect ==
    ASSUME NEW p, IsPool(p), NoDuplicates(p), NEW n, CanResize(p, n)
    PROVE  /\ IsPool(Resize(p, n)) /\ NoDuplicates(Resize(p, n))
           /\ Resize(p, n).size = n /\ n \in Nat /\ p.size \in Nat /\ n >= p.size
           /\ \A i \in Slots(p) : /\ i \in Slots(Resize(p, n))
                                  /\ Resize(p, n).generations[i] = p.generations[i]
                                  /\ Resize(p, n).created[i] = p.created[i]
           /\ \A i \in p.size .. (n - 1) : /\ i \in Slots(Resize(p, n))
                                           /\ Resize(p, n).generations[i] = 0
           /\ \A i : OnFreelist(Resize(p, n), i) <=> OnFreelist(p, i) \/ i \in p.size .. (n - 1)
           /\ n > p.size => Resize(p, n).freelist # << >> /\ Top(Resize(p, n)) = p.size
<1> DEFINE q == Resize(p, n)
           m == p.size
           l == Len(p.freelist)
<1>1. /\ n \in Nat /\ n >= m /\ IsPool(q) /\ q.size = n
      /\ \A i \in 0 .. (n - 1) : q.generations[i] = IF i < m THEN p.generations[i] ELSE 0
      /\ l \in Nat
      /\ Len(q.freelist) = l + (n - m)
      /\ \A k \in 1 .. l : q.freelist[k] = p.freelist[k]
      /\ \A k \in 1 .. (n - m) : q.freelist[l + k] = n - k
  BY ResizeFacts
<1>2. m \in Nat /\ Slots(p) = 0 .. (m - 1) /\ p.freelist \in Seq(Slots(p))
  BY PoolFields
<1>3. \A i \in Slots(p) : q.created[i] = p.created[i]
  <2>1. q.created = [i \in 0 .. (n - 1) |-> IF i < m THEN p.created[i] ELSE FALSE]
    BY DEF Resize
  <2>2. \A i \in Slots(p) : i \in 0 .. (n - 1) /\ i < m
    BY <1>1, <1>2
  <2> HIDE DEF q
  <2> QED
    BY <2>1, <2>2
<1>4. Slots(q) = 0 .. (n - 1)
  BY <1>1 DEF Slots
<1> HIDE DEF q, l
<1>5. \A k \in 1 .. (l + (n - m)) : k \in 1 .. l \/ (k - l \in 1 .. (n - m) /\ q.freelist[k] = n - (k - l))
  <2> SUFFICES ASSUME NEW k \in 1 .. (l + (n - m)), k \notin 1 .. l
               PROVE  k - l \in 1 .. (n - m) /\ q.freelist[k] = n - (k - l)
    OBVIOUS
  <2>1. k - l \in 1 .. (n - m) /\ l + (k - l) = k
    BY <1>1, <1>2
  <2>2. q.freelist[l + (k - l)] = n - (k - l)
    BY <1>1, <2>1
  <2> QED
    BY <2>1, <2>2
<1>6. \A k \in 1 .. l : q.freelist[k] \in 0 .. (m - 1)
  <2>1. \A k \in 1 .. l : p.freelist[k] \in 0 .. (m - 1)
    BY <1>2 DEF l
  <2> QED
    BY <1>1, <2>1
<1>14. \A k \in (1 .. (l + (n - m))) \ (1 .. l) : q.freelist[k] \in m .. (n - 1)
  <2> SUFFICES ASSUME NEW k \in (1 .. (l + (n - m))) \ (1 .. l) PROVE q.freelist[k] \in m .. (n - 1)
    OBVIOUS
  <2>1. k - l \in 1 .. (n - m) /\ q.freelist[k] = n - (k - l)
    BY <1>5
  <2>2. n - (k - l) \in m .. (n - 1)
    BY <1>1, <1>2, <2>1
  <2> QED
    BY <2>1, <2>2
<1>15. \A x \in 0 .. (m - 1), y \in m .. (n - 1) : x # y
  BY <1>1, <1>2
<1>7. NoDuplicates(q)
  <2> SUFFICES ASSUME NEW j \in 1 .. (l + (n - m)), NEW k \in 1 .. (l + (n - m)),
                      q.freelist[j] = q.freelist[k]
               PROVE  j = k
    BY <1>1 DEF NoDuplicates
  <2>1. CASE j \in 1 .. l /\ k \in 1 .. l
    BY <1>1, <2>1 DEF NoDuplicates, l
  <2>2. CASE j \in 1 .. l /\ k \notin 1 .. l
    BY <1>6, <1>14, <1>15, <2>2
  <2>3. CASE j \notin 1 .. l /\ k \in 1 .. l
    BY <1>6, <1>14, <1>15, <2>3
  <2>4. CASE j \notin 1 .. l /\ k \notin 1 .. l
    BY <1>1, <1>2, <1>5, <2>4
  <2> QED
    BY <2>1, <2>2, <2>3, <2>4
<1>8. ASSUME NEW i, OnFreelist(q, i) PROVE OnFreelist(p, i) \/ i \in m .. (n - 1)
  <2>1. PICK k \in 1 .. (l + (n - m)) : q.freelist[k] = i
    BY <1>1, <1>8 DEF OnFreelist
  <2>2. CASE k \in 1 .. l
    BY <1>1, <2>1, <2>2 DEF OnFreelist, l
  <2>3. CASE k \notin 1 .. l
    BY <1>14, <2>1, <2>3
  <2> QED
    BY <2>2, <2>3
<1>9. ASSUME NEW i, OnFreelist(p, i) PROVE OnFreelist(q, i)
  <2>1. PICK k \in 1 .. l : p.freelist[k] = i
    BY <1>9 DEF OnFreelist, l
  <2>2. k \in 1 .. (l + (n - m))
    BY <1>1, <1>2
  <2> QED
    BY <1>1, <2>1, <2>2 DEF OnFreelist
<1>10. ASSUME NEW i \in m .. (n - 1) PROVE OnFreelist(q, i)
  <2>1. n - i \in 1 .. (n - m) /\ l + (n - i) \in 1 .. (l + (n - m)) /\ n - (n - i) = i
    BY <1>1, <1>2
  <2>2. q.freelist[l + (n - i)] = i
    BY <1>1, <2>1
  <2> QED
    BY <1>1, <2>1, <2>2 DEF OnFreelist
<1>11. ASSUME n > m PROVE q.freelist # << >> /\ Top(q) = m
  <2>0. n \in Nat /\ m \in Nat /\ l \in Nat /\ Len(q.freelist) = l + (n - m)
    BY <1>1, <1>2
  <2>1. Len(q.freelist) # 0 /\ n - m \in 1 .. (n - m) /\ Len(q.freelist) = l + (n - m)
        /\ n - (n - m) = m
    <3> HIDE DEF m
    <3> QED
      BY <1>11, <2>0
  <2>2. q.freelist # << >>
    <3>1. Len(<< >>) = 0
      OBVIOUS
    <3> QED
      BY <2>1, <3>1
  <2>3. q.freelist[l + (n - m)] = n - (n - m)
    BY <1>1, <2>1
  <2>4. Top(q) = q.freelist[l + (n - m)]
    BY <2>1 DEF Top
  <2> QED
    BY <2>1, <2>2, <2>3, <2>4
<1>12. \A i \in Slots(p) : i \in Slots(q) /\ q.generations[i] = p.generations[i]
  BY <1>1, <1>2, <1>4
<1>13. \A i \in m .. (n - 1) : i \in Slots(q) /\ q.generations[i] = 0
  BY <1>1, <1>2, <1>4
<1> QED
  BY <1>1, <1>2, <1>3, <1>7, <1>8, <1>9, <1>10, <1>11, <1>12, <1>13 DEF q

\* createRange: what was created stays so, and what it is asked for is attempted.
LEMMA CreateRangeEffect ==
    ASSUME NEW p, IsPool(p), NoDuplicates(p), NEW range, NEW ok
    PROVE  /\ IsPool(CreateRange(p, range, ok)) /\ NoDuplicates(CreateRange(p, range, ok))
           /\ CreateRange(p, range, ok).size = p.size
           /\ CreateRange(p, range, ok).generations = p.generations
           /\ CreateRange(p, range, ok).freelist = p.freelist
           /\ \A i \in Slots(p) : p.created[i] => CreateRange(p, range, ok).created[i]
<1>1. /\ IsPool(CreateRange(p, range, ok))
      /\ CreateRange(p, range, ok).size = p.size
      /\ CreateRange(p, range, ok).generations = p.generations
      /\ CreateRange(p, range, ok).freelist = p.freelist
  BY CreateRangeFacts
<1>2. p = [ size |-> p.size, generations |-> p.generations,
            created |-> p.created, freelist |-> p.freelist ]
  BY PoolFields
<1>3. CreateRange(p, range, ok).created = [i \in Slots(p) |-> p.created[i] \/ i \in range \cap ok]
  BY <1>2 DEF CreateRange
<1> QED
  BY <1>1, <1>3 DEF NoDuplicates

\* emplace marks its slot created and changes nothing else.
LEMMA EmplaceEffect ==
    ASSUME NEW p, IsPool(p), NoDuplicates(p), NEW h, h.index \in Slots(p)
    PROVE  /\ IsPool(SetCreated(p, h, TRUE)) /\ NoDuplicates(SetCreated(p, h, TRUE))
           /\ SetCreated(p, h, TRUE).size = p.size
           /\ SetCreated(p, h, TRUE).generations = p.generations
           /\ SetCreated(p, h, TRUE).freelist = p.freelist
           /\ \A i \in Slots(p) : p.created[i] => SetCreated(p, h, TRUE).created[i]
<1>1. /\ IsPool(SetCreated(p, h, TRUE))
      /\ SetCreated(p, h, TRUE).size = p.size
      /\ SetCreated(p, h, TRUE).generations = p.generations
      /\ SetCreated(p, h, TRUE).freelist = p.freelist
  BY SetCreatedFacts
<1>2. /\ p = [ size |-> p.size, generations |-> p.generations,
               created |-> p.created, freelist |-> p.freelist ]
      /\ p.created \in [Slots(p) -> BOOLEAN]
  BY PoolFields
<1>3. SetCreated(p, h, TRUE).created = [p.created EXCEPT ![h.index] = TRUE]
  BY <1>2 DEF SetCreated
<1> QED
  BY <1>1, <1>2, <1>3 DEF NoDuplicates
=============================================================================
