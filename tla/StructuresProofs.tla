--------------------------- MODULE StructuresProofs ---------------------------
(***************************************************************************)
(* Proofs about KernelRegistry, for any set of keys, any capacities and    *)
(* any number of demotions that throw: the tiers agree with each other,    *)
(* with their LRU lists and with the order of the lookups.                 *)
(*                                                                         *)
(* Proofs about KernelCall, for any kernels, requests and architectures    *)
(* whose identifiers fit the fields of a key, any operands and tensors,    *)
(* and any number of bindings: keys are unpacked to what they were packed  *)
(* from, a request is resolved to the most specific kernel, and a kernel   *)
(* that runs gets the storage and the layout of one tensor per operand.    *)
(*                                                                         *)
(* Proofs about VectorStorage, for any elements, inline capacity, block    *)
(* sizes and number of elements: the vectors hold what they were given and *)
(* own their storage, unless a heap SmallVector is resized within N.       *)
(***************************************************************************)
EXTENDS KernelRegistry, KernelCall, VectorStorage,
        FiniteSetTheorems, FunctionTheorems, SequenceTheorems, TLAPS

-----------------------------------------------------------------------------
(* The kernel registry *)

Registry == [cache : SUBSET Keys, cacheLru : Seq(Keys), main : SUBSET Keys,
             mainNodes : SUBSET Keys, mainLru : Seq(Keys), secondary : SUBSET Keys]

RegistryTypes ==
    /\ registry \in Registry
    /\ registryCfg \in [cache : Nat, main : Nat]
    /\ known \subseteq Keys /\ dropped \subseteq Keys
    /\ recent \in Seq(Keys)
    /\ failures \in Nat
    /\ IsFiniteSet(registry.main)

\* x comes before y in a list.
Before(s, x, y) == \E i, j \in DOMAIN s : s[i] = x /\ s[j] = y /\ i < j

\* The entries of main memory have been looked up, each last at one time.
MainLookedUp == IsInjective(recent) /\ registry.main \subseteq ToSet(recent)

\* The cache's list is in the order of the lookups.
CacheLruFollowsRecent ==
    \A x, y \in Keys : Before(registry.cacheLru, x, y) => Before(recent, x, y)

\* The inductive invariant.  CacheMostRecent needs the order of the cache's own
\* list, because an eviction from the cache trusts it.
RegistryInv ==
    /\ RegistryTypes
    /\ RegistryTiersConsistent
    /\ MainLookedUp
    /\ CacheLruFollowsRecent

-----------------------------------------------------------------------------
(* LruList.                                                                *)

\* s is a list of keys, each once.
IsLru(s) == s \in Seq(Keys) /\ IsInjective(s)

\* r is s with k at the front.
IsFronted(r, s, k) ==
    /\ IsLru(r)
    /\ ToSet(r) = ToSet(s) \cup {k}
    /\ \A y \in ToSet(s) : y # k => Before(r, k, y)
    /\ \A x, y : x # k /\ y # k /\ Before(s, x, y) => Before(r, x, y)
    /\ \A x, y : Before(r, x, y) => y # k /\ ((x = k /\ y \in ToSet(s)) \/ Before(s, x, y))

\* r is s without k.
IsRemoved(r, s, k) ==
    /\ IsLru(r)
    /\ ToSet(r) = ToSet(s) \ {k}
    /\ \A x, y : x # k /\ y # k /\ Before(s, x, y) => Before(r, x, y)
    /\ \A x, y : Before(r, x, y) => Before(s, x, y)

\* Both ends of a pair are entries of the list.
LEMMA BeforeInList ==
    ASSUME NEW s, NEW x, NEW y, Before(s, x, y)
    PROVE  x \in ToSet(s) /\ y \in ToSet(s)
BY DEF Before, ToSet

\* pushFront of a key that is not on the list.
LEMMA PushEffect ==
    ASSUME NEW s, IsLru(s), NEW k \in Keys, k \notin ToSet(s)
    PROVE  IsFronted(pushFront(s, k), s, k)
<1>1. PICK r : r = pushFront(s, k)
  OBVIOUS
<1>2. s \in Seq(Keys) /\ Len(s) \in Nat /\ DOMAIN s = 1 .. Len(s)
  BY DEF IsLru
<1>3. /\ r \in Seq(Keys) /\ DOMAIN r = 1 .. (Len(s) + 1)
      /\ r[1] = k /\ \A i \in 1 .. Len(s) : r[i + 1] = s[i]
  BY <1>1, <1>2 DEF pushFront
<1>4. ASSUME NEW i \in DOMAIN r PROVE i = 1 \/ (i - 1 \in DOMAIN s /\ r[i] = s[i - 1])
  <2>1. i # 1 => i - 1 \in 1 .. Len(s) /\ (i - 1) + 1 = i
    BY <1>2, <1>3
  <2> QED
    BY <1>2, <1>3, <2>1
<1>5. ASSUME NEW i \in DOMAIN s PROVE i + 1 \in DOMAIN r /\ r[i + 1] = s[i] /\ s[i] # k
  BY <1>2, <1>3 DEF ToSet
<1>6. IsInjective(r)
  <2> SUFFICES ASSUME NEW i \in DOMAIN r, NEW j \in DOMAIN r, r[i] = r[j] PROVE i = j
    BY DEF IsInjective
  <2>1. CASE i = 1 \/ j = 1
    BY <1>3, <1>4, <1>5, <2>1
  <2>2. CASE i # 1 /\ j # 1
    <3>1. i - 1 \in DOMAIN s /\ j - 1 \in DOMAIN s /\ s[i - 1] = s[j - 1]
      BY <1>4, <2>2
    <3>2. i - 1 = j - 1
      BY <3>1 DEF IsLru, IsInjective
    <3> QED
      BY <1>2, <1>3, <3>2
  <2> QED
    BY <2>1, <2>2
<1>7. ToSet(r) = ToSet(s) \cup {k}
  <2>1. 1 \in DOMAIN r
    BY <1>2, <1>3
  <2>2. ASSUME NEW y \in ToSet(r) PROVE y \in ToSet(s) \cup {k}
    BY <1>3, <1>4 DEF ToSet
  <2>3. ASSUME NEW y \in ToSet(s) PROVE y \in ToSet(r)
    BY <1>5 DEF ToSet
  <2>4. k \in ToSet(r)
    BY <1>3, <2>1 DEF ToSet
  <2> QED
    BY <2>2, <2>3, <2>4
<1>8. ASSUME NEW y \in ToSet(s) PROVE Before(r, k, y)
  <2>1. PICK j \in DOMAIN s : s[j] = y
    BY DEF ToSet
  <2>2. 1 \in DOMAIN r /\ j + 1 \in DOMAIN r /\ r[j + 1] = y /\ 1 < j + 1
    BY <1>2, <1>3, <1>5, <2>1
  <2> QED
    BY <1>3, <2>2 DEF Before
<1>9. ASSUME NEW x, NEW y, Before(s, x, y) PROVE Before(r, x, y)
  <2>1. PICK i \in DOMAIN s, j \in DOMAIN s : s[i] = x /\ s[j] = y /\ i < j
    BY <1>9 DEF Before
  <2>2. i + 1 \in DOMAIN r /\ j + 1 \in DOMAIN r /\ r[i + 1] = x /\ r[j + 1] = y
    BY <1>5, <2>1
  <2>3. i + 1 < j + 1
    BY <1>2, <2>1
  <2> QED
    BY <2>2, <2>3 DEF Before
<1>10. ASSUME NEW x, NEW y, Before(r, x, y)
       PROVE  y # k /\ ((x = k /\ y \in ToSet(s)) \/ Before(s, x, y))
  <2>1. PICK i \in DOMAIN r, j \in DOMAIN r : r[i] = x /\ r[j] = y /\ i < j
    BY <1>10 DEF Before
  <2>2. j # 1
    BY <1>2, <1>3, <2>1
  <2>3. j - 1 \in DOMAIN s /\ s[j - 1] = y
    BY <1>4, <2>1, <2>2
  <2>4. y # k /\ y \in ToSet(s)
    BY <1>5, <2>3 DEF ToSet
  <2>5. CASE i = 1
    BY <1>3, <2>1, <2>4, <2>5
  <2>6. CASE i # 1
    <3>1. i - 1 \in DOMAIN s /\ s[i - 1] = x
      BY <1>4, <2>1, <2>6
    <3>2. i - 1 < j - 1
      BY <1>2, <1>3, <2>1
    <3> QED
      BY <2>3, <2>4, <3>1, <3>2 DEF Before
  <2> QED
    BY <2>5, <2>6
<1> QED
  BY <1>1, <1>3, <1>6, <1>7, <1>8, <1>9, <1>10 DEF IsFronted, IsLru

\* Unlinking the node at position n.
LEMMA UnlinkEffect ==
    ASSUME NEW s, IsLru(s), NEW n \in DOMAIN s
    PROVE  IsRemoved(RemoveAt(s, n), s, s[n])
<1>1. PICK r : r = RemoveAt(s, n)
  OBVIOUS
<1>2. s \in Seq(Keys) /\ Len(s) \in Nat /\ DOMAIN s = 1 .. Len(s) /\ n \in 1 .. Len(s)
  BY DEF IsLru
<1>3. /\ SubSeq(s, 1, n - 1) \in Seq(Keys) /\ Len(SubSeq(s, 1, n - 1)) = n - 1
      /\ \A i \in 1 .. (n - 1) : SubSeq(s, 1, n - 1)[i] = s[i]
  BY <1>2
<1>4. /\ SubSeq(s, n + 1, Len(s)) \in Seq(Keys) /\ Len(SubSeq(s, n + 1, Len(s))) = Len(s) - n
      /\ \A i \in 1 .. (Len(s) - n) : SubSeq(s, n + 1, Len(s))[i] = s[n + i]
  <2>1. CASE n = Len(s)
    <3>1. SubSeq(s, n + 1, Len(s)) = << >>
      BY <1>2, <2>1
    <3> QED
      BY <1>2, <2>1, <3>1
  <2>2. CASE n < Len(s)
    BY <1>2, <2>2
  <2> QED
    BY <1>2, <2>1, <2>2
<1>5. /\ r \in Seq(Keys) /\ DOMAIN r = 1 .. (Len(s) - 1)
      /\ \A i \in 1 .. (n - 1) : r[i] = s[i]
      /\ \A i \in n .. (Len(s) - 1) : r[i] = s[i + 1]
  <2> DEFINE u == SubSeq(s, 1, n - 1)
             v == SubSeq(s, n + 1, Len(s))
  <2>1. r = u \o v
    BY <1>1 DEF RemoveAt
  <2>2. u \in Seq(Keys) /\ v \in Seq(Keys) /\ Len(u) = n - 1 /\ Len(v) = Len(s) - n
    BY <1>3, <1>4
  <2>3. /\ \A i \in 1 .. (n - 1) : u[i] = s[i]
        /\ \A i \in 1 .. (Len(s) - n) : v[i] = s[n + i]
    BY <1>3, <1>4
  <2> HIDE DEF u, v
  <2>4. r \in Seq(Keys) /\ Len(r) = Len(s) - 1
    <3>1. r \in Seq(Keys) /\ Len(r) = Len(u) + Len(v)
      BY <2>1, <2>2, ConcatProperties
    <3> QED
      BY <1>2, <2>2, <3>1
  <2>5. ASSUME NEW i \in 1 .. (n - 1) PROVE r[i] = s[i]
    BY <1>2, <2>1, <2>2, <2>3
  <2>6. ASSUME NEW i \in n .. (Len(s) - 1) PROVE r[i] = s[i + 1]
    <3>1. i - (n - 1) \in 1 .. (Len(s) - n) /\ n + (i - (n - 1)) = i + 1
      BY <1>2
    <3>2. r[i] = v[i - (n - 1)]
      BY <1>2, <2>1, <2>2
    <3> QED
      BY <2>3, <3>1, <3>2
  <2> QED
    BY <2>4, <2>5, <2>6
\* The entries of r and of s correspond, in order.
<1> DEFINE up(i) == IF i < n THEN i ELSE i + 1
           down(i) == IF i < n THEN i ELSE i - 1
<1>6. /\ \A i \in DOMAIN r : up(i) \in DOMAIN s /\ up(i) # n /\ r[i] = s[up(i)]
      /\ \A i, j \in DOMAIN r : i < j <=> up(i) < up(j)
  BY <1>2, <1>5
<1>7. /\ \A i \in DOMAIN s : i # n => down(i) \in DOMAIN r /\ r[down(i)] = s[i]
      /\ \A i, j \in DOMAIN s : i # n /\ j # n /\ i < j => down(i) < down(j)
  <2>1. ASSUME NEW i \in DOMAIN s, i # n PROVE down(i) \in DOMAIN r /\ up(down(i)) = i
    BY <1>2, <1>5, <2>1
  <2>2. \A i, j \in DOMAIN s : i # n /\ j # n /\ i < j => down(i) < down(j)
    BY <1>2
  <2> HIDE DEF up, down
  <2> QED
    BY <1>6, <2>1, <2>2
<1>8. \A i \in DOMAIN r, j \in DOMAIN r : up(i) = up(j) => i = j
  BY <1>2, <1>5
<1> HIDE DEF up, down
<1>9. \A i, j \in DOMAIN s : s[i] = s[j] => i = j
  BY DEF IsLru, IsInjective
<1>10. IsLru(r)
  BY <1>5, <1>6, <1>8, <1>9 DEF IsLru, IsInjective
<1>11. ToSet(r) = ToSet(s) \ {s[n]}
  <2>1. ASSUME NEW y \in ToSet(r) PROVE y \in ToSet(s) /\ y # s[n]
    BY <1>6, <1>9 DEF ToSet
  <2>2. ASSUME NEW y \in ToSet(s), y # s[n] PROVE y \in ToSet(r)
    BY <1>7, <2>2 DEF ToSet
  <2> QED
    BY <2>1, <2>2
<1>12. ASSUME NEW x, NEW y, x # s[n], y # s[n], Before(s, x, y) PROVE Before(r, x, y)
  <2>1. PICK i \in DOMAIN s, j \in DOMAIN s : s[i] = x /\ s[j] = y /\ i < j
    BY <1>12 DEF Before
  <2> QED
    BY <1>7, <1>12, <2>1 DEF Before
<1>13. ASSUME NEW x, NEW y, Before(r, x, y) PROVE Before(s, x, y)
  <2>1. PICK i \in DOMAIN r, j \in DOMAIN r : r[i] = x /\ r[j] = y /\ i < j
    BY <1>13 DEF Before
  <2> QED
    BY <1>6, <2>1 DEF Before
<1> QED
  BY <1>1, <1>10, <1>11, <1>12, <1>13 DEF IsRemoved

\* remove: the key's node is unlinked, if it has one.
LEMMA RemoveEffect ==
    ASSUME NEW s, IsLru(s), NEW k
    PROVE  IsRemoved(remove(s, k), s, k)
<1> DEFINE at == {i \in DOMAIN s : s[i] = k}
<1>1. remove(s, k) = IF at = {} THEN s ELSE RemoveAt(s, CHOOSE i \in at : TRUE)
  BY DEF remove
<1>2. CASE at = {}
  <2>1. remove(s, k) = s /\ k \notin ToSet(s)
    BY <1>1, <1>2 DEF ToSet
  <2> QED
    BY <2>1 DEF IsRemoved
<1>3. CASE at # {}
  <2>1. PICK n : n = CHOOSE i \in at : TRUE
    OBVIOUS
  <2>2. n \in DOMAIN s /\ s[n] = k
    BY <1>3, <2>1
  <2>3. remove(s, k) = RemoveAt(s, n)
    BY <1>1, <1>3, <2>1
  <2> QED
    BY <2>2, <2>3, UnlinkEffect
<1> QED
  BY <1>2, <1>3

\* touch: the key moves to the front, or comes there.
LEMMA TouchEffect ==
    ASSUME NEW s, IsLru(s), NEW k \in Keys
    PROVE  IsFronted(touch(s, k), s, k)
<1>1. PICK u : u = remove(s, k)
  OBVIOUS
<1>2. IsRemoved(u, s, k)
  BY <1>1, RemoveEffect
<1>3. PICK r : r = touch(s, k)
  OBVIOUS
<1>4. IsFronted(r, u, k)
  BY <1>1, <1>2, <1>3, PushEffect DEF IsRemoved, touch
<1>5. IsLru(r) /\ ToSet(r) = ToSet(s) \cup {k}
  BY <1>2, <1>4 DEF IsRemoved, IsFronted
<1>6. \A y \in ToSet(s) : y # k => Before(r, k, y)
  BY <1>2, <1>4 DEF IsRemoved, IsFronted
<1>7. \A x, y : x # k /\ y # k /\ Before(s, x, y) => Before(r, x, y)
  BY <1>2, <1>4 DEF IsRemoved, IsFronted
<1>8. \A x, y : Before(r, x, y) => y # k /\ ((x = k /\ y \in ToSet(s)) \/ Before(s, x, y))
  BY <1>2, <1>4 DEF IsRemoved, IsFronted
<1> QED
  BY <1>3, <1>5, <1>6, <1>7, <1>8 DEF IsFronted

\* popBack: the last key leaves, which all others came before.
LEMMA PopEffect ==
    ASSUME NEW s, IsLru(s), s # << >>
    PROVE  /\ Last(s) \in ToSet(s) /\ Last(s) \in Keys
           /\ IsRemoved(Front(s), s, Last(s))
           /\ \A x \in ToSet(s) : x # Last(s) => Before(s, x, Last(s))
<1>1. s \in Seq(Keys) /\ Len(s) \in Nat \ {0} /\ DOMAIN s = 1 .. Len(s) /\ Len(s) \in DOMAIN s
  <2>1. s \in Seq(Keys) /\ Len(s) \in Nat /\ DOMAIN s = 1 .. Len(s)
    BY DEF IsLru
  <2>2. Len(s) # 0
    BY <2>1
  <2> QED
    BY <2>1, <2>2
<1>2. PICK n \in DOMAIN s : n = Len(s)
  BY <1>1
<1>3. Last(s) = s[n]
  BY <1>2 DEF Last
<1>4. Front(s) = RemoveAt(s, n)
  <2>1. SubSeq(s, n + 1, Len(s)) = << >>
    BY <1>1, <1>2
  <2>2. SubSeq(s, 1, n - 1) \in Seq(Keys)
    BY <1>1, <1>2
  <2>3. SubSeq(s, 1, n - 1) \o << >> = SubSeq(s, 1, n - 1)
    BY <2>2
  <2> QED
    BY <1>2, <2>1, <2>3 DEF Front, RemoveAt
<1>5. ASSUME NEW x \in ToSet(s), x # Last(s) PROVE Before(s, x, Last(s))
  <2>1. PICK i \in DOMAIN s : s[i] = x
    BY DEF ToSet
  <2>2. i < n
    BY <1>1, <1>2, <1>3, <1>5, <2>1
  <2> QED
    BY <1>3, <2>1, <2>2 DEF Before
<1> QED
  BY <1>1, <1>3, <1>4, <1>5, UnlinkEffect DEF ToSet

-----------------------------------------------------------------------------
(* The tiers.                                                              *)

\* The cache of r agrees with its list.
CacheListed(r) ==
    /\ IsLru(r.cacheLru) /\ ToSet(r.cacheLru) = r.cache
    /\ IsFiniteSet(r.cache) /\ Cardinality(r.cache) <= Larger(registryCfg.cache, 1)

\* q is r with k promoted: at the front of the cache's list, in place of at most
\* the least recent entry.
IsPromoted(q, r, k) ==
    /\ q.main = r.main /\ q.mainNodes = r.mainNodes /\ q.mainLru = r.mainLru
    /\ q.secondary = r.secondary
    /\ CacheListed(q)
    /\ k \in q.cache /\ q.cache \subseteq r.cache \cup {k}
    /\ \A x, y : Before(q.cacheLru, x, y) =>
         y # k /\ ((x = k /\ y \in r.cache) \/ Before(r.cacheLru, x, y))
    /\ \A c \in q.cache, m \in r.cache \ q.cache : c = k \/ Before(r.cacheLru, c, m)

\* Capacities count.
LEMMA LargerFacts ==
    ASSUME NEW a \in Nat, NEW b \in Nat
    PROVE  Larger(a, b) \in Nat /\ Larger(a, b) >= a /\ Larger(a, b) >= b
           /\ (Larger(a, b) = a \/ Larger(a, b) = b)
BY DEF Larger

\* The fields of the registry.
LEMMA RegistryRecord ==
    \A r \in Registry :
      /\ r.cache \subseteq Keys /\ r.main \subseteq Keys /\ r.mainNodes \subseteq Keys
      /\ r.secondary \subseteq Keys /\ r.cacheLru \in Seq(Keys) /\ r.mainLru \in Seq(Keys)
BY DEF Registry

\* promoteToCache, with room, without, and of an entry that is there.
LEMMA PromoteEffect ==
    ASSUME registryCfg \in [cache : Nat, main : Nat], NEW r \in Registry, CacheListed(r), NEW k \in Keys
    PROVE  promoteToCache(r, k) \in Registry /\ IsPromoted(promoteToCache(r, k), r, k)
<1>1. PICK q : q = promoteToCache(r, k)
  OBVIOUS
<1>2. /\ IsLru(r.cacheLru) /\ ToSet(r.cacheLru) = r.cache
      /\ IsFiniteSet(r.cache) /\ Cardinality(r.cache) <= Larger(registryCfg.cache, 1)
      /\ Cardinality(r.cache) \in Nat /\ registryCfg.cache \in Nat
  BY FS_CardinalityType DEF CacheListed
<1>3. CASE k \in r.cache
  <2>1. q = [r EXCEPT !.cacheLru = touch(r.cacheLru, k)]
    BY <1>1, <1>3 DEF promoteToCache
  <2>2. PICK u : u = touch(r.cacheLru, k)
    OBVIOUS
  <2>3. IsFronted(u, r.cacheLru, k)
    BY <1>2, <2>2, TouchEffect
  <2>4. u \in Seq(Keys)
    BY <2>3 DEF IsFronted, IsLru
  <2>5. q \in Registry
    BY <2>1, <2>2, <2>4 DEF Registry
  <2>6. /\ q.main = r.main /\ q.mainNodes = r.mainNodes /\ q.mainLru = r.mainLru
        /\ q.secondary = r.secondary /\ q.cache = r.cache /\ q.cacheLru = u
    BY <2>1, <2>2 DEF Registry
  <2>7. CacheListed(q)
    BY <1>2, <1>3, <2>3, <2>6 DEF CacheListed, IsFronted
  <2>8. \A x, y : Before(q.cacheLru, x, y) =>
          y # k /\ ((x = k /\ y \in r.cache) \/ Before(r.cacheLru, x, y))
    BY <1>2, <2>3, <2>6 DEF IsFronted
  <2> QED
    BY <1>1, <1>3, <2>5, <2>6, <2>7, <2>8 DEF IsPromoted
<1>4. CASE k \notin r.cache
  <2> DEFINE room == IF Cardinality(r.cache) >= registryCfg.cache THEN evictFromCache(r) ELSE r
  <2>1. q = [room EXCEPT !.cache = room.cache \cup {k}, !.cacheLru = pushFront(room.cacheLru, k)]
    BY <1>1, <1>4 DEF promoteToCache
  <2>2. PICK o : o = room
    OBVIOUS
  <2>3. /\ o \in Registry
        /\ o.main = r.main /\ o.mainNodes = r.mainNodes /\ o.mainLru = r.mainLru
        /\ o.secondary = r.secondary
        /\ IsLru(o.cacheLru) /\ ToSet(o.cacheLru) = o.cache /\ o.cache \subseteq r.cache
        /\ IsFiniteSet(o.cache) /\ Cardinality(o.cache) + 1 <= Larger(registryCfg.cache, 1)
        /\ \A x, y : Before(o.cacheLru, x, y) => Before(r.cacheLru, x, y)
        /\ \A c \in o.cache, m \in r.cache \ o.cache : Before(r.cacheLru, c, m)
    <3>1. CASE Cardinality(r.cache) < registryCfg.cache
      <4>1. o = r
        BY <1>2, <2>2, <3>1
      <4>2. Cardinality(r.cache) + 1 <= Larger(registryCfg.cache, 1)
        BY <1>2, <3>1, LargerFacts
      <4> QED
        BY <1>2, <4>1, <4>2
    <3>2. CASE Cardinality(r.cache) >= registryCfg.cache /\ r.cacheLru = << >>
      <4>1. o = r
        BY <2>2, <3>2 DEF evictFromCache
      <4>2. r.cache = {}
        BY <1>2, <3>2 DEF ToSet
      <4>3. Cardinality(r.cache) + 1 <= Larger(registryCfg.cache, 1)
        BY <1>2, <4>2, LargerFacts, FS_EmptySet
      <4> QED
        BY <1>2, <4>1, <4>3
    <3>3. CASE Cardinality(r.cache) >= registryCfg.cache /\ r.cacheLru # << >>
      <4>1. o = [r EXCEPT !.cacheLru = Front(r.cacheLru), !.cache = r.cache \ {Last(r.cacheLru)}]
        BY <2>2, <3>3 DEF evictFromCache
      <4>2. PICK u, v : u = Front(r.cacheLru) /\ v = Last(r.cacheLru)
        OBVIOUS
      <4>3. /\ v \in r.cache /\ v \in Keys /\ IsRemoved(u, r.cacheLru, v)
            /\ \A x \in r.cache : x # v => Before(r.cacheLru, x, v)
        BY <1>2, <3>3, <4>2, PopEffect
      <4>4. u \in Seq(Keys)
        BY <4>3 DEF IsRemoved, IsLru
      <4>5. o \in Registry
        BY <4>1, <4>2, <4>4 DEF Registry
      <4>6. /\ o.main = r.main /\ o.mainNodes = r.mainNodes /\ o.mainLru = r.mainLru
            /\ o.secondary = r.secondary /\ o.cache = r.cache \ {v} /\ o.cacheLru = u
        BY <4>1, <4>2 DEF Registry
      <4>7. IsFiniteSet(o.cache) /\ Cardinality(o.cache) = Cardinality(r.cache) - 1
        BY <1>2, <4>3, <4>6, FS_RemoveElement
      <4>8. Cardinality(o.cache) + 1 <= Larger(registryCfg.cache, 1)
        BY <1>2, <4>7
      <4>9. \A c \in o.cache, m \in r.cache \ o.cache : Before(r.cacheLru, c, m)
        BY <4>3, <4>6
      <4> QED
        BY <1>2, <4>3, <4>5, <4>6, <4>7, <4>8, <4>9 DEF IsRemoved
    <3> QED
      BY <1>2, <3>1, <3>2, <3>3
  <2>4. q = [o EXCEPT !.cache = o.cache \cup {k}, !.cacheLru = pushFront(o.cacheLru, k)]
    BY <2>1, <2>2
  <2> HIDE DEF room
  <2>5. PICK u : u = pushFront(o.cacheLru, k)
    OBVIOUS
  <2>6. k \notin o.cache /\ IsFronted(u, o.cacheLru, k)
    BY <1>4, <2>3, <2>5, PushEffect
  <2>7. u \in Seq(Keys)
    BY <2>6 DEF IsFronted, IsLru
  <2>8. q \in Registry
    BY <2>3, <2>4, <2>5, <2>7 DEF Registry
  <2>9. /\ q.main = o.main /\ q.mainNodes = o.mainNodes /\ q.mainLru = o.mainLru
        /\ q.secondary = o.secondary /\ q.cache = o.cache \cup {k} /\ q.cacheLru = u
    BY <2>3, <2>4, <2>5 DEF Registry
  <2>10. CacheListed(q)
    <3>1. IsFiniteSet(q.cache) /\ Cardinality(q.cache) = Cardinality(o.cache) + 1
      BY <2>3, <2>6, <2>9, FS_AddElement
    <3> QED
      BY <2>3, <2>6, <2>9, <3>1 DEF CacheListed, IsFronted
  <2>11. \A x, y : Before(q.cacheLru, x, y) =>
           y # k /\ ((x = k /\ y \in r.cache) \/ Before(r.cacheLru, x, y))
    BY <2>3, <2>6, <2>9 DEF IsFronted
  <2>12. \A c \in q.cache, m \in r.cache \ q.cache : c = k \/ Before(r.cacheLru, c, m)
    BY <2>3, <2>9
  <2> QED
    BY <1>1, <2>3, <2>8, <2>9, <2>10, <2>11, <2>12 DEF IsPromoted
<1> QED
  BY <1>3, <1>4

-----------------------------------------------------------------------------
(* The operations.                                                         *)

\* The registry that lookup has prepared when it promotes k: main memory and its
\* list are done, and the cache has lost at most what main memory has lost.
IsPrepared(r, k) ==
    /\ r \in Registry
    /\ IsLru(r.cacheLru) /\ ToSet(r.cacheLru) = r.cache
    /\ r.cache \subseteq registry.cache /\ r.cache \subseteq r.main
    /\ \A x, y : Before(r.cacheLru, x, y) => Before(registry.cacheLru, x, y)
    /\ k \in r.main /\ r.main \subseteq registry.main \cup {k}
    /\ r.main \cap registry.cache \subseteq r.cache
    /\ IsLru(r.mainLru) /\ ToSet(r.mainLru) \subseteq r.main /\ r.mainNodes = r.main
    /\ IsFiniteSet(r.main)
    /\ Cardinality(r.main \ ToSet(r.mainLru)) <= failures
    /\ Cardinality(r.main) <= Larger(registryCfg.main, failures + 1)
    /\ r.main \cap r.secondary = {} /\ r.main \cup r.secondary = known \ dropped

\* The parts of the invariant.
LEMMA Parts ==
    ASSUME RegistryInv
    PROVE  /\ registry \in Registry /\ registryCfg \in [cache : Nat, main : Nat]
           /\ known \subseteq Keys /\ dropped \subseteq Keys /\ failures \in Nat
           /\ registryCfg.cache \in Nat /\ registryCfg.main \in Nat
           /\ IsFiniteSet(registry.main) /\ IsFiniteSet(registry.cache)
           /\ IsLru(registry.cacheLru) /\ ToSet(registry.cacheLru) = registry.cache
           /\ IsLru(registry.mainLru) /\ ToSet(registry.mainLru) \subseteq registry.main
           /\ registry.mainNodes = registry.main
           /\ Cardinality(registry.main \ ToSet(registry.mainLru)) <= failures
           /\ Cardinality(registry.main) <= Larger(registryCfg.main, failures + 1)
           /\ Cardinality(registry.cache) <= Larger(registryCfg.cache, 1)
           /\ registry.cache \subseteq registry.main
           /\ registry.main \cap registry.secondary = {}
           /\ registry.main \cup registry.secondary = known \ dropped
           /\ IsLru(recent) /\ registry.main \subseteq ToSet(recent)
           /\ \A x, y \in Keys : Before(registry.cacheLru, x, y) => Before(recent, x, y)
           /\ \A c \in registry.cache, m \in registry.main \ registry.cache : Before(recent, c, m)
<1>1. /\ RegistryTypes /\ CachedEntriesLive /\ ListsMatchTiers /\ KeysInOneTier /\ CacheMostRecent
      /\ MainLookedUp /\ CacheLruFollowsRecent
  BY DEF RegistryInv, RegistryTiersConsistent
<1>2. /\ registry \in Registry /\ registryCfg \in [cache : Nat, main : Nat]
      /\ known \subseteq Keys /\ dropped \subseteq Keys /\ failures \in Nat
      /\ registryCfg.cache \in Nat /\ registryCfg.main \in Nat
      /\ IsFiniteSet(registry.main) /\ recent \in Seq(Keys)
      /\ registry.cacheLru \in Seq(Keys) /\ registry.mainLru \in Seq(Keys)
  BY <1>1, RegistryRecord DEF RegistryTypes
<1>3. registry.cache \subseteq registry.main /\ IsFiniteSet(registry.cache)
  BY <1>1, <1>2, FS_Subset DEF CachedEntriesLive
<1>4. \A c \in registry.cache, m \in registry.main \ registry.cache : Before(recent, c, m)
  BY <1>1 DEF CacheMostRecent, Before
<1> QED
  BY <1>1, <1>2, <1>3, <1>4 DEF ListsMatchTiers, KeysInOneTier, MainLookedUp, CacheLruFollowsRecent, IsLru

\* The parts make the invariant, in the next state.
LEMMA PartsNext ==
    ASSUME registry' \in Registry, registryCfg' \in [cache : Nat, main : Nat],
           known' \subseteq Keys, dropped' \subseteq Keys, failures' \in Nat,
           IsFiniteSet(registry'.main),
           IsLru(registry'.cacheLru), ToSet(registry'.cacheLru) = registry'.cache,
           IsLru(registry'.mainLru), ToSet(registry'.mainLru) \subseteq registry'.main,
           registry'.mainNodes = registry'.main,
           Cardinality(registry'.main \ ToSet(registry'.mainLru)) <= failures',
           Cardinality(registry'.main) <= Larger(registryCfg'.main, failures' + 1),
           Cardinality(registry'.cache) <= Larger(registryCfg'.cache, 1),
           registry'.cache \subseteq registry'.main,
           registry'.main \cap registry'.secondary = {},
           registry'.main \cup registry'.secondary = known' \ dropped',
           IsLru(recent'), registry'.main \subseteq ToSet(recent'),
           \A x, y \in Keys : Before(registry'.cacheLru, x, y) => Before(recent', x, y),
           \A c \in registry'.cache, m \in registry'.main \ registry'.cache : Before(recent', c, m)
    PROVE  RegistryInv'
<1>1. RegistryTypes'
  BY DEF RegistryTypes, IsLru
<1>2. CachedEntriesLive' /\ KeysInOneTier'
  BY DEF CachedEntriesLive, KeysInOneTier
<1>3. ListsMatchTiers'
  BY DEF ListsMatchTiers, IsLru
<1>4. CacheMostRecent'
  BY DEF CacheMostRecent, Before
<1>5. MainLookedUp' /\ CacheLruFollowsRecent'
  BY DEF MainLookedUp, CacheLruFollowsRecent, IsLru
<1> QED
  BY <1>1, <1>2, <1>3, <1>4, <1>5 DEF RegistryInv, RegistryTiersConsistent

\* A lookup that succeeds: the cache's list and the order of the lookups change
\* in the same way, and what the cache evicts was looked up before all it keeps.
LEMMA PromoteStep ==
    ASSUME RegistryInv, NEW k \in Keys, NEW r, IsPrepared(r, k), registry' = promoteToCache(r, k), Used(k),
           UNCHANGED <<registryCfg, known, dropped, failures>>
    PROVE  RegistryInv'
<1>0. /\ r \in Registry
      /\ IsLru(r.cacheLru) /\ ToSet(r.cacheLru) = r.cache
      /\ r.cache \subseteq registry.cache /\ r.cache \subseteq r.main
      /\ \A x, y : Before(r.cacheLru, x, y) => Before(registry.cacheLru, x, y)
      /\ k \in r.main /\ r.main \subseteq registry.main \cup {k}
      /\ r.main \cap registry.cache \subseteq r.cache
      /\ IsLru(r.mainLru) /\ ToSet(r.mainLru) \subseteq r.main /\ r.mainNodes = r.main
      /\ IsFiniteSet(r.main)
      /\ Cardinality(r.main \ ToSet(r.mainLru)) <= failures
      /\ Cardinality(r.main) <= Larger(registryCfg.main, failures + 1)
      /\ r.main \cap r.secondary = {} /\ r.main \cup r.secondary = known \ dropped
  BY DEF IsPrepared
<1>1. /\ registryCfg \in [cache : Nat, main : Nat] /\ known \subseteq Keys /\ dropped \subseteq Keys
      /\ failures \in Nat /\ registryCfg.cache \in Nat
      /\ IsFiniteSet(registry.cache) /\ Cardinality(registry.cache) <= Larger(registryCfg.cache, 1)
      /\ IsLru(recent) /\ registry.main \subseteq ToSet(recent)
      /\ registry.cache \subseteq registry.main /\ registry.cache \subseteq Keys
      /\ \A x, y \in Keys : Before(registry.cacheLru, x, y) => Before(recent, x, y)
      /\ \A c \in registry.cache, m \in registry.main \ registry.cache : Before(recent, c, m)
  BY Parts, RegistryRecord
<1>2. CacheListed(r)
  <2>1. /\ IsFiniteSet(r.cache) /\ Cardinality(r.cache) <= Cardinality(registry.cache)
        /\ Cardinality(r.cache) \in Nat /\ Cardinality(registry.cache) \in Nat
    BY <1>0, <1>1, FS_Subset, FS_CardinalityType
  <2>2. Larger(registryCfg.cache, 1) \in Nat
    BY <1>1, LargerFacts
  <2> QED
    BY <1>0, <1>1, <2>1, <2>2 DEF CacheListed
<1>3. PICK q : q = registry'
  OBVIOUS
<1>4. q \in Registry /\ IsPromoted(q, r, k)
  BY <1>0, <1>1, <1>2, <1>3, PromoteEffect
<1>5. /\ q.main = r.main /\ q.mainNodes = r.mainNodes /\ q.mainLru = r.mainLru
      /\ q.secondary = r.secondary
      /\ IsLru(q.cacheLru) /\ ToSet(q.cacheLru) = q.cache
      /\ Cardinality(q.cache) <= Larger(registryCfg.cache, 1)
      /\ k \in q.cache /\ q.cache \subseteq r.cache \cup {k}
      /\ \A x, y : Before(q.cacheLru, x, y) =>
           y # k /\ ((x = k /\ y \in r.cache) \/ Before(r.cacheLru, x, y))
      /\ \A c \in q.cache, m \in r.cache \ q.cache : c = k \/ Before(r.cacheLru, c, m)
  BY <1>4 DEF IsPromoted, CacheListed
<1>6. PICK u : u = recent'
  OBVIOUS
<1>7. IsFronted(u, recent, k)
  BY <1>1, <1>6, TouchEffect DEF Used
<1>8. /\ IsLru(u) /\ ToSet(u) = ToSet(recent) \cup {k}
      /\ \A y \in ToSet(recent) : y # k => Before(u, k, y)
      /\ \A x, y : x # k /\ y # k /\ Before(recent, x, y) => Before(u, x, y)
  BY <1>7 DEF IsFronted
<1>9. ASSUME NEW x \in Keys, NEW y \in Keys, Before(q.cacheLru, x, y)
      PROVE  Before(u, x, y)
  <2>1. y # k /\ ((x = k /\ y \in r.cache) \/ Before(r.cacheLru, x, y))
    BY <1>5, <1>9
  <2>2. y \in r.cache
    BY <1>0, <2>1, BeforeInList
  <2>3. CASE x = k
    BY <1>0, <1>1, <1>8, <2>1, <2>2, <2>3
  <2>4. CASE x # k
    BY <1>0, <1>1, <1>8, <2>1, <2>4
  <2> QED
    BY <2>3, <2>4
<1>10. ASSUME NEW c \in q.cache, NEW m \in q.main \ q.cache
       PROVE  Before(u, c, m)
  <2>1. m # k /\ m \in registry.main /\ m \in r.main
    BY <1>0, <1>5
  <2>2. CASE c = k
    BY <1>1, <1>8, <2>1, <2>2
  <2>3. CASE c # k
    <3>1. c \in r.cache /\ c \in registry.cache
      BY <1>0, <1>5, <2>3
    <3>2. CASE m \in r.cache
      <4>1. Before(registry.cacheLru, c, m)
        BY <1>0, <1>5, <2>3, <3>2
      <4>2. c \in Keys /\ m \in Keys
        BY <1>0, <1>1, <3>1, <3>2
      <4> QED
        BY <1>1, <1>8, <2>1, <2>3, <4>1, <4>2
    <3>3. CASE m \notin r.cache
      <4>1. m \in registry.main \ registry.cache
        BY <1>0, <2>1, <3>3
      <4> QED
        BY <1>1, <1>8, <2>1, <2>3, <3>1, <4>1
    <3> QED
      BY <3>2, <3>3
  <2> QED
    BY <2>2, <2>3
<1>11. q.cache \subseteq q.main /\ q.main \subseteq ToSet(u)
  BY <1>0, <1>1, <1>5, <1>8
<1>12. registryCfg' = registryCfg /\ known' = known /\ dropped' = dropped /\ failures' = failures
  OBVIOUS
<1> QED
  BY <1>0, <1>1, <1>3, <1>4, <1>5, <1>6, <1>8, <1>9, <1>10, <1>11, <1>12, PartsNext

\* A hit in the cache.
LEMMA LookupCacheStep ==
    ASSUME RegistryInv, NEW k \in Keys, lookupCache(k)
    PROVE  RegistryInv'
<1>1. /\ k \in registry.cache /\ registry' = [registry EXCEPT !.cacheLru = touch(registry.cacheLru, k)]
      /\ Used(k) /\ UNCHANGED <<registryCfg, known, dropped, failures>>
  BY DEF lookupCache
<1>2. registry' = promoteToCache(registry, k)
  BY <1>1 DEF promoteToCache
<1>3. PICK r : r = registry
  OBVIOUS
<1>4. IsPrepared(r, k)
  <2>1. k \in r.main /\ r.main \subseteq registry.main \cup {k}
    BY <1>1, <1>3, Parts
  <2> QED
    BY <1>3, <2>1, Parts DEF IsPrepared
<1> QED
  BY <1>1, <1>2, <1>3, <1>4, PromoteStep

\* A hit in main memory.
LEMMA LookupMainMemoryStep ==
    ASSUME RegistryInv, NEW k \in Keys, lookupMainMemory(k)
    PROVE  RegistryInv'
<1>1. PICK r : r = [registry EXCEPT !.mainLru = touch(registry.mainLru, k)]
  OBVIOUS
<1>2. /\ k \in registry.main /\ (\E i \in DOMAIN registry.mainLru : registry.mainLru[i] = k)
      /\ registry' = promoteToCache(r, k)
      /\ Used(k) /\ UNCHANGED <<registryCfg, known, dropped, failures>>
  BY <1>1 DEF lookupMainMemory
<1>3. PICK u : u = touch(registry.mainLru, k)
  OBVIOUS
<1>4. registry \in Registry /\ IsLru(registry.mainLru) /\ ToSet(registry.mainLru) \subseteq registry.main
  BY Parts
<1>5. IsLru(u) /\ ToSet(u) = ToSet(registry.mainLru)
  <2>1. k \in ToSet(registry.mainLru)
    BY <1>2 DEF ToSet
  <2>2. IsFronted(u, registry.mainLru, k)
    BY <1>3, <1>4, TouchEffect
  <2> QED
    BY <2>1, <2>2 DEF IsFronted
<1>6. r \in Registry
  BY <1>1, <1>3, <1>4, <1>5 DEF Registry, IsLru
<1>7. /\ r.cache = registry.cache /\ r.cacheLru = registry.cacheLru /\ r.main = registry.main
      /\ r.mainNodes = registry.mainNodes /\ r.mainLru = u /\ r.secondary = registry.secondary
  BY <1>1, <1>3, <1>4 DEF Registry
<1>8. IsPrepared(r, k)
  <2>1. k \in r.main /\ r.main \subseteq registry.main \cup {k}
    BY <1>2, <1>7
  <2> QED
    BY <1>5, <1>6, <1>7, <2>1, Parts DEF IsPrepared
<1> QED
  BY <1>2, <1>8, PromoteStep

\* What evictFromMainMemory does: q is r afterwards.
IsEvicted(q, r) ==
    LET v == Last(r.mainLru) IN
    /\ q \in Registry
    /\ v \in r.main
    /\ q.main = r.main \ {v} /\ q.mainNodes = r.mainNodes \ {v} /\ IsRemoved(q.mainLru, r.mainLru, v)
    /\ q.secondary = r.secondary \cup {v}
    /\ q.cache = r.cache \ {v} /\ IsRemoved(q.cacheLru, r.cacheLru, v)

\* The victim of main memory's list leaves main memory and the cache.
LEMMA EvictEffect ==
    ASSUME NEW r \in Registry, IsLru(r.mainLru), IsLru(r.cacheLru), r.mainLru # << >>,
           ToSet(r.mainLru) \subseteq r.main
    PROVE  IsEvicted(evictFromMainMemory(r), r)
<1>1. PICK v, u, w : v = Last(r.mainLru) /\ u = Front(r.mainLru) /\ w = remove(r.cacheLru, v)
  OBVIOUS
<1>2. v \in r.main /\ v \in Keys /\ IsRemoved(u, r.mainLru, v) /\ u \in Seq(Keys)
  BY <1>1, PopEffect DEF IsRemoved, IsLru
<1>3. IsRemoved(w, r.cacheLru, v) /\ w \in Seq(Keys)
  BY <1>1, RemoveEffect DEF IsRemoved, IsLru
<1>4. PICK q : q = evictFromMainMemory(r)
  OBVIOUS
<1>5. q = [r EXCEPT !.mainLru = u, !.secondary = r.secondary \cup {v}, !.main = r.main \ {v},
                    !.mainNodes = r.mainNodes \ {v}, !.cache = r.cache \ {v}, !.cacheLru = w]
  BY <1>1, <1>4, Zenon DEF evictFromMainMemory
<1>6. q \in Registry
  BY <1>2, <1>3, <1>5 DEF Registry
<1>7. /\ q.main = r.main \ {v} /\ q.mainNodes = r.mainNodes \ {v} /\ q.mainLru = u
      /\ q.secondary = r.secondary \cup {v} /\ q.cache = r.cache \ {v} /\ q.cacheLru = w
  BY <1>5 DEF Registry
<1> QED
  BY <1>1, <1>2, <1>3, <1>4, <1>6, <1>7 DEF IsEvicted

\* A hit in secondary storage, with the eviction that makes room.
LEMMA LookupSecondaryStep ==
    ASSUME RegistryInv, NEW k \in Keys, lookupSecondaryStorage(k)
    PROVE  RegistryInv'
<1>0. /\ registry \in Registry /\ registryCfg.main \in Nat /\ failures \in Nat
      /\ IsFiniteSet(registry.main)
      /\ IsLru(registry.cacheLru) /\ ToSet(registry.cacheLru) = registry.cache
      /\ IsLru(registry.mainLru) /\ ToSet(registry.mainLru) \subseteq registry.main
      /\ registry.mainNodes = registry.main
      /\ Cardinality(registry.main \ ToSet(registry.mainLru)) <= failures
      /\ Cardinality(registry.main) <= Larger(registryCfg.main, failures + 1)
      /\ registry.cache \subseteq registry.main
      /\ registry.main \cap registry.secondary = {}
      /\ registry.main \cup registry.secondary = known \ dropped
  BY Parts
<1> DEFINE taken0 == [registry EXCEPT !.secondary = registry.secondary \ {k}]
           room0 == IF MainMemoryFull(taken0) THEN evictFromMainMemory(taken0) ELSE taken0
<1>1. /\ k \in registry.secondary
      /\ registry' = promoteToCache([room0 EXCEPT !.main = room0.main \cup {k},
                                                  !.mainNodes = room0.mainNodes \cup {k},
                                                  !.mainLru = pushFront(room0.mainLru, k)], k)
      /\ Used(k) /\ UNCHANGED <<registryCfg, known, dropped, failures>>
  BY Zenon DEF lookupSecondaryStorage
<1>2. PICK taken : taken = taken0
  OBVIOUS
<1>3. PICK room : room = room0
  OBVIOUS
<1>4. PICK r : r = [room EXCEPT !.main = room.main \cup {k}, !.mainNodes = room.mainNodes \cup {k},
                                !.mainLru = pushFront(room.mainLru, k)]
  OBVIOUS
<1>5. registry' = promoteToCache(r, k)
  BY <1>1, <1>3, <1>4, Zenon
<1>6. taken \in Registry
  BY <1>0, <1>2 DEF Registry
<1>7. /\ taken.cache = registry.cache /\ taken.cacheLru = registry.cacheLru
      /\ taken.main = registry.main /\ taken.mainNodes = registry.mainNodes
      /\ taken.mainLru = registry.mainLru /\ taken.secondary = registry.secondary \ {k}
  BY <1>0, <1>2 DEF Registry
<1>8. room = IF Cardinality(taken.main) >= registryCfg.main THEN evictFromMainMemory(taken) ELSE taken
  BY <1>2, <1>3, Zenon DEF MainMemoryFull
<1> HIDE DEF taken0, room0
<1>9. k \notin registry.main /\ k \notin registry.cache /\ Cardinality(registry.main) \in Nat
  BY <1>0, <1>1, FS_CardinalityType
<1>10. /\ Larger(registryCfg.main, failures + 1) \in Nat
       /\ registryCfg.main <= Larger(registryCfg.main, failures + 1)
       /\ failures + 1 <= Larger(registryCfg.main, failures + 1)
  BY <1>0 DEF Larger
\* The room made in main memory.
<1>11. /\ room \in Registry
       /\ IsLru(room.cacheLru) /\ ToSet(room.cacheLru) = room.cache
       /\ room.cache \subseteq registry.cache /\ room.cache \subseteq room.main
       /\ \A x, y : Before(room.cacheLru, x, y) => Before(registry.cacheLru, x, y)
       /\ room.main \subseteq registry.main
       /\ room.main \cap registry.cache \subseteq room.cache
       /\ IsLru(room.mainLru) /\ ToSet(room.mainLru) \subseteq room.main /\ room.mainNodes = room.main
       /\ IsFiniteSet(room.main)
       /\ room.main \ ToSet(room.mainLru) = registry.main \ ToSet(registry.mainLru)
       /\ Cardinality(room.main) + 1 <= Larger(registryCfg.main, failures + 1)
       /\ room.main \cap room.secondary = {} /\ k \notin room.secondary
       /\ room.main \cup room.secondary \cup {k} = known \ dropped
  <2>0. /\ IsLru(taken.mainLru) /\ IsLru(taken.cacheLru) /\ ToSet(taken.mainLru) \subseteq taken.main
    BY <1>0, <1>7
  <2>1. CASE Cardinality(registry.main) < registryCfg.main
    <3>1. room = taken
      BY <1>0, <1>7, <1>8, <1>9, <2>1
    <3>2. Cardinality(registry.main) + 1 <= Larger(registryCfg.main, failures + 1)
      BY <1>0, <1>9, <1>10, <2>1
    <3> QED
      BY <1>0, <1>1, <1>6, <1>7, <1>9, <3>1, <3>2
  <2>2. CASE Cardinality(registry.main) >= registryCfg.main /\ registry.mainLru = << >>
    <3>1. room = taken
      BY <1>7, <1>8, <2>2 DEF evictFromMainMemory
    <3>2. registry.main \ ToSet(registry.mainLru) = registry.main
      BY <2>2 DEF ToSet
    <3>3. Cardinality(registry.main) <= failures
      BY <1>0, <3>2
    <3>4. Cardinality(registry.main) + 1 <= Larger(registryCfg.main, failures + 1)
      BY <1>0, <1>9, <1>10, <3>3
    <3> QED
      BY <1>0, <1>1, <1>6, <1>7, <1>9, <3>1, <3>4
  <2>3. CASE Cardinality(registry.main) >= registryCfg.main /\ registry.mainLru # << >>
    <3>1. room = evictFromMainMemory(taken)
      BY <1>7, <1>8, <2>3
    <3>2. IsEvicted(room, taken)
      BY <1>6, <1>7, <2>0, <2>3, <3>1, EvictEffect
    <3>3. PICK v : v = Last(taken.mainLru)
      OBVIOUS
    <3>4. /\ room \in Registry /\ v \in registry.main
          /\ room.main = registry.main \ {v} /\ room.mainNodes = registry.mainNodes \ {v}
          /\ IsRemoved(room.mainLru, registry.mainLru, v)
          /\ room.secondary = (registry.secondary \ {k}) \cup {v}
          /\ room.cache = registry.cache \ {v} /\ IsRemoved(room.cacheLru, registry.cacheLru, v)
      BY <1>7, <3>2, <3>3 DEF IsEvicted
    <3>5. /\ IsLru(room.mainLru) /\ ToSet(room.mainLru) = ToSet(registry.mainLru) \ {v}
          /\ IsLru(room.cacheLru) /\ ToSet(room.cacheLru) = ToSet(registry.cacheLru) \ {v}
          /\ \A x, y : Before(room.cacheLru, x, y) => Before(registry.cacheLru, x, y)
      BY <3>4 DEF IsRemoved
    <3>6. v \in ToSet(registry.mainLru)
      BY <1>7, <2>0, <2>3, <3>3, PopEffect
    <3>7. IsFiniteSet(room.main) /\ Cardinality(room.main) = Cardinality(registry.main) - 1
      <4>1. PICK S : S = registry.main
        OBVIOUS
      <4>2. IsFiniteSet(S \ {v}) /\ Cardinality(S \ {v}) = Cardinality(S) - 1
        BY <1>0, <3>4, <4>1, FS_RemoveElement
      <4> QED
        BY <3>4, <4>1, <4>2
    <3>8. Cardinality(room.main) + 1 <= Larger(registryCfg.main, failures + 1)
      BY <1>0, <1>9, <3>7
    <3>9. room.main \ ToSet(room.mainLru) = registry.main \ ToSet(registry.mainLru)
      BY <3>4, <3>5, <3>6
    <3>10. /\ room.main \cap room.secondary = {} /\ k \notin room.secondary
           /\ room.main \cup room.secondary \cup {k} = known \ dropped
      BY <1>0, <1>1, <1>9, <3>4
    <3> QED
      BY <1>0, <3>4, <3>5, <3>7, <3>8, <3>9, <3>10
  <2> QED
    BY <1>0, <1>9, <2>1, <2>2, <2>3
<1>12. PICK u : u = pushFront(room.mainLru, k)
  OBVIOUS
<1>13. IsLru(u) /\ ToSet(u) = ToSet(room.mainLru) \cup {k}
  <2>1. k \notin ToSet(room.mainLru)
    BY <1>9, <1>11
  <2> QED
    BY <1>11, <1>12, <2>1, PushEffect DEF IsFronted
<1>14. r \in Registry
  BY <1>4, <1>11, <1>12, <1>13 DEF Registry, IsLru
<1>15. /\ r.cache = room.cache /\ r.cacheLru = room.cacheLru /\ r.main = room.main \cup {k}
       /\ r.mainNodes = room.mainNodes \cup {k} /\ r.mainLru = u /\ r.secondary = room.secondary
  BY <1>4, <1>11, <1>12 DEF Registry
<1>16. /\ IsFiniteSet(r.main) /\ Cardinality(r.main) <= Larger(registryCfg.main, failures + 1)
  <2>1. k \notin room.main
    BY <1>9, <1>11
  <2>2. IsFiniteSet(r.main) /\ Cardinality(r.main) = Cardinality(room.main) + 1
    <3>1. PICK S : S = room.main
      OBVIOUS
    <3>2. IsFiniteSet(S \cup {k}) /\ Cardinality(S \cup {k}) = Cardinality(S) + 1
      BY <1>11, <2>1, <3>1, FS_AddElement
    <3> QED
      BY <1>15, <3>1, <3>2
  <2> QED
    BY <1>11, <2>2
<1>17. r.main \ ToSet(r.mainLru) = registry.main \ ToSet(registry.mainLru)
  BY <1>9, <1>11, <1>13, <1>15
<1>18. IsPrepared(r, k)
  <2>1. Cardinality(r.main \ ToSet(r.mainLru)) <= failures
    BY <1>0, <1>17
  <2>2. r.main \cap r.secondary = {} /\ r.main \cup r.secondary = known \ dropped
    BY <1>11, <1>15
  <2>3. r.main \cap registry.cache \subseteq r.cache
    BY <1>9, <1>11, <1>15
  <2>4. k \in r.main /\ r.main \subseteq registry.main \cup {k} /\ r.mainNodes = r.main
        /\ r.cache \subseteq r.main /\ ToSet(r.mainLru) \subseteq r.main
    BY <1>11, <1>13, <1>15
  <2> QED
    BY <1>11, <1>13, <1>14, <1>15, <1>16, <2>1, <2>2, <2>3, <2>4 DEF IsPrepared
<1> QED
  BY <1>1, <1>5, <1>18, PromoteStep

\* registerKernel adds to secondary storage only.
LEMMA RegisterStep ==
    ASSUME RegistryInv, NEW k \in Keys, registerKernel(k)
    PROVE  RegistryInv'
<1>1. /\ k \notin registry.main /\ k \notin registry.secondary
      /\ registry' = [registry EXCEPT !.secondary = registry.secondary \cup {k}]
      /\ known' = known \cup {k} /\ dropped' = dropped \ {k}
      /\ registryCfg' = registryCfg /\ recent' = recent /\ failures' = failures
  BY DEF registerKernel
<1>2. registry \in Registry
  BY Parts
<1>3. /\ registry' \in Registry
      /\ registry'.cache = registry.cache /\ registry'.cacheLru = registry.cacheLru
      /\ registry'.main = registry.main /\ registry'.mainNodes = registry.mainNodes
      /\ registry'.mainLru = registry.mainLru /\ registry'.secondary = registry.secondary \cup {k}
  BY <1>1, <1>2 DEF Registry
<1>4. registry'.main \cap registry'.secondary = {}
  BY <1>1, <1>3, Parts
<1>5. registry'.main \cup registry'.secondary = known' \ dropped'
  BY <1>1, <1>3, Parts
<1>6. known' \subseteq Keys /\ dropped' \subseteq Keys
  BY <1>1, Parts
<1> QED
  BY <1>1, <1>3, <1>4, <1>5, <1>6, Parts, PartsNext

\* A demotion that throws: the victim stays in main memory, on no list.
LEMMA ThrowsStep ==
    ASSUME RegistryInv, NEW k \in Keys, LookupEvictionThrows(k)
    PROVE  RegistryInv'
<1>0. /\ registry \in Registry /\ IsLru(registry.mainLru) /\ failures \in Nat
      /\ IsFiniteSet(registry.main) /\ registryCfg.main \in Nat
      /\ Cardinality(registry.main \ ToSet(registry.mainLru)) <= failures
      /\ Cardinality(registry.main) <= Larger(registryCfg.main, failures + 1)
      /\ ToSet(registry.mainLru) \subseteq registry.main
  BY Parts
<1>1. PICK taken : taken = [registry EXCEPT !.secondary = registry.secondary \ {k}]
  OBVIOUS
<1>2. /\ k \in registry.secondary /\ taken.mainLru # << >> /\ registry' = EvictionThrows(taken)
      /\ dropped' = dropped \cup {k} /\ failures' = failures + 1
      /\ registryCfg' = registryCfg /\ recent' = recent /\ known' = known
  BY <1>1, Zenon DEF LookupEvictionThrows
<1>3. /\ taken \in Registry
      /\ taken.cache = registry.cache /\ taken.cacheLru = registry.cacheLru
      /\ taken.main = registry.main /\ taken.mainNodes = registry.mainNodes
      /\ taken.mainLru = registry.mainLru /\ taken.secondary = registry.secondary \ {k}
  BY <1>0, <1>1 DEF Registry
<1>4. PICK s, u, v : s = registry.mainLru /\ u = Front(s) /\ v = Last(s)
  OBVIOUS
<1>5. v \in ToSet(s) /\ IsRemoved(u, s, v)
  BY <1>0, <1>2, <1>3, <1>4, PopEffect
<1>6. IsLru(u) /\ u \in Seq(Keys) /\ ToSet(u) = ToSet(s) \ {v}
  BY <1>5 DEF IsRemoved, IsLru
<1>7. registry' = [taken EXCEPT !.mainLru = u]
  BY <1>2, <1>3, <1>4 DEF EvictionThrows
<1>8. /\ registry' \in Registry
      /\ registry'.cache = registry.cache /\ registry'.cacheLru = registry.cacheLru
      /\ registry'.main = registry.main /\ registry'.mainNodes = registry.mainNodes
      /\ registry'.mainLru = u /\ registry'.secondary = registry.secondary \ {k}
  BY <1>3, <1>6, <1>7 DEF Registry
<1>9. PICK S, T : S = registry.main \ ToSet(s) /\ T = registry.main \ ToSet(u)
  OBVIOUS
<1>10. T = S \cup {v} /\ v \notin S
  BY <1>0, <1>4, <1>5, <1>6, <1>9
<1>11. IsFiniteSet(S) /\ Cardinality(S) \in Nat
  BY <1>0, <1>9, FS_Difference, FS_CardinalityType
<1>12. Cardinality(T) = Cardinality(S) + 1
  BY <1>10, <1>11, FS_AddElement
<1>13. Cardinality(registry'.main \ ToSet(registry'.mainLru)) <= failures'
  BY <1>0, <1>2, <1>4, <1>8, <1>9, <1>11, <1>12
<1>14. Cardinality(registry'.main) <= Larger(registryCfg'.main, failures' + 1)
  <2>1. Cardinality(registry.main) \in Nat
    BY <1>0, FS_CardinalityType
  <2>2. Larger(registryCfg.main, failures + 1) <= Larger(registryCfg.main, failures + 1 + 1)
        /\ Larger(registryCfg.main, failures + 1) \in Nat
        /\ Larger(registryCfg.main, failures + 1 + 1) \in Nat
    BY <1>0 DEF Larger
  <2> QED
    BY <1>0, <1>2, <1>8, <2>1, <2>2
<1>15. ToSet(registry'.mainLru) \subseteq registry'.main
  BY <1>0, <1>4, <1>6, <1>8
<1>16. registry'.main \cap registry'.secondary = {}
  BY <1>8, Parts
<1>17. registry'.main \cup registry'.secondary = known' \ dropped'
  <2>1. k \notin registry.main /\ registry.main \cup registry.secondary = known \ dropped
    BY <1>2, Parts
  <2> QED
    BY <1>2, <1>8, <2>1
<1>18. dropped' \subseteq Keys /\ failures' \in Nat
  BY <1>0, <1>2, Parts
<1> QED
  BY <1>2, <1>6, <1>8, <1>13, <1>14, <1>15, <1>16, <1>17, <1>18, Parts, PartsNext

\* The empty list.
LEMMA EmptyLru == IsLru(<< >>) /\ ToSet(<< >>) = {} /\ \A x, y : ~Before(<< >>, x, y)
BY DEF IsLru, IsInjective, ToSet, Before

\* flush empties the cache.
LEMMA FlushStep ==
    ASSUME RegistryInv, flush
    PROVE  RegistryInv'
<1>1. /\ registry' = [registry EXCEPT !.cache = {}, !.cacheLru = << >>]
      /\ registryCfg' = registryCfg /\ recent' = recent /\ failures' = failures
      /\ known' = known /\ dropped' = dropped
  BY DEF flush
<1>2. registry \in Registry /\ registryCfg.cache \in Nat
  BY Parts
<1>3. /\ registry' \in Registry
      /\ registry'.cache = {} /\ registry'.cacheLru = << >>
      /\ registry'.main = registry.main /\ registry'.mainNodes = registry.mainNodes
      /\ registry'.mainLru = registry.mainLru /\ registry'.secondary = registry.secondary
  <2>1. PICK r \in Registry : r = registry
    BY <1>2
  <2>2. PICK e, s : e = {} /\ s = << >>
    OBVIOUS
  <2>3. e \in SUBSET Keys /\ s \in Seq(Keys)
    BY <2>2
  <2>4. PICK q : q = [r EXCEPT !.cache = e, !.cacheLru = s]
    OBVIOUS
  <2>5. /\ q \in Registry /\ q.cache = e /\ q.cacheLru = s /\ q.main = r.main
        /\ q.mainNodes = r.mainNodes /\ q.mainLru = r.mainLru /\ q.secondary = r.secondary
    BY <2>3, <2>4 DEF Registry
  <2>6. registry' = q
    BY <1>1, <2>1, <2>2, <2>4
  <2> QED
    BY <2>1, <2>2, <2>5, <2>6
<1>4. Cardinality(registry'.cache) <= Larger(registryCfg'.cache, 1)
  BY <1>1, <1>2, <1>3, FS_EmptySet DEF Larger
<1> QED
  BY <1>1, <1>3, <1>4, EmptyLru, Parts, PartsNext

\* An empty registry agrees with itself.
LEMMA EmptyRegistryFacts ==
    /\ EmptyRegistry \in Registry
    /\ EmptyRegistry.cache = {} /\ EmptyRegistry.cacheLru = << >> /\ EmptyRegistry.main = {}
    /\ EmptyRegistry.mainNodes = {} /\ EmptyRegistry.mainLru = << >> /\ EmptyRegistry.secondary = {}
BY DEF EmptyRegistry, Registry

\* clear empties all tiers.
LEMMA ClearStep ==
    ASSUME RegistryInv, clear
    PROVE  RegistryInv'
<1>1. /\ registry' = EmptyRegistry /\ known' = {} /\ dropped' = {} /\ recent' = << >>
      /\ registryCfg' = registryCfg /\ failures' = failures
  BY DEF clear
<1>2. /\ registryCfg \in [cache : Nat, main : Nat] /\ registryCfg.cache \in Nat
      /\ registryCfg.main \in Nat /\ failures \in Nat
  BY Parts
<1>3. /\ registry' \in Registry
      /\ registry'.cache = {} /\ registry'.cacheLru = << >> /\ registry'.main = {}
      /\ registry'.mainNodes = {} /\ registry'.mainLru = << >> /\ registry'.secondary = {}
  BY <1>1, EmptyRegistryFacts
<1>4. /\ Cardinality(registry'.cache) <= Larger(registryCfg'.cache, 1)
      /\ Cardinality(registry'.main) <= Larger(registryCfg'.main, failures' + 1)
      /\ Cardinality(registry'.main \ ToSet(registry'.mainLru)) <= failures'
      /\ IsFiniteSet(registry'.main)
  <2>1. registry'.main \ ToSet(registry'.mainLru) = {}
    BY <1>3
  <2> QED
    BY <1>1, <1>2, <1>3, <2>1, FS_EmptySet DEF Larger
<1> QED
  BY <1>1, <1>2, <1>3, <1>4, EmptyLru, PartsNext

-----------------------------------------------------------------------------
(* The invariant is inductive.                                             *)

\* A new registry satisfies the invariant.
LEMMA RegistryInitInv == RegistryInit => RegistryInv
<1> SUFFICES ASSUME RegistryInit PROVE RegistryInv
  OBVIOUS
<1>1. /\ registry = EmptyRegistry /\ registryCfg \in RegistryConfigs
      /\ known = {} /\ dropped = {} /\ recent = << >> /\ failures = 0
  BY DEF RegistryInit
<1>2. /\ registryCfg \in [cache : Nat, main : Nat] /\ registryCfg.cache \in Nat
      /\ registryCfg.main \in Nat
  BY <1>1, RegistryConstants
<1>3. /\ registry \in Registry
      /\ registry.cache = {} /\ registry.cacheLru = << >> /\ registry.main = {}
      /\ registry.mainNodes = {} /\ registry.mainLru = << >> /\ registry.secondary = {}
  BY <1>1, EmptyRegistryFacts
<1>4. /\ Cardinality(registry.cache) <= Larger(registryCfg.cache, 1)
      /\ Cardinality(registry.main) <= Larger(registryCfg.main, failures + 1)
      /\ Cardinality(registry.main \ ToSet(registry.mainLru)) <= failures
      /\ IsFiniteSet(registry.main)
  <2>1. registry.main \ ToSet(registry.mainLru) = {}
    BY <1>3
  <2> QED
    BY <1>1, <1>2, <1>3, <2>1, FS_EmptySet DEF Larger
<1>5. RegistryTypes
  BY <1>1, <1>2, <1>3, <1>4 DEF RegistryTypes
<1>6. CachedEntriesLive /\ KeysInOneTier /\ CacheMostRecent
  BY <1>1, <1>3 DEF CachedEntriesLive, KeysInOneTier, CacheMostRecent
<1>7. ListsMatchTiers
  BY <1>3, <1>4, EmptyLru DEF ListsMatchTiers, IsLru
<1>8. MainLookedUp /\ CacheLruFollowsRecent
  BY <1>1, <1>3, EmptyLru DEF MainLookedUp, CacheLruFollowsRecent, IsLru
<1> QED
  BY <1>5, <1>6, <1>7, <1>8 DEF RegistryInv, RegistryTiersConsistent

\* Every operation keeps it.
LEMMA RegistryNextInv == RegistryInv /\ [RegistryNext]_registryVars => RegistryInv'
<1> SUFFICES ASSUME RegistryInv, [RegistryNext]_registryVars PROVE RegistryInv'
  OBVIOUS
<1>1. CASE \E k \in Keys : registerKernel(k)
  BY <1>1, RegisterStep
<1>2. CASE \E k \in Keys : lookupCache(k)
  BY <1>2, LookupCacheStep
<1>3. CASE \E k \in Keys : lookupMainMemory(k)
  BY <1>3, LookupMainMemoryStep
<1>4. CASE \E k \in Keys : lookupSecondaryStorage(k)
  BY <1>4, LookupSecondaryStep
<1>5. CASE \E k \in Keys : LookupEvictionThrows(k)
  BY <1>5, ThrowsStep
<1>6. CASE flush
  BY <1>6, FlushStep
<1>7. CASE clear
  BY <1>7, ClearStep
<1>8. CASE UNCHANGED registryVars
  BY <1>8 DEF registryVars, RegistryInv, RegistryTypes, RegistryTiersConsistent, CachedEntriesLive,
     ListsMatchTiers, KeysInOneTier, CacheMostRecent, MainLookedUp, CacheLruFollowsRecent
<1> QED
  BY <1>1, <1>2, <1>3, <1>4, <1>5, <1>6, <1>7, <1>8 DEF RegistryNext

\* The inductive invariant of the registry: the types, the agreement of tiers and
\* lists, and the agreement of the cache's list with the order of the lookups.
THEOREM InvariantHolds == RegistrySpec => []RegistryInv
  BY RegistryInitInv, RegistryNextInv, PTL DEF RegistrySpec

\* Whatever is registered, looked up, evicted, flushed or fails to be demoted, and
\* whatever the capacities, zero included: the cache points only to entries main
\* memory owns, every entry is on its list once or was lost to a demotion that
\* threw, the tiers keep to their capacities, no registered kernel is lost, and
\* the cache holds the entries looked up last.
THEOREM TiersAlwaysConsistent == RegistrySpec => []RegistryTiersConsistent
<1>1. RegistryInv => RegistryTiersConsistent
  BY DEF RegistryInv
<1> QED
  BY <1>1, InvariantHolds, PTL

-----------------------------------------------------------------------------
(* The kernel call *)

StorageBindings == [key : Operands, value : CallTensors]
ParamBindings == [key : ParamFields, value : [type : Types, of : CallTensors \cup {"user"}]]

CallTypes ==
    /\ args \in [context : {"none", "cpu", "mps"}, storages : Seq(StorageBindings),
                 params : Seq(ParamBindings)]
    /\ firstBound \in [Operands -> CallTensors \cup {Nothing}]
    /\ halfCleared \in BOOLEAN

\* Every kernel is registered under its own key.
TableKeyed ==
    \A key \in DOMAIN kernelTable : kernelTable[key] \in KernelDefs /\ key = make(kernelTable[key])

\* The first storage of an operand is the one of the tensor first bound to it.
StoragesFollow == \A o \in Operands : findStorage(args, o) = firstBound[o]

\* What is found of the layout of a tensor bound first.
LayoutFound(id, t) == IF t = Nothing THEN Nothing ELSE [type |-> TypeOf(id), of |-> t]

\* Unless one list was cleared alone, the first layout of an operand is the one of
\* that tensor too, and there is none before the operand is bound.
LayoutsFollow ==
    ~halfCleared =>
        \A o \in Operands, id \in LayoutIds :
            findParam(args, Scoped(id, o)) = LayoutFound(id, firstBound[o])

\* The inductive invariant.  CallsConsistent is about the last call only: that
\* the next one is right as well rests on the table and on the two lists.
CallInv ==
    /\ CallTypes
    /\ TableKeyed
    /\ StoragesFollow
    /\ LayoutsFollow
    /\ MostSpecific
    /\ OperandsTogether

-----------------------------------------------------------------------------
(* Numbers.                                                                *)

\* A set of naturals has a least element.
LEMMA LeastNat ==
    ASSUME NEW X \in SUBSET Nat, X # {}
    PROVE  \E m \in X : \A n \in X : m <= n
<1> DEFINE T == {1 .. n : n \in X}
           R == StrictSubsetOrdering(Nat)
<1>1. ASSUME NEW n \in X PROVE 1 .. n \in FiniteSubsetsOf(Nat)
  <2>1. n \in Int /\ 1 \in Int /\ 1 .. n \in SUBSET Nat
    OBVIOUS
  <2>2. IsFiniteSet(1 .. n)
    BY <2>1, FS_Interval
  <2> QED
    BY <2>1, <2>2 DEF FiniteSubsetsOf
<1>2. T \subseteq FiniteSubsetsOf(Nat) /\ T # {}
  BY <1>1
<1>3. IsWellFoundedOn(R, FiniteSubsetsOf(Nat))
  BY FS_StrictSubsetOrderingWellFounded
<1>4. PICK x \in T : \A y \in T : ~ (<< y, x >> \in R)
  <2> HIDE DEF T, R
  <2> QED
    BY <1>2, <1>3, WFMin
<1>5. PICK m \in X : x = 1 .. m
  OBVIOUS
<1>6. ASSUME NEW n \in X PROVE m <= n
  <2> SUFFICES ASSUME n < m PROVE FALSE
    OBVIOUS
  <2>1. 1 .. n \in SUBSET Nat /\ 1 .. m \in SUBSET Nat /\ 1 .. n \subseteq 1 .. m
    OBVIOUS
  <2>2. m \in 1 .. m /\ m \notin 1 .. n
    OBVIOUS
  <2>3. << 1 .. n, 1 .. m >> \in R
    BY <2>1, <2>2 DEF StrictSubsetOrdering
  <2>4. 1 .. n \in T
    OBVIOUS
  <2> QED
    BY <1>4, <1>5, <2>3, <2>4
<1> QED
  BY <1>6

\* A power of two counts subsets.
LEMMA PowerCounts ==
    ASSUME NEW n \in Nat
    PROVE  IsFiniteSet(SUBSET (1 .. n)) /\ Cardinality(SUBSET (1 .. n)) = 2^n
<1>1. IsFiniteSet(1 .. n) /\ Cardinality(1 .. n) = n
  <2>1. 1 \in Int /\ n \in Int /\ (IF 1 > n THEN 0 ELSE n - 1 + 1) = n
    OBVIOUS
  <2> QED
    BY <2>1, FS_Interval
<1>2. IsFiniteSet(SUBSET (1 .. n)) /\ Cardinality(SUBSET (1 .. n)) = 2^Cardinality(1 .. n)
  BY <1>1, FS_SUBSET
<1> QED
  BY <1>1, <1>2

\* A power of two is positive.
LEMMA PowerPositive ==
    ASSUME NEW n \in Nat
    PROVE  2^n \in Nat \ {0}
<1>1. 2^n \in Nat
  BY PowerCounts, FS_CardinalityType
<1>2. {} \in SUBSET (1 .. n)
  OBVIOUS
<1>3. SUBSET (1 .. n) # {}
  BY <1>2
<1> QED
  BY <1>1, <1>3, PowerCounts, FS_EmptySet

\* Exponents add up.
LEMMA PowerSum ==
    ASSUME NEW a \in Nat, NEW b \in Nat
    PROVE  2^(a + b) = 2^a * 2^b
<1> DEFINE A == 1 .. a
           B == (a + 1) .. (a + b)
           C == 1 .. (a + b)
           P == (SUBSET A) \X (SUBSET B)
           f == [s \in P |-> s[1] \cup s[2]]
<1>1. A \cup B = C /\ A \cap B = {}
  OBVIOUS
<1>2. IsFiniteSet(A) /\ IsFiniteSet(B) /\ Cardinality(A) = a /\ Cardinality(B) = b
  <2>1. 1 \in Int /\ a \in Int /\ (IF 1 > a THEN 0 ELSE a - 1 + 1) = a
    OBVIOUS
  <2>2. /\ a + 1 \in Int /\ a + b \in Int
        /\ (IF a + 1 > a + b THEN 0 ELSE (a + b) - (a + 1) + 1) = b
    OBVIOUS
  <2>3. IsFiniteSet(A) /\ Cardinality(A) = a
    BY <2>1, FS_Interval
  <2>4. IsFiniteSet(B) /\ Cardinality(B) = b
    BY <2>2, FS_Interval
  <2> QED
    BY <2>3, <2>4
<1>3. /\ IsFiniteSet(SUBSET A) /\ Cardinality(SUBSET A) = 2^a
      /\ IsFiniteSet(SUBSET B) /\ Cardinality(SUBSET B) = 2^b
  BY <1>2, FS_SUBSET
<1>4. IsFiniteSet(P) /\ Cardinality(P) = 2^a * 2^b
  <2>1. IsFiniteSet(P) /\ Cardinality(P) = Cardinality(SUBSET A) * Cardinality(SUBSET B)
    <3> HIDE DEF A, B
    <3> QED
      BY <1>3, FS_Product, Zenon
  <2> QED
    BY <1>3, <2>1
<1> HIDE DEF A, B, C
<1>5. f \in Bijection(P, SUBSET C)
  <2>1. f \in [P -> SUBSET C]
    BY <1>1
  <2>2. ASSUME NEW s \in P, NEW t \in P, f[s] = f[t]
        PROVE  s = t
    <3>1. s[1] = f[s] \cap A /\ s[2] = f[s] \cap B /\ t[1] = f[t] \cap A /\ t[2] = f[t] \cap B
      BY <1>1
    <3> QED
      BY <2>2, <3>1
  <2>3. ASSUME NEW t \in SUBSET C PROVE \E s \in P : f[s] = t
    <3>1. << t \cap A, t \cap B >> \in P /\ f[<< t \cap A, t \cap B >>] = t
      BY <1>1
    <3> QED
      BY <3>1
  <2> HIDE DEF f, P
  <2> QED
    BY <2>1, <2>2, <2>3, Fun_IsBij
<1>6. Cardinality(SUBSET C) = 2^a * 2^b
  <2>1. ExistsBijection(P, SUBSET C)
    BY <1>5 DEF ExistsBijection
  <2> QED
    BY <1>4, <2>1, FS_Bijection
<1>7. a + b \in Nat
  OBVIOUS
<1>8. Cardinality(SUBSET C) = 2^(a + b)
  BY <1>7, PowerCounts DEF C
<1> QED
  BY <1>6, <1>8

-----------------------------------------------------------------------------
(* The fields of a key.                                                    *)

\* A number with a digit of weight S, and the digit of that weight.
Placed(high, F, digit, S, low) == (high * F + digit) * S + low
DigitAt(key, S, F) == (key \div S) % F

\* A digit is found again between the lower and the higher ones.
LEMMA DigitFound ==
    ASSUME NEW F \in Nat \ {0}, NEW S \in Nat \ {0}, NEW high \in Nat,
           NEW digit \in 0 .. F - 1, NEW low \in 0 .. S - 1
    PROVE  DigitAt(Placed(high, F, digit, S, low), S, F) = digit
<1> DEFINE y == high * F + digit
<1>1. y \in Nat
  OBVIOUS
<1>2. y % F = digit
  OBVIOUS
<1> HIDE DEF y
<1>3. (y * S + low) \div S = y
  BY <1>1
<1> QED
  BY <1>2, <1>3 DEF y, Placed, DigitAt

\* A digit and what is below it are below the next digit's weight.
LEMMA DigitBelow ==
    ASSUME NEW F \in Nat \ {0}, NEW S \in Nat \ {0},
           NEW digit \in 0 .. F - 1, NEW low \in 0 .. S - 1
    PROVE  digit * S + low \in 0 .. S * F - 1
<1>1. digit * S <= (F - 1) * S
  OBVIOUS
<1>2. (F - 1) * S = S * F - S /\ digit * S \in Nat /\ S * F \in Nat
  OBVIOUS
<1> QED
  BY <1>1, <1>2

\* Five digits with their weights, and that a number has them.
Packed(D, O, A, L, v, l, a, o, d) ==
    v * (((D * O) * A) * L) + l * ((D * O) * A) + a * (D * O) + o * D + d * 1
Unpacks(key, D, O, A, L, V, v, l, a, o, d) ==
    /\ (key \div 1) % D = d
    /\ (key \div D) % O = o
    /\ (key \div (D * O)) % A = a
    /\ (key \div ((D * O) * A)) % L = l
    /\ (key \div (((D * O) * A) * L)) % V = v

\* Five digits are found again.
LEMMA FiveDigits ==
    ASSUME NEW D \in Nat \ {0}, NEW O \in Nat \ {0}, NEW A \in Nat \ {0},
           NEW L \in Nat \ {0}, NEW V \in Nat \ {0},
           NEW d \in 0 .. D - 1, NEW o \in 0 .. O - 1, NEW a \in 0 .. A - 1,
           NEW l \in 0 .. L - 1, NEW v \in 0 .. V - 1
    PROVE  Unpacks(Packed(D, O, A, L, v, l, a, o, d), D, O, A, L, V, v, l, a, o, d)
<1> DEFINE key == Packed(D, O, A, L, v, l, a, o, d)
           DO == D * O
           DOA == DO * A
           DOAL == DOA * L
           do == o * D + d
           doa == a * DO + do
           doal == l * DOA + doa
<1>1. DO \in Nat \ {0} /\ do \in 0 .. DO - 1
  BY DigitBelow
<1> HIDE DEF DO, do
<1>2. DOA \in Nat \ {0} /\ doa \in 0 .. DOA - 1
  BY <1>1, DigitBelow
<1> HIDE DEF DOA, doa
<1>3. DOAL \in Nat \ {0} /\ doal \in 0 .. DOAL - 1
  BY <1>2, DigitBelow
<1> HIDE DEF DOAL, doal
<1>4. key = v * DOAL + l * DOA + a * DO + o * D + d
  BY DEF Packed, DOAL, DOA, DO
<1> HIDE DEF key
<1>5. key = (0 * V + v) * DOAL + doal
  BY <1>1, <1>2, <1>3, <1>4 DEF doal, doa, do
<1>6. key = (v * L + l) * DOA + doa
  <2>1. v * DOAL = (v * L) * DOA
    BY <1>2 DEF DOAL
  <2>2. (v * L + l) * DOA = (v * L) * DOA + l * DOA
    BY <1>2
  <2>3. v * L \in Nat /\ (v * L) * DOA \in Nat /\ l * DOA \in Nat /\ a * DO \in Nat /\ o * D \in Nat
    BY <1>1, <1>2
  <2> QED
    BY <2>1, <2>2, <2>3, <1>4 DEF doa, do
<1>7. key = ((v * L + l) * A + a) * DO + do
  <2> DEFINE h == v * L + l
  <2>1. h \in Nat
    OBVIOUS
  <2> HIDE DEF h
  <2>2. h * DOA = (h * A) * DO
    BY <2>1, <1>1 DEF DOA
  <2>3. (h * A + a) * DO = (h * A) * DO + a * DO
    BY <2>1, <1>1
  <2>4. h * A \in Nat /\ (h * A) * DO \in Nat /\ a * DO \in Nat /\ do \in Nat
    BY <1>1, <2>1
  <2>5. key = h * DOA + (a * DO + do)
    BY <1>6 DEF h, doa
  <2>6. key = (h * A + a) * DO + do
    BY <2>2, <2>3, <2>4, <2>5
  <2> QED
    BY <2>6 DEF h
<1>8. key = (((v * L + l) * A + a) * O + o) * D + d
  <2> DEFINE h == (v * L + l) * A + a
  <2>1. h \in Nat
    OBVIOUS
  <2> HIDE DEF h
  <2>2. h * DO = (h * O) * D
    BY <2>1 DEF DO
  <2>3. (h * O + o) * D = (h * O) * D + o * D
    BY <2>1
  <2>4. h * O \in Nat /\ (h * O) * D \in Nat /\ o * D \in Nat
    BY <2>1
  <2>5. key = h * DO + (o * D + d)
    BY <1>7 DEF h, do
  <2>6. key = (h * O + o) * D + d
    BY <2>2, <2>3, <2>4, <2>5
  <2> QED
    BY <2>6 DEF h
<1>9. DigitAt(key, DOAL, V) = v
  <2>1. key = Placed(0, V, v, DOAL, doal) /\ 0 \in Nat
    BY <1>5 DEF Placed
  <2> QED
    BY <1>3, <2>1, DigitFound
<1>10. DigitAt(key, DOA, L) = l
  <2>1. key = Placed(v, L, l, DOA, doa) /\ v \in Nat
    BY <1>6 DEF Placed
  <2> QED
    BY <1>2, <2>1, DigitFound
<1>11. DigitAt(key, DO, A) = a
  <2>1. key = Placed(v * L + l, A, a, DO, do) /\ v * L + l \in Nat
    BY <1>7 DEF Placed
  <2> QED
    BY <1>1, <2>1, DigitFound
<1>12. DigitAt(key, D, O) = o
  <2>1. key = Placed((v * L + l) * A + a, O, o, D, d) /\ (v * L + l) * A + a \in Nat
    BY <1>8 DEF Placed
  <2> QED
    BY <2>1, DigitFound
<1>13. DigitAt(key, 1, D) = d
  <2> DEFINE h == ((v * L + l) * A + a) * O + o
  <2>1. h \in Nat
    OBVIOUS
  <2> HIDE DEF h
  <2>2. key = (h * D + d) * 1 + 0 /\ 1 \in Nat \ {0} /\ 0 \in 0 .. 1 - 1
    BY <1>8, <2>1 DEF h
  <2>3. key = Placed(h, D, d, 1, 0)
    BY <2>2 DEF Placed
  <2> QED
    BY <2>1, <2>2, <2>3, DigitFound
<1> QED
  BY <1>9, <1>10, <1>11, <1>12, <1>13 DEF key, DO, DOA, DOAL, DigitAt, Unpacks

\* Components that fit their fields.
Fits(c) == \A f \in Components : c[f] \in 0 .. 2^Width[f] - 1

\* get finds what make packed.
LEMMA GetOfMake ==
    ASSUME NEW c, Fits(c), NEW f \in Components
    PROVE  get(make(c), f) = c[f]
<1> DEFINE D == 2^Width.dtype
           O == 2^Width.op
           A == 2^Width.arch
           L == 2^Width.layout
           V == 2^Width.variant
<1>1. /\ Width.dtype \in Nat /\ Width.op \in Nat /\ Width.arch \in Nat /\ Width.layout \in Nat
      /\ Width.variant \in Nat
  BY WidthAssumption DEF Components
<1>2. /\ D \in Nat \ {0} /\ O \in Nat \ {0} /\ A \in Nat \ {0} /\ L \in Nat \ {0}
      /\ V \in Nat \ {0}
  BY <1>1, PowerPositive
<1>3. /\ c.dtype \in 0 .. D - 1 /\ c.op \in 0 .. O - 1 /\ c.arch \in 0 .. A - 1
      /\ c.layout \in 0 .. L - 1 /\ c.variant \in 0 .. V - 1
  BY DEF Fits, Components
<1>4. /\ 2^(Width.dtype + Width.op) = D * O
      /\ 2^(Width.dtype + Width.op + Width.arch) = (D * O) * A
      /\ 2^(Width.dtype + Width.op + Width.arch + Width.layout) = ((D * O) * A) * L
  <2>1. Width.dtype + Width.op \in Nat /\ Width.dtype + Width.op + Width.arch \in Nat
    BY <1>1
  <2>2. 2^(Width.dtype + Width.op) = D * O
    BY <1>1, PowerSum
  <2>3. 2^(Width.dtype + Width.op + Width.arch) = 2^(Width.dtype + Width.op) * A
    BY <1>1, <2>1, PowerSum
  <2>4. 2^(Width.dtype + Width.op + Width.arch + Width.layout)
          = 2^(Width.dtype + Width.op + Width.arch) * L
    BY <1>1, <2>1, PowerSum
  <2> HIDE DEF D, O, A, L
  <2> QED
    BY <2>2, <2>3, <2>4
<1>5. 2^0 = 1
  <2>1. SUBSET {} = {{}}
    OBVIOUS
  <2>2. Cardinality(SUBSET {}) = 2^Cardinality({})
    BY FS_EmptySet, FS_SUBSET
  <2> QED
    BY <2>1, <2>2, FS_EmptySet, FS_Singleton
<1>6. /\ 2^Shift.dtype = 1 /\ 2^Shift.op = D /\ 2^Shift.arch = D * O
      /\ 2^Shift.layout = (D * O) * A /\ 2^Shift.variant = ((D * O) * A) * L
  <2> HIDE DEF D, O, A, L
  <2> QED
    BY <1>4, <1>5 DEF Shift, D
<1>7. /\ Field(c, "dtype") = c.dtype * 1 /\ Field(c, "op") = c.op * D
      /\ Field(c, "arch") = c.arch * (D * O) /\ Field(c, "layout") = c.layout * ((D * O) * A)
      /\ Field(c, "variant") = c.variant * (((D * O) * A) * L)
  <2>1. /\ c.dtype % D = c.dtype /\ c.op % O = c.op /\ c.arch % A = c.arch
        /\ c.layout % L = c.layout /\ c.variant % V = c.variant
    <3> HIDE DEF D, O, A, L, V
    <3> QED
      BY <1>2, <1>3
  <2> QED
    BY <1>6, <2>1, Zenon DEF Field
<1>8. make(c) = Packed(D, O, A, L, c.variant, c.layout, c.arch, c.op, c.dtype)
  BY <1>7, Zenon DEF make, Packed
<1>9. Unpacks(make(c), D, O, A, L, V, c.variant, c.layout, c.arch, c.op, c.dtype)
  <2> HIDE DEF D, O, A, L, V
  <2> DEFINE d == c.dtype
             o == c.op
             a == c.arch
             l == c.layout
             v == c.variant
  <2>1. d \in 0 .. D - 1 /\ o \in 0 .. O - 1 /\ a \in 0 .. A - 1 /\ l \in 0 .. L - 1 /\ v \in 0 .. V - 1
    BY <1>3
  <2> HIDE DEF d, o, a, l, v
  <2>2. Unpacks(Packed(D, O, A, L, v, l, a, o, d), D, O, A, L, V, v, l, a, o, d)
    BY <1>2, <2>1, FiveDigits
  <2> QED
    BY <1>8, <2>2, Zenon DEF d, o, a, l, v
<1>10. /\ get(make(c), "dtype") = c.dtype /\ get(make(c), "op") = c.op
       /\ get(make(c), "arch") = c.arch /\ get(make(c), "layout") = c.layout
       /\ get(make(c), "variant") = c.variant
  BY <1>6, <1>9, Zenon DEF get, Unpacks
<1> QED
  BY <1>10 DEF Components

\* make depends on nothing but the components.
LEMMA MakeSame ==
    ASSUME NEW b, NEW c, \A f \in Components : b[f] = c[f]
    PROVE  make(b) = make(c)
<1>1. /\ b["dtype"] = c["dtype"] /\ b["op"] = c["op"] /\ b["arch"] = c["arch"]
      /\ b["layout"] = c["layout"] /\ b["variant"] = c["variant"]
  BY DEF Components
<1>2. \A f \in Components : Field(b, f) = Field(c, f)
  BY Zenon DEF Field
<1> QED
  BY <1>2 DEF make, Components

-----------------------------------------------------------------------------
(* The fallback chain.                                                     *)

Archs == DOMAIN ParentOf
Count == Cardinality(Archs)

\* f gives the ancestors up to the k-th.
IsLine(f, k) ==
    f = [n \in 0 .. k |-> [a \in Archs |-> IF n = 0 THEN a ELSE ParentOf[f[n - 1][a]]]]

\* There is a line of ancestors of any length.
LEMMA LineExists ==
    ASSUME NEW k \in Nat
    PROVE  \E f : IsLine(f, k)
<1> DEFINE X == {n \in Nat : ~ \E f : IsLine(f, n)}
<1> SUFFICES ASSUME X # {} PROVE FALSE
  OBVIOUS
<1>1. PICK m \in X : \A n \in X : m <= n
  BY LeastNat
<1>2. m # 0
  <2> DEFINE f == [n \in 0 .. 0 |-> [a \in Archs |-> a]]
  <2>1. IsLine(f, 0)
    BY DEF IsLine
  <2> QED
    BY <2>1
<1>3. m - 1 \in Nat /\ m - 1 \notin X
  BY <1>1, <1>2
<1>4. PICK f : IsLine(f, m - 1)
  BY <1>3
<1> DEFINE g == [n \in 0 .. m |->
                   IF n < m THEN f[n] ELSE [a \in Archs |-> ParentOf[f[m - 1][a]]]]
<1>5. ASSUME NEW n \in 0 .. m
      PROVE  g[n] = [a \in Archs |-> IF n = 0 THEN a ELSE ParentOf[g[n - 1][a]]]
  <2>1. CASE n = m
    <3>1. m - 1 \in 0 .. m /\ m - 1 < m /\ g[m - 1] = f[m - 1]
      BY <1>2
    <3> QED
      BY <1>2, <2>1, <3>1
  <2>2. CASE n # m
    <3>1. n \in 0 .. m - 1 /\ n < m /\ g[n] = f[n]
      BY <2>2
    <3>2. f[n] = [a \in Archs |-> IF n = 0 THEN a ELSE ParentOf[f[n - 1][a]]]
      BY <1>4, <3>1 DEF IsLine
    <3>3. CASE n = 0
      BY <3>1, <3>2, <3>3
    <3>4. CASE n # 0
      <4>1. n - 1 \in 0 .. m /\ n - 1 < m /\ g[n - 1] = f[n - 1]
        BY <3>1, <3>4
      <4> QED
        BY <3>1, <3>2, <4>1
    <3> QED
      BY <3>3, <3>4
  <2> QED
    BY <2>1, <2>2
<1>6. IsLine(g, m)
  <2> HIDE DEF g
  <2>1. g = [n \in 0 .. m |-> g[n]]
    BY DEF g
  <2> QED
    BY <1>5, <2>1 DEF IsLine
<1> QED
  BY <1>6

\* Ancestor is such a line.
LEMMA AncestorLine == IsLine(Ancestor, Count)
<1>1. Count \in Nat
  BY AncestryEnds, FS_CardinalityType DEF Count, Archs
<1>2. Ancestor = CHOOSE f : IsLine(f, Count)
  BY DEF Ancestor, IsLine, Generations, Count, Archs
<1> QED
  BY <1>1, <1>2, LineExists

\* The ancestors of an architecture, one by one.
LEMMA AncestorSteps ==
    ASSUME NEW a \in Archs
    PROVE  /\ Count \in Nat /\ Generations = 0 .. Count
           /\ Ancestor[0][a] = a
           /\ \A n \in 1 .. Count : Ancestor[n][a] = ParentOf[Ancestor[n - 1][a]]
           /\ \A n \in 0 .. Count : Ancestor[n][a] \in Archs
<1>1. Count \in Nat /\ Generations = 0 .. Count
  BY AncestryEnds, FS_CardinalityType DEF Count, Archs, Generations
<1>2. \A n \in 0 .. Count : Ancestor[n][a] = IF n = 0 THEN a ELSE ParentOf[Ancestor[n - 1][a]]
  <2>1. ASSUME NEW n \in 0 .. Count
        PROVE  Ancestor[n] = [b \in Archs |-> IF n = 0 THEN b ELSE ParentOf[Ancestor[n - 1][b]]]
    <3> DEFINE F(m) == [b \in Archs |-> IF m = 0 THEN b ELSE ParentOf[Ancestor[m - 1][b]]]
    <3>1. Ancestor = [m \in 0 .. Count |-> F(m)]
      BY AncestorLine DEF IsLine
    <3> HIDE DEF F
    <3>2. Ancestor[n] = F(n)
      BY <3>1, Zenon
    <3> QED
      BY <3>2 DEF F
  <2> TAKE n \in 0 .. Count
  <2>2. Ancestor[n] = [b \in Archs |-> IF n = 0 THEN b ELSE ParentOf[Ancestor[n - 1][b]]]
    BY <2>1
  <2> QED
    BY <2>2, Zenon
<1>3. /\ Ancestor[0][a] = a
      /\ \A n \in 1 .. Count : Ancestor[n][a] = ParentOf[Ancestor[n - 1][a]]
  <2>1. 0 \in 0 .. Count /\ \A n \in 1 .. Count : n \in 0 .. Count /\ n # 0
    BY <1>1
  <2>2. Ancestor[0][a] = a
    BY <1>2, <2>1, Zenon
  <2>3. ASSUME NEW n \in 1 .. Count PROVE Ancestor[n][a] = ParentOf[Ancestor[n - 1][a]]
    BY <1>2, <2>1, Zenon
  <2> QED
    BY <2>2, <2>3, Zenon
<1>4. \A n \in 0 .. Count : Ancestor[n][a] \in Archs
  <2> DEFINE X == {n \in 0 .. Count : Ancestor[n][a] \notin Archs}
  <2> SUFFICES ASSUME X # {} PROVE FALSE
    OBVIOUS
  <2>1. X \in SUBSET Nat
    BY <1>1
  <2>2. PICK m \in X : \A n \in X : m <= n
    BY <2>1, LeastNat
  <2>3. m # 0 /\ m \in 1 .. Count /\ m - 1 \in 0 .. Count /\ m - 1 \notin X
    BY <1>1, <1>3, <2>2
  <2>4. Ancestor[m - 1][a] \in Archs
    BY <2>3
  <2> QED
    BY <1>3, <2>2, <2>3, <2>4, AncestryEnds DEF Archs
<1> QED
  BY <1>1, <1>3, <1>4

\* Some ancestor has no parent.
LEMMA FallbackEnds ==
    ASSUME NEW a \in Archs
    PROVE  {n \in Generations : ParentOf[Ancestor[n][a]] = Ancestor[n][a]} # {}
<1> SUFFICES ASSUME \A n \in Generations : ParentOf[Ancestor[n][a]] # Ancestor[n][a]
             PROVE  FALSE
  OBVIOUS
<1>1. PICK distance \in [Archs -> 0 .. Count] :
        \A b \in Archs : ParentOf[b] # b => distance[ParentOf[b]] < distance[b]
  BY AncestryEnds DEF Archs, Count
<1>2. Count \in Nat /\ Generations = 0 .. Count
  BY AncestorSteps
<1> DEFINE d == [n \in 0 .. Count |-> distance[Ancestor[n][a]]]
           X == {n \in 0 .. Count : ~(d[n] <= Count - n)}
<1>3. \A n \in 0 .. Count : d[n] \in Int /\ d[n] >= 0
  BY <1>1, <1>2, AncestorSteps
<1>4. \A n \in 1 .. Count : d[n] < d[n - 1]
  <2> TAKE n \in 1 .. Count
  <2>1. n \in 0 .. Count /\ n - 1 \in 0 .. Count /\ n - 1 \in Generations
    BY <1>2
  <2>2. Ancestor[n][a] = ParentOf[Ancestor[n - 1][a]] /\ Ancestor[n - 1][a] \in Archs
    BY <2>1, AncestorSteps
  <2> QED
    BY <1>1, <2>1, <2>2
<1>5. d[0] <= Count
  BY <1>1, <1>2, AncestorSteps
<1> HIDE DEF d
<1>6. X = {}
  <2> SUFFICES ASSUME X # {} PROVE FALSE
    OBVIOUS
  <2>1. X \in SUBSET Nat
    BY <1>2
  <2>2. PICK m \in X : \A n \in X : m <= n
    BY <2>1, LeastNat
  <2>3. m # 0
    BY <1>2, <1>5
  <2>4. m \in 1 .. Count /\ m - 1 \in 0 .. Count /\ m - 1 \notin X
    <3>1. m \in 0 .. Count
      BY <2>2
    <3> HIDE DEF X
    <3>2. m \in 1 .. Count /\ m - 1 \in 0 .. Count /\ ~ (m <= m - 1)
      BY <1>2, <2>3, <3>1
    <3>3. m - 1 \notin X
      BY <2>2, <3>2, Zenon
    <3> QED
      BY <3>2, <3>3
  <2>5. d[m - 1] <= Count - (m - 1) /\ d[m] < d[m - 1]
    BY <1>4, <2>4
  <2> QED
    BY <1>2, <1>3, <2>2, <2>4, <2>5
<1>7. d[Count] = 0
  BY <1>2, <1>3, <1>6
<1>8. Count \in Generations /\ Ancestor[Count][a] \in Archs /\ d[Count] = distance[Ancestor[Count][a]]
  BY <1>2, AncestorSteps DEF d
<1>9. ParentOf[Ancestor[Count][a]] \in Archs
  BY <1>8, AncestryEnds DEF Archs
<1>10. distance[ParentOf[Ancestor[Count][a]]] < 0
  BY <1>1, <1>7, <1>8
<1> QED
  BY <1>1, <1>2, <1>9, <1>10

\* The chain is a sequence of architectures.
LEMMA FallbackChain ==
    ASSUME NEW a \in Archs
    PROVE  \E last \in Nat : Fallback(a) \in [1 .. last + 1 -> Archs]
<1> DEFINE X == {n \in Generations : ParentOf[Ancestor[n][a]] = Ancestor[n][a]}
<1>1. X # {} /\ X \in SUBSET Nat /\ X \subseteq 0 .. Count /\ Count \in Nat
  BY FallbackEnds, AncestorSteps
<1> HIDE DEF X
<1>2. \E m \in X : \A n \in X : m <= n
  BY <1>1, LeastNat
<1>3. Min(X) \in X
  BY <1>2 DEF Min
<1> DEFINE last == Min(X)
<1> HIDE DEF last
<1>4. last \in Nat /\ last <= Count
  <2>1. last \in X
    BY <1>3 DEF last
  <2> QED
    BY <1>1, <2>1
<1>5. Fallback(a) = [n \in 1 .. last + 1 |-> Ancestor[n - 1][a]]
  BY DEF Fallback, X, last
<1>6. \A n \in 1 .. last + 1 : Ancestor[n - 1][a] \in Archs
  <2> TAKE n \in 1 .. last + 1
  <2>1. n - 1 \in 0 .. Count
    BY <1>1, <1>4
  <2> QED
    BY <2>1, AncestorSteps
<1> HIDE DEF Fallback
<1>7. Fallback(a) \in [1 .. last + 1 -> Archs]
  BY <1>5, <1>6
<1> QED
  BY <1>4, <1>7

-----------------------------------------------------------------------------
(* Resolution.                                                             *)

\* A key is a number.
LEMMA MakeNat ==
    ASSUME NEW c, Fits(c)
    PROVE  make(c) \in Nat
<1>1. \A f \in Components : 2^Width[f] \in Nat \ {0} /\ c[f] \in Int
  BY WidthAssumption, PowerPositive DEF Fits
<1>2. \A f \in Components : c[f] % 2^Width[f] \in Nat
  <2> TAKE f \in Components
  <2> DEFINE w == 2^Width[f]
  <2>1. w \in Nat \ {0} /\ c[f] \in Int
    BY <1>1
  <2> HIDE DEF w
  <2>2. c[f] % w \in Nat
    BY <2>1
  <2> QED
    BY <2>2 DEF w
<1>3. \A f \in Components : Shift[f] \in Nat
  BY WidthAssumption DEF Shift, Components
<1>4. \A f \in Components : 2^Shift[f] \in Nat
  BY <1>3, PowerPositive
<1>5. \A f \in Components : Field(c, f) \in Nat
  <2> TAKE f \in Components
  <2> DEFINE w == c[f] % 2^Width[f]
             s == 2^Shift[f]
  <2>1. w \in Nat /\ s \in Nat
    BY <1>2, <1>4
  <2> HIDE DEF w, s
  <2>2. w * s \in Nat
    BY <2>1
  <2> QED
    BY <2>2 DEF w, s, Field
<1>6. /\ Field(c, "variant") \in Nat /\ Field(c, "layout") \in Nat /\ Field(c, "arch") \in Nat
      /\ Field(c, "op") \in Nat /\ Field(c, "dtype") \in Nat
  BY <1>5 DEF Components
<1> QED
  BY <1>6 DEF make

\* The components asked for on one architecture.
Wanted(r, a) == [op |-> r.op, dtype |-> r.dtype, arch |-> a, layout |-> 0, variant |-> 0]

\* They fit.
LEMMA WantedFits ==
    ASSUME NEW r \in CallRequests, NEW a \in Archs
    PROVE  Fits(Wanted(r, a))
<1>1. 0 \in 0 .. 2^Width["layout"] - 1 /\ 0 \in 0 .. 2^Width["variant"] - 1
  <2>1. 2^Width["layout"] \in Nat \ {0} /\ 2^Width["variant"] \in Nat \ {0}
    BY WidthAssumption, PowerPositive DEF Components
  <2> QED
    BY <2>1
<1>2. /\ r["op"] \in 0 .. 2^Width["op"] - 1 /\ r["dtype"] \in 0 .. 2^Width["dtype"] - 1
      /\ a \in 0 .. 2^Width["arch"] - 1
  BY RequestsFit DEF Archs
<1> QED
  BY <1>1, <1>2 DEF Fits, Wanted, Components

\* The rules of a request ask for them along the chain.
LEMMA RuleKeys ==
    ASSUME NEW r \in CallRequests
    PROVE  /\ DOMAIN buildContext(r) = DOMAIN Fallback(r.arch)
           /\ \A n \in DOMAIN Fallback(r.arch) :
                makeKey(r, buildContext(r)[n]) = make(Wanted(r, Fallback(r.arch)[n]))
<1> DEFINE chain == Fallback(r.arch)
<1> HIDE DEF chain
<1>1. buildContext(r) = [n \in DOMAIN chain |-> [arch |-> chain[n], layout |-> 0, variant |-> 0]]
  BY DEF buildContext, chain
<1>2. DOMAIN buildContext(r) = DOMAIN chain
  BY <1>1
<1>3. ASSUME NEW n \in DOMAIN chain
      PROVE  makeKey(r, buildContext(r)[n]) = make(Wanted(r, chain[n]))
  <2>1. buildContext(r)[n] = [arch |-> chain[n], layout |-> 0, variant |-> 0]
    BY <1>1
  <2> DEFINE rule == buildContext(r)[n]
  <2>2. rule.arch = chain[n] /\ rule.layout = 0 /\ rule.variant = 0
    BY <2>1
  <2> HIDE DEF rule
  <2> DEFINE c == [op |-> r.op, dtype |-> r.dtype, arch |-> rule.arch, layout |-> rule.layout,
                   variant |-> rule.variant]
  <2>3. c = Wanted(r, chain[n])
    BY <2>2 DEF Wanted
  <2>4. makeKey(r, rule) = make(c)
    BY DEF makeKey
  <2> QED
    BY <2>3, <2>4 DEF rule
<1> QED
  BY <1>2, <1>3 DEF chain

\* The position of a registered kernel in the chain, as MostSpecific has it.
Position(table, r, key) ==
    {n \in DOMAIN Fallback(r.arch) :
        [f \in DOMAIN Width |-> table[key][f]] =
          [f \in DOMAIN Width |->
             CASE f \in {"op", "dtype"} -> r[f]
               [] f = "arch" -> Fallback(r.arch)[n] [] OTHER -> 0]}

\* A registered kernel is at a position if it has the key of that position.
LEMMA PositionByKey ==
    ASSUME TableKeyed, NEW r \in CallRequests, NEW key \in DOMAIN kernelTable,
           NEW n \in DOMAIN Fallback(r.arch)
    PROVE  n \in Position(kernelTable, r, key) <=> key = make(Wanted(r, Fallback(r.arch)[n]))
<1> DEFINE a == Fallback(r.arch)[n]
           k == kernelTable[key]
           w == Wanted(r, a)
<1>1. a \in Archs
  <2>1. r.arch \in Archs
    BY RequestsFit DEF Archs
  <2> QED
    BY <2>1, FallbackChain
<1>2. Fits(w) /\ Fits(k) /\ key = make(k)
  BY <1>1, WantedFits, KernelsFit DEF TableKeyed, Fits
<1> HIDE DEF a
<1>3. \A f \in Components :
        w[f] = CASE f \in {"op", "dtype"} -> r[f] [] f = "arch" -> a [] OTHER -> 0
  <2>1. /\ w["op"] = r["op"] /\ w["dtype"] = r["dtype"] /\ w["arch"] = a /\ w["layout"] = 0
        /\ w["variant"] = 0
    BY DEF Wanted
  <2> HIDE DEF w
  <2> QED
    BY <2>1 DEF Components
<1>4. n \in Position(kernelTable, r, key) <=> \A f \in Components : k[f] = w[f]
  <2> HIDE DEF k, w
  <2>1. n \in Position(kernelTable, r, key) <=>
          [f \in Components |-> k[f]] =
            [f \in Components |-> CASE f \in {"op", "dtype"} -> r[f] [] f = "arch" -> a [] OTHER -> 0]
    BY WidthAssumption DEF Position, a, k
  <2>2. [f \in Components |-> CASE f \in {"op", "dtype"} -> r[f] [] f = "arch" -> a [] OTHER -> 0]
          = [f \in Components |-> w[f]]
    BY <1>3
  <2>3. [f \in Components |-> k[f]] = [f \in Components |-> w[f]] <=> \A f \in Components : k[f] = w[f]
    BY Zenon
  <2> QED
    BY <2>1, <2>2, <2>3, Zenon
<1> HIDE DEF k, w
<1>5. (\A f \in Components : k[f] = w[f]) => key = make(w)
  BY <1>2, MakeSame
<1>6. key = make(w) => \A f \in Components : k[f] = w[f]
  BY <1>2, GetOfMake
<1> QED
  BY <1>4, <1>5, <1>6 DEF w, a

\* What MostSpecific says of a request and the key it was resolved to.
ResolvedWell(table, r, found) ==
    /\ found = Nothing <=> \A key \in DOMAIN table : Position(table, r, key) = {}
    /\ found # Nothing =>
         \E n \in Position(table, r, found) :
            \A key \in DOMAIN table : \A i \in Position(table, r, key) : n <= i

\* resolve finds the nearest kernel.
LEMMA ResolveNearest ==
    ASSUME TableKeyed, NEW r \in CallRequests
    PROVE  /\ ResolvedWell(kernelTable, r, resolve(r))
           /\ resolve(r) # Nothing => resolve(r) \in DOMAIN kernelTable
<1> DEFINE chain == Fallback(r.arch)
           keyAt(n) == make(Wanted(r, chain[n]))
           found == {n \in DOMAIN chain : keyAt(n) \in DOMAIN kernelTable}
<1>1. r.arch \in Archs
  BY RequestsFit DEF Archs
<1>2. DOMAIN chain \in SUBSET Nat
  <2>1. PICK last \in Nat : chain \in [1 .. last + 1 -> Archs]
    BY <1>1, FallbackChain
  <2>2. DOMAIN chain = 1 .. last + 1
    BY <2>1
  <2> QED
    BY <2>1, <2>2
<1>3. \A n \in DOMAIN chain : chain[n] \in Archs
  BY <1>1, FallbackChain
<1>4. \A n \in DOMAIN chain : keyAt(n) \in Nat
  BY <1>3, WantedFits, MakeNat
<1>5. resolve(r) = IF found = {} THEN Nothing ELSE keyAt(Min(found))
  <2>1. found = {n \in DOMAIN buildContext(r) : makeKey(r, buildContext(r)[n]) \in DOMAIN kernelTable}
    BY RuleKeys
  <2>2. CASE found = {}
    BY <2>1, <2>2 DEF resolve
  <2>3. CASE found # {}
    <3> HIDE DEF found
    <3>1. \E m \in found : \A n \in found : m <= n
      <4>1. found \in SUBSET Nat
        BY <1>2 DEF found
      <4> QED
        BY <2>3, <4>1, LeastNat
    <3>2. Min(found) \in found
      BY <3>1 DEF Min
    <3>3. Min(found) \in DOMAIN chain
      BY <3>2 DEF found
    <3>4. resolve(r) = makeKey(r, buildContext(r)[Min(found)])
      BY <2>1, <2>3, Zenon DEF resolve
    <3>5. makeKey(r, buildContext(r)[Min(found)]) = keyAt(Min(found))
      BY <3>3, RuleKeys
    <3> QED
      BY <2>3, <3>4, <3>5
  <2> QED
    BY <2>2, <2>3
<1>6. \A key \in DOMAIN kernelTable : \A n \in DOMAIN chain :
        n \in Position(kernelTable, r, key) <=> key = keyAt(n)
  BY PositionByKey
<1>7. \A key \in DOMAIN kernelTable : Position(kernelTable, r, key) \subseteq DOMAIN chain
  BY DEF Position
<1> HIDE DEF chain, keyAt
<1>8. CASE found = {}
  <2>1. \A key \in DOMAIN kernelTable : Position(kernelTable, r, key) = {}
    BY <1>6, <1>7, <1>8
  <2> QED
    BY <1>5, <1>8, <2>1 DEF ResolvedWell
<1>9. CASE found # {}
  <2>1. found \in SUBSET Nat
    BY <1>2
  <2>2. \E m \in found : \A n \in found : m <= n
    BY <1>9, <2>1, LeastNat
  <2> DEFINE m == Min(found)
             key == keyAt(m)
  <2>3. m \in found /\ \A n \in found : m <= n
    <3> HIDE DEF found
    <3> QED
      BY <2>2 DEF Min
  <2> HIDE DEF m
  <2>4. m \in DOMAIN chain /\ key \in DOMAIN kernelTable /\ resolve(r) = key /\ key \in Nat
    BY <1>4, <1>5, <1>9, <2>3 DEF m
  <2>5. key # Nothing
    BY <2>4, NothingAssumption
  <2> HIDE DEF key
  <2>6. m \in Position(kernelTable, r, key)
    BY <1>6, <2>4 DEF key
  <2>7. ASSUME NEW other \in DOMAIN kernelTable, NEW i \in Position(kernelTable, r, other)
        PROVE  m <= i
    <3>1. i \in DOMAIN chain /\ other = keyAt(i)
      BY <1>6, <1>7
    <3>2. i \in found
      BY <3>1
    <3> QED
      BY <2>3, <3>2
  <2>8. ~ \A other \in DOMAIN kernelTable : Position(kernelTable, r, other) = {}
    BY <2>4, <2>6
  <2> QED
    BY <2>4, <2>5, <2>6, <2>7, <2>8 DEF ResolvedWell
<1> QED
  BY <1>8, <1>9

-----------------------------------------------------------------------------
(* The lists of arguments.                                                 *)

\* Where a key is.
Hits(list, key) == {i \in DOMAIN list : list[i].key = key}

\* First finds the first binding of a key.
LEMMA FirstHit ==
    ASSUME NEW list, NEW n \in Nat, DOMAIN list = 1 .. n, NEW key
    PROVE  /\ Hits(list, key) = {} => First(list, key) = Nothing
           /\ Hits(list, key) # {} =>
                \E m \in Hits(list, key) : /\ \A i \in Hits(list, key) : m <= i
                                           /\ First(list, key) = list[m].value
<1> DEFINE H == Hits(list, key)
<1>1. H \in SUBSET Nat
  BY DEF Hits
<1>2. First(list, key) = IF H = {} THEN Nothing ELSE list[Min(H)].value
  BY DEF First, Hits
<1> HIDE DEF H
<1>3. CASE H # {}
  <2>1. \E m \in H : \A i \in H : m <= i
    BY <1>1, <1>3, LeastNat
  <2>2. Min(H) \in H /\ \A i \in H : Min(H) <= i
    BY <2>1 DEF Min
  <2> QED
    BY <1>2, <1>3, <2>2 DEF H
<1> QED
  BY <1>2, <1>3 DEF H

\* A binding added at the end is found if the key was not there; any other
\* key is found as before.
LEMMA FirstAppended ==
    ASSUME NEW T, NEW list \in Seq(T), NEW b \in T, NEW key,
           \A i \in DOMAIN list : list[i].value # Nothing
    PROVE  First(Append(list, b), key) =
             IF b.key = key /\ First(list, key) = Nothing THEN b.value ELSE First(list, key)
<1> DEFINE n == Len(list)
           after == Append(list, b)
<1>1. n \in Nat /\ DOMAIN list = 1 .. n
  BY LenProperties
<1>2. DOMAIN after = 1 .. n + 1 /\ after[n + 1] = b /\ \A i \in 1 .. n : after[i] = list[i]
  BY AppendProperties, LenProperties
<1> HIDE DEF n, after
<1>3. Hits(list, key) \subseteq 1 .. n /\ Hits(after, key) \cap (1 .. n) = Hits(list, key)
  BY <1>1, <1>2 DEF Hits
<1>4. n + 1 \in Hits(after, key) <=> b.key = key
  BY <1>1, <1>2 DEF Hits
<1>5. Hits(after, key) \subseteq 1 .. n + 1
  BY <1>2 DEF Hits
<1>6. CASE Hits(list, key) # {}
  <2>1. PICK m \in Hits(list, key) : /\ \A i \in Hits(list, key) : m <= i
                                     /\ First(list, key) = list[m].value
    BY <1>1, <1>6, FirstHit
  <2>2. PICK k \in Hits(after, key) : /\ \A i \in Hits(after, key) : k <= i
                                      /\ First(after, key) = after[k].value
    <3>1. Hits(after, key) # {} /\ n + 1 \in Nat
      BY <1>1, <1>3, <1>6
    <3> QED
      BY <1>2, <3>1, FirstHit
  <2>3. m \in 1 .. n /\ m \in Hits(after, key) /\ k <= m /\ k \in 1 .. n + 1
    BY <1>3, <1>5, <2>1, <2>2
  <2>4. k \in 1 .. n
    BY <1>1, <2>3
  <2>5. k \in Hits(list, key)
    BY <1>3, <2>2, <2>4
  <2>6. m <= k
    BY <2>1, <2>5
  <2>7. m = k
    BY <1>1, <2>3, <2>4, <2>6
  <2>8. First(after, key) = First(list, key) /\ First(list, key) # Nothing
    BY <1>1, <1>2, <2>1, <2>2, <2>3, <2>7
  <2> QED
    BY <2>8 DEF after
<1>7. CASE Hits(list, key) = {}
  <2>1. First(list, key) = Nothing
    BY <1>1, <1>7, FirstHit
  <2>2. CASE b.key = key
    <3>1. Hits(after, key) # {} /\ n + 1 \in Nat
      BY <1>1, <1>4, <2>2
    <3>2. PICK k \in Hits(after, key) : First(after, key) = after[k].value
      BY <1>2, <3>1, FirstHit
    <3>3. k = n + 1
      BY <1>1, <1>3, <1>5, <1>7, <3>2
    <3>4. First(after, key) = b.value
      BY <1>2, <3>2, <3>3
    <3> QED
      BY <2>1, <2>2, <3>4 DEF after
  <2>3. CASE b.key # key
    <3>1. Hits(after, key) = {} /\ n + 1 \in Nat
      BY <1>1, <1>3, <1>4, <1>5, <1>7, <2>3
    <3>2. First(after, key) = Nothing
      BY <1>2, <3>1, FirstHit
    <3> QED
      BY <2>1, <2>3, <3>2 DEF after
  <2> QED
    BY <2>2, <2>3
<1> QED
  BY <1>6, <1>7

\* Storages and parameters have values.
LEMMA BoundValues ==
    /\ \A b \in StorageBindings : b.value # Nothing
    /\ \A b \in ParamBindings : b.value # Nothing
BY NothingAssumption DEF StorageBindings, ParamBindings

\* The parameters of a layout are parameters, of their declared types.
LEMMA LayoutParams ==
    ASSUME NEW t \in CallTensors, NEW o \in Operands, NEW id \in LayoutIds
    PROVE  /\ ScopedParam(t, o, id) \in ParamBindings
           /\ ScopedParam(t, o, id).key = Scoped(id, o)
           /\ ScopedParam(t, o, id).value = [type |-> TypeOf(id), of |-> t]
<1>1. TypeOf(id) \in Types
  BY DEF TypeOf, LayoutIds, Types
<1>2. Scoped(id, o) \in ParamFields
  BY DEF ParamFields
<1> HIDE DEF TypeOf, Scoped
<1> QED
  BY <1>1, <1>2 DEF ScopedParam, ParamBindings

\* The list of parameters after the layout of t was bound to an operand.
WithLayout(list, t, operand) ==
    list \o << ScopedParam(t, operand, "Shape"), ScopedParam(t, operand, "Strides"),
               ScopedParam(t, operand, "Offset") >>

\* The layout is found for its operand if none was there before, and the layouts
\* of the other operands are found as before.
LEMMA LayoutBound ==
    ASSUME NEW list \in Seq(ParamBindings), NEW t \in CallTensors, NEW operand \in Operands
    PROVE  /\ WithLayout(list, t, operand) \in Seq(ParamBindings)
           /\ \A o \in Operands, id \in LayoutIds :
                First(WithLayout(list, t, operand), Scoped(id, o)) =
                  IF o = operand /\ First(list, Scoped(id, o)) = Nothing
                  THEN [type |-> TypeOf(id), of |-> t] ELSE First(list, Scoped(id, o))
<1> DEFINE a == ScopedParam(t, operand, "Shape")
           b == ScopedParam(t, operand, "Strides")
           c == ScopedParam(t, operand, "Offset")
           l1 == Append(list, a)
           l2 == Append(l1, b)
           l3 == Append(l2, c)
<1>1. "Shape" \in LayoutIds /\ "Strides" \in LayoutIds /\ "Offset" \in LayoutIds
  BY DEF LayoutIds
<1>2. a \in ParamBindings /\ b \in ParamBindings /\ c \in ParamBindings
  BY <1>1, LayoutParams
<1>3. /\ a.key = Scoped("Shape", operand) /\ a.value = [type |-> TypeOf("Shape"), of |-> t]
      /\ b.key = Scoped("Strides", operand) /\ b.value = [type |-> TypeOf("Strides"), of |-> t]
      /\ c.key = Scoped("Offset", operand) /\ c.value = [type |-> TypeOf("Offset"), of |-> t]
  BY <1>1, LayoutParams
<1> HIDE DEF a, b, c
<1>4. l1 \in Seq(ParamBindings) /\ l2 \in Seq(ParamBindings) /\ l3 \in Seq(ParamBindings)
  BY <1>2, AppendProperties
<1>5. WithLayout(list, t, operand) = l3
  <2>1. WithLayout(list, t, operand) = list \o << a, b, c >>
    BY DEF WithLayout, a, b, c
  <2> QED
    BY <1>2, <2>1
<1> HIDE DEF l1, l2, l3
<1>6. ASSUME NEW o \in Operands, NEW id \in LayoutIds
      PROVE  First(l3, Scoped(id, o)) =
                  IF o = operand /\ First(list, Scoped(id, o)) = Nothing
                  THEN [type |-> TypeOf(id), of |-> t] ELSE First(list, Scoped(id, o))
  <2> DEFINE key == Scoped(id, o)
             v == [type |-> TypeOf(id), of |-> t]
  <2>1. v # Nothing
    <3>1. ScopedParam(t, operand, id).value = v
      BY LayoutParams
    <3> QED
      BY <3>1, LayoutParams, BoundValues
  <2>2. \A l \in Seq(ParamBindings) : \A i \in DOMAIN l : l[i].value # Nothing
    BY BoundValues, ElementOfSeq, LenProperties
  <2>3. /\ a.key = key => o = operand /\ a.value = v
        /\ b.key = key => o = operand /\ b.value = v
        /\ c.key = key => o = operand /\ c.value = v
        /\ o = operand => a.key = key \/ b.key = key \/ c.key = key
    BY <1>3 DEF Scoped, LayoutIds
  <2> HIDE DEF v, key
  <2>4. First(l1, key) = IF a.key = key /\ First(list, key) = Nothing THEN a.value ELSE First(list, key)
    BY <1>2, <2>2, FirstAppended DEF l1
  <2>5. First(l2, key) = IF b.key = key /\ First(l1, key) = Nothing THEN b.value ELSE First(l1, key)
    BY <1>2, <1>4, <2>2, FirstAppended DEF l2
  <2>6. First(l3, key) = IF c.key = key /\ First(l2, key) = Nothing THEN c.value ELSE First(l2, key)
    BY <1>2, <1>4, <2>2, FirstAppended DEF l3
  <2>7. First(l3, key) = IF o = operand /\ First(list, key) = Nothing THEN v ELSE First(list, key)
    BY <2>1, <2>3, <2>4, <2>5, <2>6
  <2> QED
    BY <2>7 DEF v, key
<1> QED
  BY <1>4, <1>5, <1>6

-----------------------------------------------------------------------------
(* The invariant.                                                          *)

\* With empty lists nothing is found.
LEMMA NothingFound ==
    ASSUME NEW key
    PROVE  First(<< >>, key) = Nothing
<1>1. 0 \in Nat /\ DOMAIN << >> = 1 .. 0 /\ Hits(<< >>, key) = {}
  BY DEF Hits
<1> QED
  BY <1>1, FirstHit

\* It holds at first.
LEMMA CallInitInv == CallInit => CallInv
<1> SUFFICES ASSUME CallInit PROVE CallInv
  OBVIOUS
<1>1. CallTypes
  <2>1. << >> \in Seq(StorageBindings) /\ << >> \in Seq(ParamBindings)
    OBVIOUS
  <2>2. args = [context |-> "none", storages |-> << >>, params |-> << >>]
    BY DEF CallInit, EmptyArgs
  <2>3. firstBound \in [Operands -> CallTensors \cup {Nothing}] /\ halfCleared \in BOOLEAN
    BY DEF CallInit
  <2> QED
    BY <2>1, <2>2, <2>3 DEF CallTypes
<1>2. TableKeyed
  BY DEF CallInit, TableKeyed
<1>3. StoragesFollow
  BY NothingFound DEF CallInit, StoragesFollow, findStorage, EmptyArgs
<1>4. LayoutsFollow
  <2>1. args.params = << >> /\ \A o \in Operands : firstBound[o] = Nothing
    BY DEF CallInit, EmptyArgs
  <2> QED
    BY <2>1, NothingFound DEF LayoutsFollow, findParam, LayoutFound
<1>5. MostSpecific /\ OperandsTogether
  BY DEF CallInit, MostSpecific, OperandsTogether
<1> QED
  BY <1>1, <1>2, <1>3, <1>4, <1>5 DEF CallInv

\* Between two calls of a kernel there is no last call to speak of.
LEMMA NothingSeen ==
    ASSUME seen' = Nothing
    PROVE  MostSpecific' /\ OperandsTogether'
BY DEF MostSpecific, OperandsTogether

\* Registration keeps the table keyed.
LEMMA RegisterInv ==
    ASSUME CallInv, NEW k \in KernelDefs, registerKernelDef(k)
    PROVE  CallInv'
<1>1. TableKeyed'
  <2>1. kernelTable' = [key \in DOMAIN kernelTable \cup {make(k)} |->
                          IF key \in DOMAIN kernelTable THEN kernelTable[key] ELSE k]
    BY DEF registerKernelDef
  <2>2. ASSUME NEW key \in DOMAIN kernelTable'
        PROVE  kernelTable'[key] \in KernelDefs /\ key = make(kernelTable'[key])
    <3>1. CASE key \in DOMAIN kernelTable
      <4>1. kernelTable'[key] = kernelTable[key]
        BY <2>1, <3>1
      <4> QED
        BY <3>1, <4>1 DEF CallInv, TableKeyed
    <3>2. CASE key \notin DOMAIN kernelTable
      <4>1. key = make(k) /\ kernelTable'[key] = k
        BY <2>1, <3>2
      <4> QED
        BY <4>1
    <3> QED
      BY <3>1, <3>2
  <2> QED
    BY <2>2 DEF TableKeyed
<1>2. MostSpecific' /\ OperandsTogether'
  BY NothingSeen DEF registerKernelDef
<1>3. CallTypes' /\ StoragesFollow' /\ LayoutsFollow'
  BY DEF CallInv, registerKernelDef, CallTypes, StoragesFollow, LayoutsFollow
<1> QED
  BY <1>1, <1>2, <1>3 DEF CallInv

\* Binding a tensor to an operand.
LEMMA BindInv ==
    ASSUME CallInv, NEW t \in CallTensors, NEW operand \in Operands, bindAllArgs(t, operand)
    PROVE  CallInv'
<1> DEFINE b == [key |-> operand, value |-> t]
<1>1. /\ args.context \in {"none", "cpu", "mps"}
      /\ args.storages \in Seq(StorageBindings) /\ args.params \in Seq(ParamBindings)
      /\ firstBound \in [Operands -> CallTensors \cup {Nothing}] /\ halfCleared \in BOOLEAN
  BY DEF CallInv, CallTypes
<1>2. /\ args' = [context |-> args.context, storages |-> Append(args.storages, b),
                  params |-> WithLayout(args.params, t, operand)]
      /\ firstBound' = [firstBound EXCEPT ![operand] = IF @ = Nothing THEN t ELSE @]
      /\ halfCleared' = halfCleared /\ kernelTable' = kernelTable /\ seen' = Nothing
  <2>1. args = [context |-> args.context, storages |-> args.storages, params |-> args.params]
    BY DEF CallInv, CallTypes
  <2> HIDE DEF ScopedParam
  <2> QED
    BY <2>1 DEF bindAllArgs, AddStorage, WithLayout
<1>3. b \in StorageBindings
  BY DEF StorageBindings
<1>4. /\ args'.context = args.context /\ args'.storages = Append(args.storages, b)
      /\ args'.params = WithLayout(args.params, t, operand)
  BY <1>2
<1>5. CallTypes'
  <2>1. Append(args.storages, b) \in Seq(StorageBindings)
    BY <1>1, <1>3, AppendProperties
  <2>2. WithLayout(args.params, t, operand) \in Seq(ParamBindings)
    BY <1>1, LayoutBound
  <2>3. firstBound' \in [Operands -> CallTensors \cup {Nothing}]
    BY <1>1, <1>2
  <2> QED
    BY <1>1, <1>2, <2>1, <2>2, <2>3 DEF CallTypes
<1>6. ASSUME NEW o \in Operands
      PROVE  firstBound'[o] = IF o = operand /\ firstBound[o] = Nothing THEN t ELSE firstBound[o]
  BY <1>1, <1>2
<1>7. StoragesFollow'
  <2> SUFFICES ASSUME NEW o \in Operands
               PROVE  First(args'.storages, o) = firstBound'[o]
    BY DEF StoragesFollow, findStorage
  <2>1. First(args.storages, o) = firstBound[o]
    BY DEF CallInv, StoragesFollow, findStorage
  <2>2. \A i \in DOMAIN args.storages : args.storages[i].value # Nothing
    BY <1>1, BoundValues, ElementOfSeq, LenProperties
  <2>3. First(Append(args.storages, b), o) =
          IF b.key = o /\ First(args.storages, o) = Nothing THEN b.value ELSE First(args.storages, o)
    <3> HIDE DEF b
    <3> QED
      BY <1>1, <1>3, <2>2, FirstAppended
  <2> QED
    BY <1>4, <1>6, <2>1, <2>3
<1>8. LayoutsFollow'
  <2> SUFFICES ASSUME ~halfCleared, NEW o \in Operands, NEW id \in LayoutIds
               PROVE  First(args'.params, Scoped(id, o)) = LayoutFound(id, firstBound'[o])
    BY <1>2 DEF LayoutsFollow, findParam
  <2>1. First(args.params, Scoped(id, o)) = LayoutFound(id, firstBound[o])
    BY DEF CallInv, LayoutsFollow, findParam
  <2>2. First(args'.params, Scoped(id, o)) =
          IF o = operand /\ First(args.params, Scoped(id, o)) = Nothing
          THEN [type |-> TypeOf(id), of |-> t] ELSE First(args.params, Scoped(id, o))
    BY <1>1, <1>4, LayoutBound
  <2>3. \A u \in CallTensors : LayoutFound(id, u) = [type |-> TypeOf(id), of |-> u]
    BY NothingAssumption DEF LayoutFound
  <2>4. \A u \in CallTensors : [type |-> TypeOf(id), of |-> u] # Nothing
    <3> TAKE u \in CallTensors
    <3>1. ScopedParam(u, o, id).value = [type |-> TypeOf(id), of |-> u]
      BY LayoutParams
    <3> QED
      BY <3>1, LayoutParams, BoundValues
  <2>5. CASE firstBound[o] = Nothing
    <3>1. First(args.params, Scoped(id, o)) = Nothing
      BY <2>1, <2>5 DEF LayoutFound
    <3>2. CASE o = operand
      <4>1. firstBound'[o] = t
        BY <1>6, <2>5, <3>2
      <4> QED
        BY <2>2, <2>3, <3>1, <3>2, <4>1
    <3>3. CASE o # operand
      <4>1. firstBound'[o] = firstBound[o]
        BY <1>6, <3>3
      <4> QED
        BY <2>1, <2>2, <3>3, <4>1
    <3> QED
      BY <3>2, <3>3
  <2>6. CASE firstBound[o] # Nothing
    <3>1. firstBound[o] \in CallTensors /\ firstBound'[o] = firstBound[o]
      BY <1>1, <1>6, <2>6
    <3>2. First(args.params, Scoped(id, o)) # Nothing
      BY <2>1, <2>3, <2>4, <3>1
    <3> QED
      BY <2>1, <2>2, <3>1, <3>2
  <2> QED
    BY <2>5, <2>6
<1>9. TableKeyed' /\ MostSpecific' /\ OperandsTogether'
  BY <1>2, NothingSeen DEF CallInv, TableKeyed
<1> QED
  BY <1>5, <1>7, <1>8, <1>9 DEF CallInv

\* Adding a parameter of the call.
LEMMA ParamInv ==
    ASSUME CallInv, NEW type \in {"float", "double"}, addParam(type)
    PROVE  CallInv'
<1> DEFINE b == [key |-> Global("Alpha"), value |-> [type |-> type, of |-> "user"]]
<1>1. /\ args.context \in {"none", "cpu", "mps"}
      /\ args.storages \in Seq(StorageBindings) /\ args.params \in Seq(ParamBindings)
  BY DEF CallInv, CallTypes
<1>2. b \in ParamBindings
  <2>1. Global("Alpha") \in ParamFields
    BY DEF ParamFields
  <2> HIDE DEF Global
  <2> QED
    BY <2>1 DEF ParamBindings, Types
<1>3. /\ args' = [context |-> args.context, storages |-> args.storages, params |-> Append(args.params, b)]
      /\ UNCHANGED << kernelTable, firstBound, halfCleared >> /\ seen' = Nothing
  <2>1. args = [context |-> args.context, storages |-> args.storages, params |-> args.params]
    BY DEF CallInv, CallTypes
  <2> QED
    BY <2>1 DEF addParam
<1>4. CallTypes'
  <2>1. Append(args.params, b) \in Seq(ParamBindings)
    BY <1>1, <1>2, AppendProperties
  <2> HIDE DEF b
  <2> QED
    BY <1>1, <1>3, <2>1 DEF CallTypes, CallInv
<1>5. StoragesFollow'
  BY <1>3 DEF CallInv, StoragesFollow, findStorage
<1>6. LayoutsFollow'
  <2> SUFFICES ASSUME ~halfCleared, NEW o \in Operands, NEW id \in LayoutIds
               PROVE  First(args'.params, Scoped(id, o)) = LayoutFound(id, firstBound[o])
    BY <1>3 DEF LayoutsFollow, findParam
  <2>1. First(args.params, Scoped(id, o)) = LayoutFound(id, firstBound[o])
    BY DEF CallInv, LayoutsFollow, findParam
  <2>2. \A i \in DOMAIN args.params : args.params[i].value # Nothing
    BY <1>1, BoundValues, ElementOfSeq, LenProperties
  <2>3. b.key # Scoped(id, o)
    BY DEF Global, Scoped, LayoutIds
  <2> HIDE DEF b
  <2>4. First(Append(args.params, b), Scoped(id, o)) = First(args.params, Scoped(id, o))
    BY <1>1, <1>2, <2>2, <2>3, FirstAppended
  <2> QED
    BY <1>3, <2>1, <2>4
<1>7. TableKeyed' /\ MostSpecific' /\ OperandsTogether'
  BY <1>3, NothingSeen DEF CallInv, TableKeyed
<1> QED
  BY <1>4, <1>5, <1>6, <1>7 DEF CallInv

\* Clearing one list, and a new object.
LEMMA ClearInv ==
    ASSUME CallInv, clearStorages \/ clearParams \/ \E c \in {"cpu", "mps"} : newArgs(c)
    PROVE  CallInv'
<1>1. /\ args.context \in {"none", "cpu", "mps"}
      /\ args.storages \in Seq(StorageBindings) /\ args.params \in Seq(ParamBindings)
      /\ firstBound \in [Operands -> CallTensors \cup {Nothing}]
      /\ args = [context |-> args.context, storages |-> args.storages, params |-> args.params]
  BY DEF CallInv, CallTypes
<1>2. TableKeyed' /\ MostSpecific' /\ OperandsTogether'
  <2>1. seen' = Nothing /\ kernelTable' = kernelTable
    BY DEF clearStorages, clearParams, newArgs
  <2> QED
    BY <2>1, NothingSeen DEF CallInv, TableKeyed
<1>3. CASE clearStorages
  <2>1. /\ args' = [context |-> args.context, storages |-> << >>, params |-> args.params]
        /\ firstBound' = [o \in Operands |-> Nothing] /\ halfCleared' = (args.params # << >>)
    BY <1>1, <1>3 DEF clearStorages
  <2>2. CallTypes'
    BY <1>1, <2>1 DEF CallTypes
  <2>3. StoragesFollow'
    BY <2>1, NothingFound DEF StoragesFollow, findStorage
  <2>4. LayoutsFollow'
    <3> SUFFICES ASSUME args.params = << >>, NEW o \in Operands, NEW id \in LayoutIds
                 PROVE  First(args'.params, Scoped(id, o)) = LayoutFound(id, firstBound'[o])
      BY <2>1 DEF LayoutsFollow, findParam
    <3> QED
      BY <2>1, NothingFound DEF LayoutFound
  <2> QED
    BY <1>2, <2>2, <2>3, <2>4 DEF CallInv
<1>4. CASE clearParams
  <2>1. /\ args' = [context |-> args.context, storages |-> args.storages, params |-> << >>]
        /\ firstBound' = firstBound /\ halfCleared' = (args.storages # << >>)
    BY <1>1, <1>4 DEF clearParams
  <2>2. CallTypes'
    BY <1>1, <2>1 DEF CallTypes
  <2>3. StoragesFollow'
    BY <2>1 DEF CallInv, StoragesFollow, findStorage
  <2>4. LayoutsFollow'
    <3> SUFFICES ASSUME args.storages = << >>, NEW o \in Operands, NEW id \in LayoutIds
                 PROVE  First(args'.params, Scoped(id, o)) = LayoutFound(id, firstBound[o])
      BY <2>1 DEF LayoutsFollow, findParam
    <3>1. firstBound[o] = Nothing
      BY NothingFound DEF CallInv, StoragesFollow, findStorage
    <3> QED
      BY <2>1, <3>1, NothingFound DEF LayoutFound
  <2> QED
    BY <1>2, <2>2, <2>3, <2>4 DEF CallInv
<1>5. ASSUME NEW c \in {"cpu", "mps"}, newArgs(c) PROVE CallInv'
  <2>1. /\ args' = [context |-> c, storages |-> << >>, params |-> << >>]
        /\ firstBound' = [o \in Operands |-> Nothing] /\ halfCleared' = FALSE
    BY <1>5 DEF newArgs, EmptyArgs
  <2>2. CallTypes'
    <3>1. << >> \in Seq(StorageBindings) /\ << >> \in Seq(ParamBindings)
      OBVIOUS
    <3>2. firstBound' \in [Operands -> CallTensors \cup {Nothing}] /\ halfCleared' \in BOOLEAN
      BY <2>1
    <3> QED
      BY <2>1, <3>1, <3>2 DEF CallTypes
  <2>3. StoragesFollow'
    BY <2>1, NothingFound DEF StoragesFollow, findStorage
  <2>4. LayoutsFollow'
    <3> SUFFICES ASSUME NEW o \in Operands, NEW id \in LayoutIds
                 PROVE  First(args'.params, Scoped(id, o)) = LayoutFound(id, firstBound'[o])
      BY <2>1 DEF LayoutsFollow, findParam
    <3> QED
      BY <2>1, NothingFound DEF LayoutFound
  <2> QED
    BY <1>2, <2>2, <2>3, <2>4 DEF CallInv
<1> QED
  BY <1>3, <1>4, <1>5

\* Calling a kernel.
LEMMA RunInv ==
    ASSUME CallInv, NEW r \in CallRequests, NEW ready \in BOOLEAN, run(r, ready)
    PROVE  CallInv'
<1> DEFINE key == resolve(r)
           outcome == IF key = Nothing THEN "unresolved"
                      ELSE IF RunThrows(kernelTable[key], ready) \/ ExtractThrows(args)
                      THEN "throws" ELSE "runs"
<1>1. /\ seen' = [request |-> r, key |-> key, outcome |-> outcome,
                  storages |-> extractStorages(args), params |-> extractFields(args)]
      /\ UNCHANGED << kernelTable, args, firstBound, halfCleared >>
  BY Zenon DEF run
<1>2. CallTypes' /\ TableKeyed' /\ StoragesFollow' /\ LayoutsFollow'
  BY <1>1 DEF CallInv, CallTypes, TableKeyed, StoragesFollow, LayoutsFollow
<1> HIDE DEF key, outcome
<1>3. /\ seen'.request = r /\ seen'.key = key /\ seen'.outcome = outcome
      /\ seen'.storages = extractStorages(args) /\ seen'.params = extractFields(args)
  BY <1>1
<1>4. MostSpecific'
  <2>1. ResolvedWell(kernelTable, r, key)
    BY ResolveNearest DEF CallInv, key
  <2> DEFINE table == kernelTable'
             req == seen'.request
             found == seen'.key
  <2>2. ResolvedWell(table, req, found)
    BY <1>1, <1>3, <2>1
  <2> QED
    BY <2>2 DEF MostSpecific, ResolvedWell, Position
<1>5. OperandsTogether'
  <2> SUFFICES ASSUME outcome = "runs", NEW o \in Operands
               PROVE  /\ extractStorages(args)[o] = firstBound[o]
                      /\ o \in RequiredOperands => extractStorages(args)[o] # Nothing
                      /\ ~halfCleared /\ firstBound[o] # Nothing =>
                           \A id \in LayoutIds :
                             extractFields(args)[Scoped(id, o)] = [type |-> TypeOf(id), of |-> firstBound[o]]
    BY <1>1, <1>3 DEF OperandsTogether
  <2>1. extractStorages(args)[o] = firstBound[o]
    BY DEF CallInv, StoragesFollow, extractStorages
  <2>2. ~ ExtractThrows(args)
    BY DEF outcome
  <2>3. o \in RequiredOperands => extractStorages(args)[o] # Nothing
    BY <2>2 DEF ExtractThrows
  <2>4. ASSUME ~halfCleared, firstBound[o] # Nothing, NEW id \in LayoutIds
        PROVE  extractFields(args)[Scoped(id, o)] = [type |-> TypeOf(id), of |-> firstBound[o]]
    <3> DEFINE v == [type |-> TypeOf(id), of |-> firstBound[o]]
    <3>1. firstBound[o] \in CallTensors
      BY <2>4 DEF CallInv, CallTypes
    <3>2. v # Nothing
      <4>1. ScopedParam(firstBound[o], o, id).value = v
        BY <3>1, LayoutParams
      <4> QED
        BY <3>1, <4>1, LayoutParams, BoundValues
    <3>3. findParam(args, Scoped(id, o)) = v
      BY <2>4 DEF CallInv, LayoutsFollow, LayoutFound
    <3>4. Scoped(id, o) \in ParamFields /\ Scoped(id, o)[1] = id
      BY DEF ParamFields, Scoped
    <3>5. extractFields(args)[Scoped(id, o)] = tryGet(findParam(args, Scoped(id, o)), Scoped(id, o)[1])
      <4> HIDE DEF Scoped
      <4> QED
        BY <3>4 DEF extractFields
    <3>6. v.type = TypeOf(id)
      OBVIOUS
    <3> HIDE DEF v
    <3> QED
      BY <3>2, <3>3, <3>4, <3>5, <3>6, Zenon DEF tryGet, v
  <2> QED
    BY <2>1, <2>3, <2>4
<1> QED
  BY <1>2, <1>4, <1>5 DEF CallInv

\* Every step keeps the invariant.
LEMMA CallNextInv == CallInv /\ [CallNext]_callVars => CallInv'
<1> SUFFICES ASSUME CallInv, [CallNext]_callVars PROVE CallInv'
  OBVIOUS
<1>1. ASSUME NEW k \in KernelDefs, registerKernelDef(k) PROVE CallInv'
  BY <1>1, RegisterInv
<1>2. ASSUME NEW t \in CallTensors, NEW o \in Operands, bindAllArgs(t, o) PROVE CallInv'
  BY <1>2, BindInv
<1>3. ASSUME NEW type \in {"float", "double"}, addParam(type) PROVE CallInv'
  BY <1>3, ParamInv
<1>4. CASE clearStorages \/ clearParams \/ \E c \in {"cpu", "mps"} : newArgs(c)
  BY <1>4, ClearInv
<1>5. ASSUME NEW r \in CallRequests, NEW ready \in BOOLEAN, run(r, ready) PROVE CallInv'
  BY <1>5, RunInv
<1>6. CASE UNCHANGED callVars
  BY <1>6 DEF callVars, CallInv, CallTypes, TableKeyed, StoragesFollow, LayoutsFollow, MostSpecific,
              OperandsTogether
<1> QED
  BY <1>1, <1>2, <1>3, <1>4, <1>5, <1>6 DEF CallNext

\* The invariant holds throughout: the table is keyed by make, and both lists of
\* KernelArgs find first what was bound first.
THEOREM CallInvariant == CallSpec => []CallInv
  BY CallInitInv, CallNextInv, PTL DEF CallSpec

\* Registered keys give their components back.
LEMMA KeyedUnpacks == CallInv => KeysUnpack
<1> SUFFICES ASSUME CallInv, NEW key \in DOMAIN kernelTable, NEW f \in DOMAIN Width
             PROVE  get(key, f) = kernelTable[key][f]
  BY DEF KeysUnpack
<1>1. f \in Components
  BY WidthAssumption
<1>2. kernelTable[key] \in KernelDefs /\ key = make(kernelTable[key])
  BY DEF CallInv, TableKeyed
<1>3. Fits(kernelTable[key])
  BY <1>2, KernelsFit DEF Fits
<1> QED
  BY <1>1, <1>2, <1>3, GetOfMake, Zenon

\* For every set of kernels, requests, architectures, operands and tensors, and
\* whatever is registered, bound, cleared and called in whatever order: packed keys
\* never collide, resolve finds the most specific kernel that is registered, and a
\* kernel that runs gets the storage and the layout of one tensor per operand.
THEOREM CallsAlwaysConsistent == CallSpec => []CallsConsistent
<1>1. CallInv => CallsConsistent
  BY KeyedUnpacks DEF CallsConsistent, CallInv
<1> QED
  BY <1>1, CallInvariant, PTL


-----------------------------------------------------------------------------
(* The containers *)

Cells == VectorValues \cup {Raw}
VectorRecords ==
    [where : {"inline", "heap", "none"}, blocks : Seq(Seq(Cells)), blockSize : Nat \ {0},
     cap : Nat, size : Nat, net : Int]

\* The blocks of a vector have one size, and capacity_ counts their cells.
IsShaped(v) ==
    /\ v \in VectorRecords
    /\ \A b \in 1 .. Len(v.blocks) : Len(v.blocks[b]) = v.blockSize
    /\ v.cap = Len(v.blocks) * v.blockSize
    /\ v.size <= v.cap

\* A vector holds the elements xs and nothing else.
HoldsExactly(v, xs) ==
    /\ IsShaped(v)
    /\ xs \in Seq(Cells) /\ Len(xs) = v.size
    /\ \A i \in 0 .. v.cap - 1 : Read(v, i) = IF i < v.size THEN xs[i + 1] ELSE Raw

\* Where a class keeps its elements, and what it owns.
IsStored(kind, v) ==
    /\ v.net = IF OnHeap(v) THEN Len(v.blocks) ELSE 0
    /\ kind = "small" =>
        v.where \in {"inline", "heap"} /\ Len(v.blocks) = 1 /\ (OnHeap(v) \/ v.cap = InlineCapacity)
    /\ kind = "heap" =>
        v.where \in {"none", "heap"} /\ Len(v.blocks) = IF OnHeap(v) THEN 1 ELSE 0
    /\ kind = "block" => OnHeap(v)

Holds(kind, v, xs) == HoldsExactly(v, xs) /\ IsStored(kind, v)

VectorInv ==
    /\ vectorKind \in {"small", "heap", "block"}
    /\ vec \in [Vectors -> VectorRecords] /\ contents \in [Vectors -> Seq(Cells)]
    /\ \A a \in Vectors : Holds(vectorKind, vec[a], contents[a])

-----------------------------------------------------------------------------

\* A function on 1 .. n is a sequence of n elements.
LEMMA ListOf ==
    ASSUME NEW n \in Nat, NEW S, NEW f \in [1 .. n -> S]
    PROVE  f \in Seq(S) /\ Len(f) = n /\ DOMAIN f = 1 .. n
<1>1. f \in Seq(S)
  BY SeqDef
<1> QED
  BY <1>1, LenProperties

\* Element i is in one cell, and is the element of that cell.
LEMMA DivFacts ==
    ASSUME NEW s \in Nat \ {0}, NEW n \in Nat, NEW i \in 0 .. n * s - 1
    PROVE  /\ (i \div s) + 1 \in 1 .. n /\ (i % s) + 1 \in 1 .. s
           /\ (((i \div s) + 1) - 1) * s + ((i % s) + 1) = i + 1
<1> DEFINE q == i \div s
           r == i % s
<1>1. n * s \in Int /\ i \in Nat /\ i < n * s
  OBVIOUS
<1>2. q \in Nat /\ r \in 0 .. s - 1 /\ i = s * q + r
  BY <1>1
<1> HIDE DEF q, r
<1>3. q < n
  <2> SUFFICES ASSUME n <= q PROVE FALSE
    BY <1>2
  <2>1. n * s <= q * s
    BY <1>2
  <2>2. q * s = s * q /\ q * s \in Int
    BY <1>2
  <2> QED
    BY <1>1, <1>2, <2>1, <2>2
<1>4. ((q + 1) - 1) * s = s * q /\ s * q \in Int
  BY <1>2
<1>5. q + 1 \in 1 .. n /\ r + 1 \in 1 .. s /\ ((q + 1) - 1) * s + (r + 1) = i + 1
  BY <1>1, <1>2, <1>3, <1>4
<1> QED
  BY <1>5 DEF q, r

\* A cell within the capacity exists.
LEMMA CellExists ==
    ASSUME NEW v, IsShaped(v), NEW i \in 0 .. v.cap - 1
    PROVE  LET p == ptrAt(v, i)
           IN  /\ p[1] \in DOMAIN v.blocks /\ p[2] \in DOMAIN v.blocks[p[1]]
               /\ p[1] \in Int /\ p[2] \in Int
               /\ (p[1] - 1) * v.blockSize + p[2] = i + 1
               /\ v.blocks[p[1]][p[2]] \in Cells
<1> DEFINE s == v.blockSize
           n == Len(v.blocks)
           b == (i \div s) + 1
           c == (i % s) + 1
<1>1. s \in Nat \ {0} /\ v.blocks \in Seq(Seq(Cells))
  BY DEF IsShaped, VectorRecords
<1>2. n \in Nat /\ DOMAIN v.blocks = 1 .. n /\ i \in 0 .. n * s - 1
  BY <1>1 DEF IsShaped
<1>3. b \in 1 .. n /\ c \in 1 .. s /\ (b - 1) * s + c = i + 1
  <2> HIDE DEF n, s
  <2> QED
    BY <1>1, <1>2, DivFacts
<1>4. ptrAt(v, i) = <<b, c>>
  BY DEF ptrAt
<1> HIDE DEF b, c
<1>5. v.blocks[b] \in Seq(Cells) /\ Len(v.blocks[b]) = s
  BY <1>1, <1>2, <1>3 DEF IsShaped
<1>6. c \in DOMAIN v.blocks[b] /\ v.blocks[b][c] \in Cells
  BY <1>3, <1>5
<1>7. ptrAt(v, i)[1] = b /\ ptrAt(v, i)[2] = c
  BY <1>4
<1> QED
  BY <1>2, <1>3, <1>6, <1>7

\* The vectors u and v have the same storage.
SameStorage(u, v) ==
    /\ u.where = v.where /\ u.blockSize = v.blockSize /\ u.cap = v.cap /\ u.net = v.net
    /\ Len(u.blocks) = Len(v.blocks)

\* What Construct writes, and what it leaves alone.
LEMMA ConstructEffect ==
    ASSUME NEW v, IsShaped(v), NEW from \in Int, NEW xs \in Seq(Cells)
    PROVE  LET w == Construct(v, from, xs)
           IN  /\ IsShaped(w) /\ SameStorage(w, v) /\ w.size = v.size
               /\ \A i \in 0 .. v.cap - 1 :
                    Read(w, i) = IF i - from + 1 \in 1 .. Len(xs) THEN xs[i - from + 1] ELSE Read(v, i)
<1> DEFINE s == v.blockSize
           at(b, c) == (b - 1) * s + c - from
           cell(b, c) == IF at(b, c) \in DOMAIN xs THEN xs[at(b, c)] ELSE v.blocks[b][c]
           blocks == [b \in DOMAIN v.blocks |-> [c \in DOMAIN v.blocks[b] |-> cell(b, c)]]
           w == Construct(v, from, xs)
<1>1. w = [v EXCEPT !.blocks = blocks]
  BY DEF Construct
<1>2. v \in VectorRecords /\ s \in Nat \ {0} /\ v.blocks \in Seq(Seq(Cells))
  BY DEF IsShaped, VectorRecords
<1>3. ASSUME NEW b \in DOMAIN v.blocks
      PROVE  /\ v.blocks[b] \in Seq(Cells) /\ DOMAIN v.blocks[b] = 1 .. s
             /\ [c \in DOMAIN v.blocks[b] |-> cell(b, c)] \in Seq(Cells)
             /\ Len([c \in DOMAIN v.blocks[b] |-> cell(b, c)]) = s
  <2>1. v.blocks[b] \in Seq(Cells)
    BY <1>2
  <2>4. Len(v.blocks[b]) = s
    <3>1. DOMAIN v.blocks = 1 .. Len(v.blocks)
      BY <1>2
    <3> QED
      BY <1>2, <3>1 DEF IsShaped
  <2>2. DOMAIN v.blocks[b] = 1 .. s /\ s \in Nat
    BY <1>2, <2>1, <2>4
  <2>3. ASSUME NEW c \in 1 .. s PROVE cell(b, c) \in Cells
    <3>1. v.blocks[b][c] \in Cells
      BY <2>1, <2>2
    <3>2. \A k \in DOMAIN xs : xs[k] \in Cells
      OBVIOUS
    <3> HIDE DEF at
    <3> QED
      BY <3>1, <3>2
  <2> HIDE DEF cell
  <2>5. [c \in 1 .. s |-> cell(b, c)] \in [1 .. s -> Cells]
    BY <2>3
  <2>6. [c \in 1 .. s |-> cell(b, c)] \in Seq(Cells) /\ Len([c \in 1 .. s |-> cell(b, c)]) = s
    BY <2>2, <2>5, ListOf
  <2> QED
    BY <2>1, <2>2, <2>6
<1>4. /\ blocks \in Seq(Seq(Cells)) /\ Len(blocks) = Len(v.blocks) /\ DOMAIN blocks = DOMAIN v.blocks
      /\ \A b \in DOMAIN blocks : Len(blocks[b]) = s
  <2>1. DOMAIN v.blocks = 1 .. Len(v.blocks) /\ Len(v.blocks) \in Nat
    BY <1>2
  <2>2. \A b \in DOMAIN v.blocks : blocks[b] \in Seq(Cells) /\ Len(blocks[b]) = s
    <3> HIDE DEF cell
    <3> QED
      BY <1>3
  <2>3. DOMAIN blocks = DOMAIN v.blocks
    OBVIOUS
  <2>4. blocks \in [1 .. Len(v.blocks) -> Seq(Cells)]
    <3> HIDE DEF cell
    <3> QED
      BY <2>1, <1>3
  <2> HIDE DEF blocks
  <2> QED
    BY <2>1, <2>2, <2>3, <2>4, ListOf
<1> HIDE DEF blocks
<1>5. /\ w \in VectorRecords /\ w.blocks = blocks /\ w.size = v.size
      /\ w.where = v.where /\ w.blockSize = v.blockSize /\ w.cap = v.cap /\ w.net = v.net
  BY <1>1, <1>2, <1>4 DEF VectorRecords
<1>6. IsShaped(w) /\ SameStorage(w, v)
  <2>1. DOMAIN blocks = 1 .. Len(w.blocks)
    BY <1>4, <1>5
  <2> QED
    BY <1>4, <1>5, <2>1 DEF IsShaped, SameStorage
<1>7. ASSUME NEW i \in 0 .. v.cap - 1
      PROVE  Read(w, i) = IF i - from + 1 \in 1 .. Len(xs) THEN xs[i - from + 1] ELSE Read(v, i)
  <2> DEFINE p == ptrAt(v, i)
             b == p[1]
             c == p[2]
  <2>1. /\ b \in DOMAIN v.blocks /\ c \in DOMAIN v.blocks[b] /\ b \in Int /\ c \in Int
        /\ (b - 1) * v.blockSize + c = i + 1
    BY CellExists
  <2>2. Read(w, i) = blocks[b][c] /\ Read(v, i) = v.blocks[b][c]
    BY <1>5 DEF Read, ptrAt
  <2> HIDE DEF p
  <2>3. blocks[b][c] = cell(b, c)
    <3> HIDE DEF cell
    <3> QED
      BY <2>1 DEF blocks
  <2>4. v.cap \in Nat
    BY <1>2 DEF VectorRecords
  <2>5. at(b, c) = i - from + 1
    <3> DEFINE m == (b - 1) * s
    <3>1. m \in Int /\ c \in Int /\ m + c = i + 1
      BY <1>2, <2>1
    <3> HIDE DEF m
    <3>2. i \in Int
      BY <2>4
    <3>3. \A x, y, z, t \in Int : x + y = z + 1 => x + y - t = z - t + 1
      OBVIOUS
    <3> HIDE DEF c
    <3>4. m + c - from = i - from + 1
      BY <3>1, <3>2, <3>3
    <3> QED
      BY <3>4 DEF m, c
  <2>6. DOMAIN xs = 1 .. Len(xs)
    OBVIOUS
  <2> HIDE DEF at
  <2> QED
    BY <2>2, <2>3, <2>5, <2>6
<1> HIDE DEF w
<1> QED
  BY <1>5, <1>6, <1>7 DEF w

-----------------------------------------------------------------------------
(* Construction and destruction *)

LEMMA RawList == ASSUME NEW n \in Nat PROVE RawCells(n) \in Seq(Cells) /\ Len(RawCells(n)) = n
<1>1. [k \in 1 .. n |-> Raw] \in [1 .. n -> Cells]
  BY DEF Cells
<1> QED
  BY <1>1, ListOf DEF RawCells

LEMMA CopiesList ==
    ASSUME NEW n \in Nat, NEW x \in VectorValues
    PROVE  Copies(n, x) \in Seq(Cells) /\ Len(Copies(n, x)) = n
<1>1. [k \in 1 .. n |-> x] \in [1 .. n -> Cells]
  BY DEF Cells
<1> QED
  BY <1>1, ListOf DEF Copies

\* The fields of a vector.
LEMMA Fields ==
    ASSUME NEW v, IsShaped(v)
    PROVE  /\ v.blockSize \in Nat \ {0} /\ v.cap \in Nat /\ v.size \in Nat /\ v.net \in Int
           /\ v.blocks \in Seq(Seq(Cells)) /\ Len(v.blocks) \in Nat
           /\ v.size <= v.cap
BY DEF IsShaped, VectorRecords

\* A vector is counted anew.
LEMMA Counted ==
    ASSUME NEW v, IsShaped(v), NEW m \in Nat, m <= v.cap
    PROVE  LET w == [v EXCEPT !.size = m]
           IN  /\ IsShaped(w) /\ SameStorage(w, v) /\ w.size = m
               /\ \A i \in Int : Read(w, i) = Read(v, i)
<1> DEFINE w == [v EXCEPT !.size = m]
<1>1. v \in VectorRecords
  BY DEF IsShaped
<1>2. /\ w \in VectorRecords /\ w.blocks = v.blocks /\ w.size = m
      /\ w.where = v.where /\ w.blockSize = v.blockSize /\ w.cap = v.cap /\ w.net = v.net
  BY <1>1 DEF VectorRecords
<1> HIDE DEF w
<1>3. IsShaped(w) /\ SameStorage(w, v)
  BY <1>2 DEF IsShaped, SameStorage
<1>4. \A i \in Int : Read(w, i) = Read(v, i)
  BY <1>2 DEF Read, ptrAt
<1> QED
  BY <1>2, <1>3, <1>4 DEF w

LEMMA StoredSame ==
    ASSUME NEW kind, NEW u, NEW v, SameStorage(u, v), IsStored(kind, v)
    PROVE  IsStored(kind, u)
BY DEF SameStorage, IsStored, OnHeap

LEMMA SameStorageTrans ==
    ASSUME NEW u, NEW v, NEW w, SameStorage(u, v), SameStorage(v, w)
    PROVE  SameStorage(u, w)
BY DEF SameStorage

\* Fewer elements.
LEMMA TruncatedHolds ==
    ASSUME NEW kind, NEW v, NEW xs, Holds(kind, v, xs), NEW n \in 0 .. Len(xs)
    PROVE  LET w == Truncated(v, n)
           IN  Holds(kind, w, SubSeq(xs, 1, n)) /\ SameStorage(w, v) /\ w.size = n
<1> DEFINE c == RawCells(v.size - n)
           u == Construct(v, n, c)
           w == [u EXCEPT !.size = n]
           ys == SubSeq(xs, 1, n)
<1>1. IsShaped(v) /\ xs \in Seq(Cells) /\ Len(xs) = v.size /\ IsStored(kind, v)
  BY DEF Holds, HoldsExactly
<1>2. /\ v.cap \in Nat /\ v.size \in Nat /\ v.size <= v.cap /\ n \in Nat /\ n <= v.size
      /\ v.size - n \in Nat
  BY <1>1, Fields
<1>3. c \in Seq(Cells) /\ Len(c) = v.size - n
  BY <1>2, RawList
<1>4. ASSUME NEW k \in 1 .. Len(c) PROVE c[k] = Raw
  BY <1>2, <1>3, <1>4 DEF RawCells
<1> HIDE DEF c
<1>5. /\ IsShaped(u) /\ SameStorage(u, v) /\ u.size = v.size
      /\ \A i \in 0 .. v.cap - 1 :
           Read(u, i) = IF i - n + 1 \in 1 .. Len(c) THEN c[i - n + 1] ELSE Read(v, i)
  BY <1>1, <1>2, <1>3, ConstructEffect
<1> HIDE DEF u
<1>6. u.cap = v.cap
  BY <1>5 DEF SameStorage
<1>7. /\ IsShaped(w) /\ SameStorage(w, u) /\ w.size = n
      /\ \A i \in Int : Read(w, i) = Read(u, i)
  BY <1>2, <1>5, <1>6, Counted
<1>8. w = Truncated(v, n)
  BY DEF w, u, c, Truncated, destroyRange
<1> HIDE DEF w
<1>9. w.cap = v.cap
  BY <1>6, <1>7 DEF SameStorage
<1>10. ys \in Seq(Cells) /\ Len(ys) = n /\ \A k \in 1 .. n : ys[k] = xs[k]
  BY <1>1, <1>2
<1> HIDE DEF ys
<1>11. ASSUME NEW i \in 0 .. v.cap - 1
       PROVE  Read(w, i) = IF i < n THEN ys[i + 1] ELSE Raw
  <2>1. i \in Nat /\ i < v.cap
    BY <1>2
  <2>2. Read(v, i) = IF i < v.size THEN xs[i + 1] ELSE Raw
    BY DEF Holds, HoldsExactly
  <2>3. Read(w, i) = IF i - n + 1 \in 1 .. v.size - n THEN Raw ELSE Read(v, i)
    BY <1>3, <1>4, <1>5, <1>7, <2>1
  <2>4. CASE i < n
    <3>1. i - n + 1 \notin 1 .. v.size - n /\ i < v.size /\ i + 1 \in 1 .. n
      BY <1>2, <2>1, <2>4
    <3> QED
      BY <1>10, <2>2, <2>3, <2>4, <3>1
  <2>5. CASE ~ (i < n)
    <3>1. i - n + 1 \in 1 .. v.size - n \/ ~ (i < v.size)
      BY <1>2, <2>1, <2>5
    <3> QED
      BY <2>2, <2>3, <2>5, <3>1
  <2> QED
    BY <2>4, <2>5
<1>12. HoldsExactly(w, ys)
  BY <1>7, <1>9, <1>10, <1>11 DEF HoldsExactly
<1>13. SameStorage(w, v)
  BY <1>5, <1>7, SameStorageTrans
<1> QED
  BY <1>1, <1>7, <1>8, <1>12, <1>13, StoredSame DEF Holds, ys

\* More elements, where there is room.
LEMMA AppendedHolds ==
    ASSUME NEW kind, NEW v, NEW xs, Holds(kind, v, xs), NEW ys \in Seq(Cells),
           Len(xs) + Len(ys) <= v.cap
    PROVE  LET w == Appended(v, ys)
           IN  Holds(kind, w, xs \o ys) /\ SameStorage(w, v) /\ w.size = Len(xs) + Len(ys)
<1> DEFINE u == Construct(v, v.size, ys)
           w == [u EXCEPT !.size = v.size + Len(ys)]
           zs == xs \o ys
<1>1. IsShaped(v) /\ xs \in Seq(Cells) /\ Len(xs) = v.size /\ IsStored(kind, v)
  BY DEF Holds, HoldsExactly
<1>2. /\ v.cap \in Nat /\ v.size \in Nat /\ v.size <= v.cap /\ Len(ys) \in Nat
      /\ v.size + Len(ys) \in Nat /\ v.size + Len(ys) <= v.cap
  BY <1>1, Fields
<1>5. /\ IsShaped(u) /\ SameStorage(u, v) /\ u.size = v.size
      /\ \A i \in 0 .. v.cap - 1 :
           Read(u, i) = IF i - v.size + 1 \in 1 .. Len(ys) THEN ys[i - v.size + 1] ELSE Read(v, i)
  <2>1. v.size \in Int
    BY <1>2
  <2> QED
    BY <1>1, <2>1, ConstructEffect, Zenon
<1>4. Appended(v, ys) = [u EXCEPT !.size = u.size + Len(ys)]
  BY DEF u, Appended
<1> HIDE DEF u
<1>6. u.cap = v.cap
  BY <1>5 DEF SameStorage
<1>7. /\ IsShaped(w) /\ SameStorage(w, u) /\ w.size = v.size + Len(ys)
      /\ \A i \in Int : Read(w, i) = Read(u, i)
  BY <1>2, <1>5, <1>6, Counted
<1>8. w = Appended(v, ys)
  BY <1>4, <1>5
<1> HIDE DEF w
<1>9. w.cap = v.cap
  BY <1>6, <1>7 DEF SameStorage
<1>10. /\ zs \in Seq(Cells) /\ Len(zs) = v.size + Len(ys)
       /\ \A k \in 1 .. Len(zs) : zs[k] = IF k <= v.size THEN xs[k] ELSE ys[k - v.size]
  BY <1>1, <1>2
<1> HIDE DEF zs
<1>11. ASSUME NEW i \in 0 .. v.cap - 1
       PROVE  Read(w, i) = IF i < v.size + Len(ys) THEN zs[i + 1] ELSE Raw
  <2>1. i \in Nat /\ i < v.cap
    BY <1>2
  <2>2. Read(v, i) = IF i < v.size THEN xs[i + 1] ELSE Raw
    BY DEF Holds, HoldsExactly
  <2>3. Read(w, i) = IF i - v.size + 1 \in 1 .. Len(ys) THEN ys[i - v.size + 1] ELSE Read(v, i)
    BY <1>5, <1>7, <2>1
  <2>4. CASE i < v.size
    <3>1. i - v.size + 1 \notin 1 .. Len(ys) /\ i < v.size + Len(ys) /\ i + 1 \in 1 .. Len(zs) /\ i + 1 <= v.size
      BY <1>2, <1>10, <2>1, <2>4
    <3> QED
      BY <1>10, <2>2, <2>3, <2>4, <3>1
  <2>5. CASE ~ (i < v.size) /\ i < v.size + Len(ys)
    <3>1. /\ i - v.size + 1 \in 1 .. Len(ys) /\ i + 1 \in 1 .. Len(zs) /\ ~ (i + 1 <= v.size)
          /\ (i + 1) - v.size = i - v.size + 1
      BY <1>2, <1>10, <2>1, <2>5
    <3> QED
      BY <1>10, <2>3, <2>5, <3>1
  <2>6. CASE ~ (i < v.size + Len(ys))
    <3>1. i - v.size + 1 \notin 1 .. Len(ys) /\ ~ (i < v.size)
      BY <1>2, <2>1, <2>6
    <3> QED
      BY <2>2, <2>3, <2>6, <3>1
  <2> QED
    BY <2>4, <2>5, <2>6
<1>12. HoldsExactly(w, zs)
  BY <1>7, <1>9, <1>10, <1>11 DEF HoldsExactly
<1>13. SameStorage(w, v)
  BY <1>5, <1>7, SameStorageTrans
<1> QED
  BY <1>1, <1>7, <1>8, <1>12, <1>13, StoredSame DEF Holds, zs

\* The elements of a vector are those it holds.
LEMMA ElementsFound ==
    ASSUME NEW v, NEW xs, HoldsExactly(v, xs)
    PROVE  ElementsOf(v) = xs
<1>1. IsShaped(v) /\ xs \in Seq(Cells) /\ Len(xs) = v.size
  BY DEF HoldsExactly
<1>2. v.cap \in Nat /\ v.size \in Nat /\ v.size <= v.cap
  BY <1>1, Fields
<1>3. ASSUME NEW k \in 1 .. v.size PROVE Read(v, k - 1) = xs[k]
  <2>1. k - 1 \in 0 .. v.cap - 1 /\ k - 1 < v.size /\ (k - 1) + 1 = k
    BY <1>2
  <2> QED
    BY <2>1 DEF HoldsExactly
<1>4. xs = [k \in 1 .. v.size |-> xs[k]]
  BY <1>1
<1> QED
  BY <1>3, <1>4, Zenon DEF ElementsOf

-----------------------------------------------------------------------------
(* Storage *)

\* A vector with one array.
LEMMA OneArray ==
    ASSUME NEW w \in VectorRecords, NEW cs \in Seq(Cells), w.blocks = <<cs>>,
           w.blockSize = Len(cs), w.cap = Len(cs), w.size <= Len(cs)
    PROVE  IsShaped(w) /\ Len(w.blocks) = 1 /\ \A i \in 0 .. w.cap - 1 : Read(w, i) = cs[i + 1]
<1>1. Len(w.blocks) = 1 /\ w.blocks[1] = cs
  OBVIOUS
<1>2. w.blockSize \in Nat \ {0}
  BY DEF VectorRecords
<1>3. IsShaped(w)
  <2>1. \A b \in 1 .. Len(w.blocks) : w.blocks[b] = cs
    BY <1>1
  <2>2. w.cap = 1 * w.blockSize
    BY <1>2
  <2> QED
    BY <1>1, <2>1, <2>2 DEF IsShaped
<1>4. ASSUME NEW i \in 0 .. w.cap - 1 PROVE Read(w, i) = cs[i + 1]
  <2>1. \A n \in Nat \ {0} : \A k \in 0 .. n - 1 : k \div n = 0 /\ k % n = k
    OBVIOUS
  <2>2. i \div w.blockSize = 0 /\ i % w.blockSize = i
    BY <1>2, <2>1
  <2> QED
    BY <1>1, <2>2 DEF Read, ptrAt
<1> QED
  BY <1>1, <1>3, <1>4

\* The elements move to an array of n cells.
LEMMA ReallocatedHolds ==
    ASSUME NEW kind \in {"small", "heap"}, NEW v, NEW xs, Holds(kind, v, xs),
           NEW n \in Nat \ {0}, Len(xs) <= n
    PROVE  LET w == Reallocated(v, n)
           IN  Holds(kind, w, xs) /\ w.cap = n /\ OnHeap(w)
<1> DEFINE rest == RawCells(n - v.size)
           cs == xs \o rest
           w == Reallocated(v, n)
<1>1. IsShaped(v) /\ xs \in Seq(Cells) /\ Len(xs) = v.size /\ IsStored(kind, v)
  BY DEF Holds, HoldsExactly
<1>2. v.size \in Nat /\ v.size <= n /\ n - v.size \in Nat /\ v \in VectorRecords
  BY <1>1, Fields DEF IsShaped
<1>3. rest \in Seq(Cells) /\ Len(rest) = n - v.size
  BY <1>2, RawList
<1>4. ASSUME NEW k \in 1 .. Len(rest) PROVE rest[k] = Raw
  BY <1>2, <1>3, <1>4 DEF RawCells
<1>5. ElementsOf(v) = xs
  BY ElementsFound DEF Holds
<1>6. w = [v EXCEPT !.where = "heap", !.blocks = <<cs>>,
                    !.blockSize = n, !.cap = n, !.net = IF OnHeap(v) THEN v.net ELSE v.net + 1]
  BY <1>5 DEF Reallocated
<1> HIDE DEF rest
<1>7. /\ cs \in Seq(Cells) /\ Len(cs) = n
      /\ \A k \in 1 .. n : cs[k] = IF k <= v.size THEN xs[k] ELSE Raw
  <2>1. cs \in Seq(Cells) /\ Len(cs) = v.size + (n - v.size)
    BY <1>1, <1>3
  <2>2. ASSUME NEW k \in 1 .. n PROVE cs[k] = IF k <= v.size THEN xs[k] ELSE Raw
    <3>1. k <= v.size \/ k - v.size \in 1 .. n - v.size
      BY <1>2
    <3> QED
      BY <1>1, <1>2, <1>3, <1>4, <3>1
  <2> QED
    BY <1>2, <2>1, <2>2
<1> HIDE DEF cs
<1>8. v.net \in Int /\ (IF OnHeap(v) THEN v.net ELSE v.net + 1) = 1
  <2>1. v.net \in Int /\ Len(v.blocks) \in Nat
    BY <1>1, Fields
  <2>2. OnHeap(v) => Len(v.blocks) = 1
    BY <1>1 DEF IsStored
  <2> QED
    BY <1>1, <2>1, <2>2 DEF IsStored
<1>9. /\ w \in VectorRecords /\ w.where = "heap" /\ w.blocks = <<cs>> /\ w.blockSize = n
      /\ w.cap = n /\ w.size = v.size /\ w.net = 1
  <2>1. <<cs>> \in Seq(Seq(Cells))
    BY <1>7
  <2>2. w = [v EXCEPT !.where = "heap", !.blocks = <<cs>>, !.blockSize = n, !.cap = n, !.net = 1]
    BY <1>6, <1>8
  <2> HIDE DEF w
  <2>3. /\ v \in VectorRecords /\ n \in Nat \ {0} /\ n \in Nat /\ 1 \in Int
        /\ "heap" \in {"inline", "heap", "none"}
    BY <1>2
  <2> DEFINE bs == <<cs>>
  <2> HIDE DEF bs
  <2>4. bs \in Seq(Seq(Cells)) /\ w = [v EXCEPT !.where = "heap", !.blocks = bs, !.blockSize = n, !.cap = n, !.net = 1]
    BY <2>1, <2>2 DEF bs
  <2>5. /\ w \in VectorRecords /\ w.where = "heap" /\ w.blocks = bs /\ w.blockSize = n
        /\ w.cap = n /\ w.size = v.size /\ w.net = 1
    BY <2>3, <2>4 DEF VectorRecords
  <2> QED
    BY <2>5 DEF bs
<1> HIDE DEF w
<1>10. IsShaped(w) /\ Len(w.blocks) = 1 /\ \A i \in 0 .. w.cap - 1 : Read(w, i) = cs[i + 1]
  BY <1>2, <1>7, <1>9, OneArray
<1>11. HoldsExactly(w, xs)
  <2>1. ASSUME NEW i \in 0 .. w.cap - 1 PROVE Read(w, i) = IF i < w.size THEN xs[i + 1] ELSE Raw
    <3>1. i + 1 \in 1 .. n /\ (i + 1 <= v.size <=> i < v.size)
      BY <1>2, <1>9
    <3> QED
      BY <1>7, <1>9, <1>10, <3>1
  <2> QED
    BY <1>1, <1>9, <1>10, <2>1 DEF HoldsExactly
<1>12. IsStored(kind, w) /\ OnHeap(w)
  BY <1>9, <1>10 DEF IsStored, OnHeap
<1> QED
  BY <1>9, <1>11, <1>12 DEF Holds, w

\* A vector after a write, with the elements it then has.
LEMMA WrittenHolds ==
    ASSUME NEW kind, NEW v, IsShaped(v), IsStored(kind, v), NEW from \in Int, NEW ys \in Seq(Cells),
           NEW zs \in Seq(Cells), Len(zs) <= v.cap,
           \A i \in 0 .. v.cap - 1 :
              (IF i - from + 1 \in 1 .. Len(ys) THEN ys[i - from + 1] ELSE Read(v, i))
                = IF i < Len(zs) THEN zs[i + 1] ELSE Raw
    PROVE  LET w == [Construct(v, from, ys) EXCEPT !.size = Len(zs)]
           IN  Holds(kind, w, zs) /\ SameStorage(w, v)
<1> DEFINE u == Construct(v, from, ys)
           w == [u EXCEPT !.size = Len(zs)]
<1>1. /\ IsShaped(u) /\ SameStorage(u, v)
      /\ \A i \in 0 .. v.cap - 1 :
           Read(u, i) = IF i - from + 1 \in 1 .. Len(ys) THEN ys[i - from + 1] ELSE Read(v, i)
  BY ConstructEffect
<1> HIDE DEF u
<1>2. u.cap = v.cap /\ v.cap \in Nat /\ Len(zs) \in Nat
  BY <1>1, Fields DEF SameStorage
<1>3. /\ IsShaped(w) /\ SameStorage(w, u) /\ w.size = Len(zs)
      /\ \A i \in Int : Read(w, i) = Read(u, i)
  BY <1>1, <1>2, Counted
<1> HIDE DEF w
<1>4. SameStorage(w, v)
  BY <1>1, <1>3, SameStorageTrans
<1>5. w.cap = v.cap
  BY <1>4 DEF SameStorage
<1>6. ASSUME NEW i \in 0 .. w.cap - 1 PROVE Read(w, i) = IF i < w.size THEN zs[i + 1] ELSE Raw
  <2>1. i \in 0 .. v.cap - 1 /\ i \in Int
    BY <1>2, <1>5
  <2> QED
    BY <1>1, <1>3, <2>1
<1>7. HoldsExactly(w, zs)
  BY <1>3, <1>6 DEF HoldsExactly
<1> QED
  BY <1>4, <1>7, StoredSame DEF Holds, w, u

LEMMA HoldsFacts ==
    ASSUME NEW kind, NEW v, NEW xs, Holds(kind, v, xs)
    PROVE  /\ IsShaped(v) /\ IsStored(kind, v) /\ v \in VectorRecords
           /\ xs \in Seq(Cells) /\ Len(xs) = v.size /\ ElementsOf(v) = xs
           /\ v.cap \in Nat /\ v.size \in Nat /\ v.net \in Int /\ v.size <= v.cap
           /\ Len(v.blocks) \in Nat /\ v.blocks \in Seq(Seq(Cells)) /\ v.blockSize \in Nat \ {0}
           /\ \A i \in 0 .. v.cap - 1 : Read(v, i) = IF i < v.size THEN xs[i + 1] ELSE Raw
<1>1. HoldsExactly(v, xs) /\ IsStored(kind, v)
  BY DEF Holds
<1>2. IsShaped(v)
  BY <1>1 DEF HoldsExactly
<1> QED
  BY <1>1, <1>2, Fields, ElementsFound DEF HoldsExactly, IsShaped

LEMMA NoneHeld ==
    ASSUME NEW kind, NEW v, NEW xs, Holds(kind, v, xs), v.size = 0
    PROVE  xs = << >>
BY HoldsFacts

-----------------------------------------------------------------------------
(* SmallVector *)

\* A SmallVector without elements, in its inline cells.
IsBare(w) ==
    /\ w \in VectorRecords
    /\ w.where = "inline" /\ w.blocks = <<RawCells(InlineCapacity)>>
    /\ w.blockSize = InlineCapacity /\ w.cap = InlineCapacity /\ w.net = 0

LEMMA BareHolds ==
    ASSUME NEW w, IsBare(w), w.size = 0
    PROVE  Holds("small", w, << >>) /\ ~OnHeap(w) /\ w.cap = InlineCapacity
<1> DEFINE cs == RawCells(InlineCapacity)
<1>1. InlineCapacity \in Nat \ {0}
  BY InlineCapacityAssumption
<1>2. cs \in Seq(Cells) /\ Len(cs) = InlineCapacity
  BY <1>1, RawList
<1>3. \A k \in 1 .. InlineCapacity : cs[k] = Raw
  BY DEF RawCells
<1> HIDE DEF cs
<1>4. w.blocks = <<cs>> /\ w.size = 0 /\ w.cap = InlineCapacity /\ w.blockSize = InlineCapacity /\ w \in VectorRecords
  BY DEF IsBare, cs
<1>5. IsShaped(w) /\ Len(w.blocks) = 1 /\ \A i \in 0 .. w.cap - 1 : Read(w, i) = cs[i + 1]
  BY <1>1, <1>2, <1>4, OneArray
<1>6. ASSUME NEW i \in 0 .. w.cap - 1 PROVE Read(w, i) = Raw /\ ~ (i < w.size)
  <2>1. i + 1 \in 1 .. InlineCapacity /\ ~ (i < 0)
    BY <1>1, <1>4
  <2> QED
    BY <1>3, <1>4, <1>5, <2>1
<1>7. HoldsExactly(w, << >>)
  <2>1. << >> \in Seq(Cells) /\ Len(<< >>) = 0
    OBVIOUS
  <2> QED
    BY <1>4, <1>5, <1>6, <2>1, Zenon DEF HoldsExactly
<1>8. ~OnHeap(w) /\ IsStored("small", w)
  BY <1>4, <1>5 DEF IsBare, OnHeap, IsStored
<1> QED
  BY <1>4, <1>7, <1>8 DEF Holds

LEMMA InlineRaw == InlineCapacity \in Nat \ {0} /\ <<RawCells(InlineCapacity)>> \in Seq(Seq(Cells))
<1>1. InlineCapacity \in Nat \ {0}
  BY InlineCapacityAssumption
<1> QED
  BY <1>1, RawList

LEMMA ResetFields ==
    ASSUME NEW v \in VectorRecords
    PROVE  LET w == [resetInlinePointer(v) EXCEPT !.size = 0, !.net = 0]
           IN  w.size = 0 /\ IsBare(w)
<1> DEFINE bs == <<RawCells(InlineCapacity)>>
           w == [resetInlinePointer(v) EXCEPT !.size = 0, !.net = 0]
<1>1. InlineCapacity \in Nat \ {0} /\ InlineCapacity \in Nat /\ bs \in Seq(Seq(Cells))
  BY InlineRaw
<1> DEFINE t == [v EXCEPT !.where = "inline", !.blocks = bs, !.blockSize = InlineCapacity, !.cap = InlineCapacity]
<1>2. w = [t EXCEPT !.size = 0, !.net = 0]
  BY DEF resetInlinePointer
<1> HIDE DEF w, bs
<1>5. /\ t \in VectorRecords /\ t.where = "inline" /\ t.blocks = bs /\ t.blockSize = InlineCapacity
      /\ t.cap = InlineCapacity
  BY <1>1 DEF VectorRecords
<1> HIDE DEF t
<1>3. /\ w \in VectorRecords /\ w.where = "inline" /\ w.blocks = bs /\ w.blockSize = InlineCapacity
      /\ w.cap = InlineCapacity /\ w.size = 0 /\ w.net = 0
  <2>1. t \in VectorRecords /\ 0 \in Nat /\ 0 \in Int
    BY <1>5
  <2>2. w \in VectorRecords
    BY <1>2, <2>1 DEF VectorRecords
  <2>3. w.where = t.where /\ w.blocks = t.blocks /\ w.blockSize = t.blockSize /\ w.cap = t.cap
    BY <1>2, <2>1 DEF VectorRecords
  <2>4. w.size = 0 /\ w.net = 0
    BY <1>2, <2>1 DEF VectorRecords
  <2> QED
    BY <1>5, <2>2, <2>3, <2>4
<1>4. w.size = 0 /\ IsBare(w)
  BY <1>3 DEF IsBare, bs
<1> QED
  BY <1>4 DEF w

\* The same without a change of size or of what is owned.
LEMMA ResetKeeps ==
    ASSUME NEW v \in VectorRecords
    PROVE  LET w == resetInlinePointer(v)
           IN  w.size = v.size /\ w.net = v.net /\ (v.net = 0 => IsBare(w))
<1> DEFINE w == resetInlinePointer(v)
           bs == <<RawCells(InlineCapacity)>>
<1>1. InlineCapacity \in Nat \ {0} /\ InlineCapacity \in Nat /\ bs \in Seq(Seq(Cells))
  BY InlineRaw
<1>2. w = [v EXCEPT !.where = "inline", !.blocks = bs, !.blockSize = InlineCapacity, !.cap = InlineCapacity]
  BY DEF resetInlinePointer
<1> HIDE DEF w, bs
<1>3. /\ w \in VectorRecords /\ w.where = "inline" /\ w.blocks = bs /\ w.blockSize = InlineCapacity
      /\ w.cap = InlineCapacity /\ w.size = v.size /\ w.net = v.net
  BY <1>1, <1>2 DEF VectorRecords
<1>4. w.size = v.size /\ w.net = v.net /\ (v.net = 0 => IsBare(w))
  BY <1>3 DEF IsBare, bs
<1> QED
  BY <1>4 DEF w

\* What a SmallVector owns.
LEMMA SmallOwns ==
    ASSUME NEW v, IsStored("small", v)
    PROVE  v.net = IF OnHeap(v) THEN 1 ELSE 0
BY DEF IsStored

\* An empty vector goes back to its inline cells.
LEMMA ReleasedHolds ==
    ASSUME NEW v, Holds("small", v, << >>)
    PROVE  LET w == releaseHeapStorage(v)
           IN  Holds("small", w, << >>) /\ ~OnHeap(w) /\ w.cap = InlineCapacity
<1>1. v \in VectorRecords /\ v.size = 0 /\ IsStored("small", v) /\ v.net \in Int
  BY HoldsFacts
<1>2. CASE OnHeap(v)
  <2> DEFINE r == resetInlinePointer(v)
             w == [r EXCEPT !.net = @ - 1]
  <2>1. r.size = 0 /\ r.net = v.net
    BY <1>1, ResetKeeps
  <2>2. r = [r EXCEPT !.size = 0]
    BY <2>1 DEF resetInlinePointer, VectorRecords
  <2>3. v.net - 1 = 0
    BY <1>1, <1>2, SmallOwns
  <2>4. w = [r EXCEPT !.net = 0]
    BY <2>1, <2>3
  <2>5. w = [r EXCEPT !.size = 0, !.net = 0]
    <3> HIDE DEF r
    <3> QED
      BY <2>2, <2>4
  <2>6. IsBare(w) /\ w.size = 0
    <3> DEFINE t == [resetInlinePointer(v) EXCEPT !.size = 0, !.net = 0]
    <3>1. t.size = 0 /\ IsBare(t)
      BY <1>1, ResetFields
    <3>2. w = t
      BY <2>5
    <3> HIDE DEF t, w
    <3> QED
      BY <3>1, <3>2
  <2>7. w = releaseHeapStorage(v)
    BY <1>2 DEF releaseHeapStorage
  <2> HIDE DEF w
  <2> QED
    BY <2>6, <2>7, BareHolds
<1>3. CASE ~OnHeap(v)
  BY <1>1, <1>3 DEF releaseHeapStorage, IsStored
<1> QED
  BY <1>2, <1>3

LEMMA SmallEnsured ==
    ASSUME NEW v, NEW xs, Holds("small", v, xs), NEW n \in Nat
    PROVE  LET w == smallEnsureCapacity(v, n)
           IN  Holds("small", w, xs) /\ n <= w.cap /\ w.size = v.size
<1>1. v.cap \in Nat /\ v.size \in Nat /\ v.size <= v.cap /\ Len(xs) = v.size
  BY HoldsFacts
<1>2. CASE n <= v.cap
  BY <1>2 DEF smallEnsureCapacity
<1>3. CASE ~ (n <= v.cap)
  <2> DEFINE m == IF 2 * v.cap < n THEN n ELSE 2 * v.cap
             w == Reallocated(v, m)
  <2>1. m \in Nat \ {0} /\ Len(xs) <= m /\ n <= m
    BY <1>1, <1>3
  <2>2. smallEnsureCapacity(v, n) = w
    BY <1>3 DEF smallEnsureCapacity
  <2> HIDE DEF m
  <2>3. Holds("small", w, xs) /\ w.cap = m
    BY <2>1, ReallocatedHolds
  <2> HIDE DEF w
  <2>4. Len(xs) = w.size
    BY <2>3, HoldsFacts
  <2> QED
    BY <1>1, <2>1, <2>2, <2>3, <2>4
<1> QED
  BY <1>2, <1>3

LEMMA SmallPushed ==
    ASSUME NEW v, NEW xs, Holds("small", v, xs), NEW x \in VectorValues
    PROVE  Holds("small", smallEmplaceBack(v, x), Append(xs, x))
<1> DEFINE u == smallEnsureCapacity(v, v.size + 1)
<1>1. v.size \in Nat /\ Len(xs) = v.size /\ xs \in Seq(Cells) /\ v.size + 1 \in Nat
  BY HoldsFacts
<1>2. Holds("small", u, xs) /\ v.size + 1 <= u.cap
  BY <1>1, SmallEnsured
<1>3. <<x>> \in Seq(Cells) /\ Len(<<x>>) = 1 /\ xs \o <<x>> = Append(xs, x)
  BY <1>1 DEF Cells
<1>4. smallEmplaceBack(v, x) = Appended(u, <<x>>)
  BY DEF smallEmplaceBack
<1> HIDE DEF u
<1>5. Holds("small", Appended(u, <<x>>), xs \o <<x>>)
  BY <1>1, <1>2, <1>3, AppendedHolds
<1> QED
  BY <1>3, <1>4, <1>5

\* What resize makes of the elements.
Resized(xs, n, x) == IF n <= Len(xs) THEN SubSeq(xs, 1, n) ELSE xs \o Copies(n - Len(xs), x)

LEMMA SmallResized ==
    ASSUME NEW v, NEW xs, Holds("small", v, xs), NEW n \in Nat, NEW x \in VectorValues,
           ~ (OnHeap(v) /\ v.size > 0 /\ v.size < n /\ n <= InlineCapacity)
    PROVE  Holds("small", smallResize(v, n, x), Resized(xs, n, x))
<1>1. v.size \in Nat /\ Len(xs) = v.size /\ xs \in Seq(Cells) /\ IsStored("small", v)
  BY HoldsFacts
<1>2. CASE n < v.size
  <2>1. Holds("small", Truncated(v, n), SubSeq(xs, 1, n))
    <3>1. n \in 0 .. Len(xs)
      BY <1>1, <1>2
    <3> QED
      BY <3>1, TruncatedHolds
  <2>2. n <= Len(xs)
    BY <1>1, <1>2
  <2> QED
    BY <1>2, <2>1, <2>2 DEF smallResize, Resized
<1>3. CASE n = v.size
  <2>1. SubSeq(xs, 1, n) = xs
    BY <1>1, <1>3
  <2>2. ~ (n < v.size) /\ n <= Len(xs)
    BY <1>1, <1>3
  <2> QED
    BY <1>3, <2>1, <2>2 DEF smallResize, Resized
<1>4. CASE n > v.size
  <2> DEFINE u == IF n <= InlineCapacity THEN releaseHeapStorage(v) ELSE v
             r == smallEnsureCapacity(u, n)
             ys == Copies(n - v.size, x)
  <2>1. Holds("small", u, xs)
    <3>1. CASE n <= InlineCapacity /\ OnHeap(v)
      <4>1. v.size = 0
        BY <1>1, <1>4, <3>1
      <4>2. xs = << >>
        BY <4>1, NoneHeld
      <4> QED
        BY <3>1, <4>2, ReleasedHolds
    <3>2. CASE ~ (n <= InlineCapacity /\ OnHeap(v))
      BY <3>2 DEF releaseHeapStorage
    <3> QED
      BY <3>1, <3>2
  <2>2. smallResize(v, n, x) = Appended(r, ys)
    <3>1. ~ (n < v.size) /\ n # v.size
      BY <1>1, <1>4
    <3> QED
      BY <3>1 DEF smallResize
  <2> HIDE DEF u
  <2>3. Holds("small", r, xs) /\ n <= r.cap
    BY <2>1, SmallEnsured
  <2> HIDE DEF r
  <2>4. ys \in Seq(Cells) /\ Len(ys) = n - v.size
    <3>1. n - v.size \in Nat
      BY <1>1, <1>4
    <3> QED
      BY <3>1, CopiesList
  <2>5. Len(xs) + Len(ys) = n
    BY <1>1, <2>4
  <2>6. Resized(xs, n, x) = xs \o ys
    <3>1. ~ (n <= Len(xs)) /\ Len(xs) = v.size
      BY <1>1, <1>4
    <3> QED
      BY <3>1 DEF Resized
  <2> HIDE DEF ys
  <2>7. Holds("small", Appended(r, ys), xs \o ys)
    BY <2>3, <2>4, <2>5, AppendedHolds
  <2> QED
    BY <2>2, <2>6, <2>7
<1> QED
  BY <1>1, <1>2, <1>3, <1>4

LEMMA SmallAssigned ==
    ASSUME NEW v, NEW xs, Holds("small", v, xs), NEW ys \in Seq(Cells)
    PROVE  Holds("small", smallAssign(v, ys), ys)
<1> DEFINE bare == Truncated(v, 0)
           u == IF Len(ys) <= InlineCapacity THEN releaseHeapStorage(bare) ELSE bare
           r == smallEnsureCapacity(u, Len(ys))
<1>1. Holds("small", bare, << >>)
  <2>1. 0 \in 0 .. Len(xs) /\ SubSeq(xs, 1, 0) = << >>
    BY HoldsFacts
  <2> QED
    <3>1. Holds("small", Truncated(v, 0), SubSeq(xs, 1, 0))
      BY <2>1, TruncatedHolds, Zenon
    <3> QED
      BY <2>1, <3>1
<1>2. smallAssign(v, ys) = Appended(r, ys)
  BY DEF smallAssign
<1> HIDE DEF bare
<1>3. Holds("small", u, << >>)
  BY <1>1, ReleasedHolds
<1> HIDE DEF u
<1>4. Len(ys) \in Nat /\ Len(<< >>) + Len(ys) = Len(ys) /\ << >> \o ys = ys
  OBVIOUS
<1>5. Holds("small", r, << >>) /\ Len(ys) <= r.cap
  BY <1>3, <1>4, SmallEnsured
<1> HIDE DEF r
<1>6. Holds("small", Appended(r, ys), << >> \o ys)
  BY <1>4, <1>5, AppendedHolds
<1> QED
  BY <1>2, <1>4, <1>6

\* What a SmallVector that holds xs may own.
LEMMA Owned ==
    ASSUME NEW v, IsShaped(v), NEW n \in Int
    PROVE  LET w == [v EXCEPT !.net = n]
           IN  /\ IsShaped(w) /\ w.net = n
               /\ w.where = v.where /\ w.blocks = v.blocks /\ w.cap = v.cap /\ w.size = v.size
               /\ \A i \in Int : Read(w, i) = Read(v, i)
<1> DEFINE w == [v EXCEPT !.net = n]
<1>1. v \in VectorRecords
  BY DEF IsShaped
<1>2. /\ w \in VectorRecords /\ w.blocks = v.blocks /\ w.size = v.size
      /\ w.where = v.where /\ w.blockSize = v.blockSize /\ w.cap = v.cap /\ w.net = n
  BY <1>1 DEF VectorRecords
<1> HIDE DEF w
<1>3. IsShaped(w)
  BY <1>2 DEF IsShaped
<1>4. \A i \in Int : Read(w, i) = Read(v, i)
  BY <1>2 DEF Read, ptrAt
<1> QED
  BY <1>2, <1>3, <1>4 DEF w

\* Elements that fit move from the heap to the inline cells.
LEMMA SmallMovedInline ==
    ASSUME NEW v, NEW xs, Holds("small", v, xs), v.size <= InlineCapacity, OnHeap(v)
    PROVE  Holds("small", MovedInline(v), xs)
<1> DEFINE t == resetInlinePointer(v)
           u == Construct(t, 0, xs)
           w == [u EXCEPT !.net = 0]
           cs == RawCells(InlineCapacity)
           bs == <<cs>>
<1>1. /\ v \in VectorRecords /\ IsStored("small", v) /\ v.size \in Nat /\ xs \in Seq(Cells)
      /\ Len(xs) = v.size /\ ElementsOf(v) = xs
  BY HoldsFacts
<1>2. InlineCapacity \in Nat \ {0} /\ InlineCapacity \in Nat /\ bs \in Seq(Seq(Cells))
  BY InlineRaw
<1>3. cs \in Seq(Cells) /\ Len(cs) = InlineCapacity /\ \A k \in 1 .. InlineCapacity : cs[k] = Raw
  BY <1>2, RawList DEF RawCells
<1>4. t = [v EXCEPT !.where = "inline", !.blocks = bs, !.blockSize = InlineCapacity, !.cap = InlineCapacity]
  BY DEF resetInlinePointer
<1> HIDE DEF t, cs
<1>5. /\ t \in VectorRecords /\ t.where = "inline" /\ t.blocks = <<cs>> /\ t.blockSize = InlineCapacity
      /\ t.cap = InlineCapacity /\ t.size = v.size /\ t.net = v.net
  <2> HIDE DEF bs
  <2>1. /\ t \in VectorRecords /\ t.where = "inline" /\ t.blocks = bs /\ t.blockSize = InlineCapacity
        /\ t.cap = InlineCapacity /\ t.size = v.size /\ t.net = v.net
    BY <1>1, <1>2, <1>4 DEF VectorRecords
  <2> QED
    BY <2>1 DEF bs
<1>6. IsShaped(t) /\ Len(t.blocks) = 1 /\ \A i \in 0 .. t.cap - 1 : Read(t, i) = cs[i + 1]
  BY <1>3, <1>5, OneArray
<1>7. ASSUME NEW i \in 0 .. t.cap - 1 PROVE Read(t, i) = Raw /\ i \in Nat
  <2>1. i + 1 \in 1 .. InlineCapacity /\ i \in Nat
    BY <1>2, <1>5
  <2> QED
    BY <1>3, <1>6, <2>1
<1>8. /\ IsShaped(u) /\ SameStorage(u, t) /\ u.size = t.size
      /\ \A i \in 0 .. t.cap - 1 :
           Read(u, i) = IF i - 0 + 1 \in 1 .. Len(xs) THEN xs[i - 0 + 1] ELSE Read(t, i)
  <2>1. 0 \in Int
    OBVIOUS
  <2> QED
    BY <1>1, <1>6, <2>1, ConstructEffect
<1> HIDE DEF u
<1>9. u.net = v.net /\ u.where = "inline" /\ Len(u.blocks) = 1 /\ u.cap = InlineCapacity /\ u.size = v.size
  BY <1>5, <1>6, <1>8 DEF SameStorage
<1>10. /\ IsShaped(w) /\ w.net = 0
       /\ w.where = u.where /\ w.blocks = u.blocks /\ w.cap = u.cap /\ w.size = u.size
       /\ \A i \in Int : Read(w, i) = Read(u, i)
  <2>1. 0 \in Int
    OBVIOUS
  <2> QED
    BY <1>8, <2>1, Owned, Zenon
<1>11. [u EXCEPT !.net = @ - 1] = w
  <2>1. u.net - 1 = 0
    BY <1>1, <1>9, SmallOwns
  <2>2. [u EXCEPT !.net = @ - 1] = [u EXCEPT !.net = u.net - 1]
    OBVIOUS
  <2> QED
    BY <2>1, <2>2, Zenon
<1> HIDE DEF w
<1>12. ASSUME NEW i \in 0 .. w.cap - 1 PROVE Read(w, i) = IF i < w.size THEN xs[i + 1] ELSE Raw
  <2>1. i \in 0 .. t.cap - 1 /\ i \in Int /\ w.size = v.size
    BY <1>2, <1>5, <1>9, <1>10
  <2>2. Read(t, i) = Raw /\ i \in Nat
    BY <1>7, <2>1
  <2>3. Read(w, i) = IF i - 0 + 1 \in 1 .. Len(xs) THEN xs[i - 0 + 1] ELSE Raw
    BY <1>8, <1>10, <2>1, <2>2
  <2>4. i - 0 + 1 = i + 1 /\ (i - 0 + 1 \in 1 .. Len(xs) <=> i < v.size)
    BY <1>1, <2>2
  <2> QED
    BY <2>1, <2>3, <2>4
<1>13. HoldsExactly(w, xs)
  BY <1>1, <1>9, <1>10, <1>12 DEF HoldsExactly
<1>14. IsStored("small", w)
  BY <1>9, <1>10 DEF IsStored, OnHeap
<1>15. Holds("small", w, xs)
  BY <1>13, <1>14 DEF Holds
<1> QED
  BY <1>1, <1>11, <1>15 DEF MovedInline, u, t

\* No element is constructed over a live one, if none is inline.
LEMMA SmallShrunk ==
    ASSUME NEW v, NEW xs, Holds("small", v, xs), OnHeap(v) \/ v.size = 0,
           NEW w \in smallShrinkToFit(v)
    PROVE  Holds("small", w, xs)
<1>1. /\ v \in VectorRecords /\ IsStored("small", v) /\ v.size \in Nat /\ v.cap \in Nat
      /\ Len(xs) = v.size
  BY HoldsFacts
<1>2. CASE v.size = 0
  <2>1. xs = << >>
    BY <1>2, NoneHeld
  <2>2. w = releaseHeapStorage(v)
    BY <1>2 DEF smallShrinkToFit
  <2> QED
    BY <2>1, <2>2, ReleasedHolds
<1>3. CASE v.size # 0 /\ v.size <= InlineCapacity
  <2>1. w = MovedInline(v)
    BY <1>3 DEF smallShrinkToFit
  <2> QED
    BY <1>3, <2>1, SmallMovedInline
<1>4. CASE v.size # 0 /\ ~ (v.size <= InlineCapacity)
  <2>1. w = IF OnHeap(v) /\ v.size < v.cap THEN Reallocated(v, v.size) ELSE v
    BY <1>4 DEF smallShrinkToFit
  <2>2. v.size \in Nat \ {0} /\ Len(xs) <= v.size
    BY <1>1, <1>4
  <2>3. Holds("small", Reallocated(v, v.size), xs)
    BY <2>2, ReallocatedHolds
  <2> QED
    BY <2>1, <2>3
<1> QED
  BY <1>2, <1>3, <1>4

\* Where insertion puts the elements.
Inserted(xs, index, ys) == SubSeq(xs, 1, index) \o ys \o SubSeq(xs, index + 1, Len(xs))

LEMMA InsertedList ==
    ASSUME NEW xs \in Seq(Cells), NEW ys \in Seq(Cells), NEW index \in 0 .. Len(xs)
    PROVE  LET zs == Inserted(xs, index, ys)
           IN  /\ zs \in Seq(Cells) /\ Len(zs) = Len(xs) + Len(ys)
               /\ \A k \in 1 .. Len(zs) :
                    zs[k] = IF k <= index THEN xs[k]
                            ELSE IF k <= index + Len(ys) THEN ys[k - index] ELSE xs[k - Len(ys)]
<1> DEFINE a == SubSeq(xs, 1, index)
           b == SubSeq(xs, index + 1, Len(xs))
           c == a \o ys
           zs == c \o b
           m == Len(xs)
           n == Len(ys)
<1>1. m \in Nat /\ n \in Nat /\ index \in Nat /\ index <= m
  OBVIOUS
<1>2. a \in Seq(Cells) /\ Len(a) = index /\ \A k \in 1 .. index : a[k] = xs[k]
  BY <1>1
<1>3. b \in Seq(Cells) /\ Len(b) = m - index /\ \A k \in 1 .. m - index : b[k] = xs[index + k]
  BY <1>1
<1> HIDE DEF a, b
<1>4. /\ c \in Seq(Cells) /\ Len(c) = index + n
      /\ \A k \in 1 .. index + n : c[k] = IF k <= index THEN a[k] ELSE ys[k - index]
  BY <1>1, <1>2
<1> HIDE DEF c
<1>5. /\ zs \in Seq(Cells) /\ Len(zs) = m + n
      /\ \A k \in 1 .. m + n : zs[k] = IF k <= index + n THEN c[k] ELSE b[k - (index + n)]
  <2>1. zs \in Seq(Cells) /\ Len(zs) = (index + n) + (m - index)
    <3>1. b \in Seq(Cells) /\ c \in Seq(Cells) /\ Len(b) = m - index /\ Len(c) = index + n
      BY <1>3, <1>4
    <3>2. \A p, q \in Seq(Cells) : p \o q \in Seq(Cells) /\ Len(p \o q) = Len(p) + Len(q)
      OBVIOUS
    <3> HIDE DEF m, n
    <3> QED
      BY <3>1, <3>2, Zenon
  <2>2. (index + n) + (m - index) = m + n
    BY <1>1
  <2>3. ASSUME NEW k \in 1 .. m + n PROVE zs[k] = IF k <= index + n THEN c[k] ELSE b[k - (index + n)]
    BY <1>1, <1>3, <1>4, <2>2
  <2> QED
    BY <2>1, <2>2, <2>3
<1>6. Inserted(xs, index, ys) = zs
  BY DEF Inserted, a, b, c
<1> HIDE DEF zs, m, n
<1>7. ASSUME NEW k \in 1 .. m + n
      PROVE  zs[k] = IF k <= index THEN xs[k] ELSE IF k <= index + n THEN ys[k - index] ELSE xs[k - n]
  <2>1. CASE k <= index
    <3>1. k <= index + n /\ k \in 1 .. index + n /\ k \in 1 .. index
      BY <1>1, <2>1
    <3> QED
      BY <1>2, <1>4, <1>5, <2>1, <3>1
  <2>2. CASE ~ (k <= index) /\ k <= index + n
    <3>1. k \in 1 .. index + n
      BY <1>1, <2>2
    <3> QED
      BY <1>4, <1>5, <2>2, <3>1
  <2>3. CASE ~ (k <= index + n)
    <3>1. k - (index + n) \in 1 .. m - index /\ index + (k - (index + n)) = k - n /\ ~ (k <= index)
      BY <1>1, <2>3
    <3> QED
      BY <1>3, <1>5, <2>3, <3>1
  <2> QED
    BY <2>1, <2>2, <2>3
<1> QED
  BY <1>5, <1>6, <1>7 DEF m, n

LEMMA SmallInserted ==
    ASSUME NEW v, NEW xs, Holds("small", v, xs), NEW ys \in Seq(Cells), NEW index \in 0 .. Len(xs)
    PROVE  Holds("small", smallInsert(v, index, ys), Inserted(xs, index, ys))
<1> DEFINE m == Len(xs)
           n == Len(ys)
           r == smallEnsureCapacity(v, v.size + n)
           tail == SubSeq(xs, index + 1, m)
           gap == RawCells(m - index)
           d == Construct(r, index, gap)
           s == Construct(d, index + n, tail)
           w == [Construct(s, index, ys) EXCEPT !.size = @ + n]
           zs == Inserted(xs, index, ys)
<1>1. m \in Nat /\ n \in Nat /\ index \in Nat /\ index <= m /\ m + n \in Nat /\ v.size = m /\ xs \in Seq(Cells)
  <2>1. m \in Nat /\ v.size = m /\ xs \in Seq(Cells)
    BY HoldsFacts
  <2>2. n \in Nat
    OBVIOUS
  <2> HIDE DEF n
  <2> QED
    BY <2>1, <2>2
<1>2. Holds("small", r, xs) /\ m + n <= r.cap /\ r.size = m
  <2>1. v.size + n \in Nat
    BY <1>1
  <2> HIDE DEF n, m
  <2> QED
    BY <1>1, <2>1, SmallEnsured
<1>3. smallInsert(v, index, ys) = w
  <2>1. ElementsOf(r) = xs
    BY <1>2, HoldsFacts
  <2>2. shiftRight(r, index, n) = s
    BY <1>2, <2>1 DEF shiftRight, destroyRange
  <2> QED
    BY <2>2 DEF smallInsert
<1>4. tail \in Seq(Cells) /\ Len(tail) = m - index /\ \A k \in 1 .. m - index : tail[k] = xs[index + k]
  BY <1>1
<1>5. gap \in Seq(Cells) /\ Len(gap) = m - index /\ \A k \in 1 .. m - index : gap[k] = Raw
  <2>1. m - index \in Nat
    BY <1>1
  <2> QED
    BY <2>1, RawList DEF RawCells
<1>6. /\ zs \in Seq(Cells) /\ Len(zs) = m + n
      /\ \A k \in 1 .. m + n :
           zs[k] = IF k <= index THEN xs[k] ELSE IF k <= index + n THEN ys[k - index] ELSE xs[k - n]
  BY <1>1, InsertedList
<1> HIDE DEF r, tail, gap, zs
<1>7. IsShaped(r) /\ IsStored("small", r) /\ r.cap \in Nat
      /\ \A i \in 0 .. r.cap - 1 : Read(r, i) = IF i < m THEN xs[i + 1] ELSE Raw
  BY <1>2, HoldsFacts
<1>8. /\ IsShaped(d) /\ SameStorage(d, r) /\ d.size = m
      /\ \A i \in 0 .. r.cap - 1 :
           Read(d, i) = IF i - index + 1 \in 1 .. m - index THEN gap[i - index + 1] ELSE Read(r, i)
  <2>1. index \in Int
    BY <1>1
  <2> HIDE DEF m
  <2> QED
    BY <1>2, <1>5, <1>7, <2>1, ConstructEffect
<1> HIDE DEF d
<1>9. d.cap = r.cap /\ index + n \in Int /\ index \in Int
  BY <1>1, <1>8 DEF SameStorage
<1>10. /\ IsShaped(s) /\ SameStorage(s, d) /\ s.size = m
       /\ \A i \in 0 .. r.cap - 1 :
            Read(s, i) = IF i - (index + n) + 1 \in 1 .. m - index THEN tail[i - (index + n) + 1] ELSE Read(d, i)
  <2> HIDE DEF m, n
  <2> QED
    BY <1>4, <1>8, <1>9, ConstructEffect
<1> HIDE DEF s
<1>11. s.cap = r.cap /\ SameStorage(s, r) /\ IsStored("small", s)
  BY <1>7, <1>8, <1>9, <1>10, SameStorageTrans, StoredSame DEF SameStorage
<1>12. ASSUME NEW i \in 0 .. s.cap - 1
       PROVE  (IF i - index + 1 \in 1 .. n THEN ys[i - index + 1] ELSE Read(s, i))
                = IF i < Len(zs) THEN zs[i + 1] ELSE Raw
  <2> HIDE DEF m, n
  <2>1. i \in Nat /\ i < r.cap /\ i \in 0 .. r.cap - 1
    BY <1>7, <1>11
  <2>2. /\ Read(s, i) = IF i - (index + n) + 1 \in 1 .. m - index THEN tail[i - (index + n) + 1] ELSE Read(d, i)
        /\ Read(d, i) = IF i - index + 1 \in 1 .. m - index THEN gap[i - index + 1] ELSE Read(r, i)
        /\ Read(r, i) = IF i < m THEN xs[i + 1] ELSE Raw
    BY <1>7, <1>8, <1>10, <2>1
  <2>3. CASE i < index
    <3>1. /\ i - index + 1 \notin 1 .. n /\ i - (index + n) + 1 \notin 1 .. m - index
          /\ i - index + 1 \notin 1 .. m - index
          /\ i < m /\ i < m + n /\ i + 1 \in 1 .. m + n /\ i + 1 <= index
      BY <1>1, <2>1, <2>3
    <3> QED
      BY <1>6, <2>2, <3>1
  <2>4. CASE ~ (i < index) /\ i < index + n
    <3>1. /\ i - index + 1 \in 1 .. n /\ i < m + n /\ i + 1 \in 1 .. m + n
          /\ ~ (i + 1 <= index) /\ i + 1 <= index + n /\ (i + 1) - index = i - index + 1
      BY <1>1, <2>1, <2>4
    <3> QED
      BY <1>6, <3>1
  <2>5. CASE ~ (i < index + n) /\ i < m + n
    <3>1. /\ i - index + 1 \notin 1 .. n /\ i - (index + n) + 1 \in 1 .. m - index
          /\ i + 1 \in 1 .. m + n /\ ~ (i + 1 <= index) /\ ~ (i + 1 <= index + n)
          /\ index + (i - (index + n) + 1) = (i + 1) - n
      BY <1>1, <2>1, <2>5
    <3>2. tail[i - (index + n) + 1] = xs[(i + 1) - n]
      BY <1>4, <3>1
    <3>3. Len(zs) = m + n /\ zs[i + 1] = xs[(i + 1) - n]
      BY <1>6, <3>1
    <3> QED
      BY <2>2, <2>5, <3>1, <3>2, <3>3
  <2>6. CASE ~ (i < m + n)
    <3>1. /\ i - index + 1 \notin 1 .. n /\ i - (index + n) + 1 \notin 1 .. m - index
          /\ ~ (i < m)
      BY <1>1, <2>1, <2>6
    <3>2. i - index + 1 \in 1 .. m - index => gap[i - index + 1] = Raw
      BY <1>5
    <3>3. Len(zs) = m + n
      BY <1>6
    <3> QED
      BY <2>2, <2>6, <3>1, <3>2, <3>3
  <2> QED
    BY <1>1, <2>1, <2>3, <2>4, <2>5, <2>6
<1>13. Holds("small", [Construct(s, index, ys) EXCEPT !.size = Len(zs)], zs)
  <2>1. Len(zs) <= s.cap
    BY <1>2, <1>6, <1>11
  <2> QED
    BY <1>6, <1>9, <1>10, <1>11, <1>12, <2>1, WrittenHolds
<1>14. w = [Construct(s, index, ys) EXCEPT !.size = Len(zs)]
  <2>1. Construct(s, index, ys).size = m
    BY <1>9, <1>10, ConstructEffect
  <2> QED
    BY <1>6, <2>1
<1> HIDE DEF w
<1> QED
  BY <1>3, <1>13, <1>14 DEF zs

\* What erasure leaves of the elements.
Erased(xs, first, last) == SubSeq(xs, 1, first) \o SubSeq(xs, last + 1, Len(xs))

LEMMA ErasedList ==
    ASSUME NEW xs \in Seq(Cells), NEW last \in 0 .. Len(xs), NEW first \in 0 .. last
    PROVE  LET zs == Erased(xs, first, last)
           IN  /\ zs \in Seq(Cells) /\ Len(zs) = Len(xs) - (last - first)
               /\ \A k \in 1 .. Len(zs) : zs[k] = IF k <= first THEN xs[k] ELSE xs[k + (last - first)]
<1> DEFINE a == SubSeq(xs, 1, first)
           b == SubSeq(xs, last + 1, Len(xs))
           zs == a \o b
           m == Len(xs)
<1>1. m \in Nat /\ first \in Nat /\ last \in Nat /\ first <= last /\ last <= m
  OBVIOUS
<1>2. a \in Seq(Cells) /\ Len(a) = first /\ \A k \in 1 .. first : a[k] = xs[k]
  BY <1>1
<1>3. b \in Seq(Cells) /\ Len(b) = m - last /\ \A k \in 1 .. m - last : b[k] = xs[last + k]
  BY <1>1
<1> HIDE DEF a, b
<1>4. /\ zs \in Seq(Cells) /\ Len(zs) = first + (m - last)
      /\ \A k \in 1 .. first + (m - last) : zs[k] = IF k <= first THEN a[k] ELSE b[k - first]
  <2>1. a \in Seq(Cells) /\ b \in Seq(Cells) /\ Len(a) = first /\ Len(b) = m - last
    BY <1>2, <1>3
  <2>2. \A p, q \in Seq(Cells) :
          /\ p \o q \in Seq(Cells) /\ Len(p \o q) = Len(p) + Len(q)
          /\ \A k \in 1 .. Len(p) + Len(q) : (p \o q)[k] = IF k <= Len(p) THEN p[k] ELSE q[k - Len(p)]
    OBVIOUS
  <2> HIDE DEF m
  <2>3. /\ zs \in Seq(Cells) /\ Len(zs) = Len(a) + Len(b)
        /\ \A k \in 1 .. Len(a) + Len(b) : zs[k] = IF k <= Len(a) THEN a[k] ELSE b[k - Len(a)]
    BY <2>1, <2>2, Zenon
  <2> HIDE DEF zs
  <2> QED
    BY <2>1, <2>3
<1>5. Erased(xs, first, last) = zs
  BY DEF Erased, a, b
<1> HIDE DEF zs, m
<1>6. Len(zs) = m - (last - first)
  BY <1>1, <1>4
<1>7. ASSUME NEW k \in 1 .. Len(zs) PROVE zs[k] = IF k <= first THEN xs[k] ELSE xs[k + (last - first)]
  <2>1. CASE k <= first
    BY <1>1, <1>2, <1>4, <2>1
  <2>2. CASE ~ (k <= first)
    <3>1. k - first \in 1 .. m - last /\ last + (k - first) = k + (last - first)
      BY <1>1, <1>4, <2>2
    <3> QED
      BY <1>3, <1>4, <2>2, <3>1
  <2> QED
    BY <2>1, <2>2
<1> QED
  BY <1>4, <1>5, <1>6, <1>7 DEF m

LEMMA SuffixIsList ==
    ASSUME NEW xs \in Seq(Cells), NEW last \in 0 .. Len(xs)
    PROVE  /\ SubSeq(xs, last + 1, Len(xs)) \in Seq(Cells)
           /\ Len(SubSeq(xs, last + 1, Len(xs))) = Len(xs) - last
           /\ \A j \in 1 .. Len(xs) - last : SubSeq(xs, last + 1, Len(xs))[j] = xs[last + j]
OBVIOUS

LEMMA SmallErased ==
    ASSUME NEW v, NEW xs, Holds("small", v, xs), NEW last \in 0 .. Len(xs), NEW first \in 0 .. last
    PROVE  Holds("small", smallErase(v, first, last), Erased(xs, first, last))
<1> DEFINE m == Len(xs)
           tail == SubSeq(xs, last + 1, m)
           u == Construct(v, first, tail)
           k == m - (last - first)
           zs == Erased(xs, first, last)
           ys == [j \in 1 .. m |-> IF j - first \in 1 .. m - last THEN tail[j - first] ELSE xs[j]]
<1>1. /\ m \in Nat /\ first \in Nat /\ last \in Nat /\ first <= last /\ last <= m
      /\ v.size = m /\ xs \in Seq(Cells) /\ v.cap \in Nat /\ m <= v.cap
      /\ IsShaped(v) /\ IsStored("small", v) /\ ElementsOf(v) = xs
      /\ \A i \in 0 .. v.cap - 1 : Read(v, i) = IF i < m THEN xs[i + 1] ELSE Raw
  <2>1. /\ m \in Nat /\ v.size = m /\ xs \in Seq(Cells) /\ v.cap \in Nat /\ m <= v.cap
        /\ IsShaped(v) /\ IsStored("small", v) /\ ElementsOf(v) = xs
        /\ \A i \in 0 .. v.cap - 1 : Read(v, i) = IF i < m THEN xs[i + 1] ELSE Raw
    BY HoldsFacts
  <2> HIDE DEF m
  <2>2. last \in 0 .. m
    BY DEF m
  <2> QED
    BY <2>1, <2>2
<1>2. smallErase(v, first, last) = Truncated(u, k)
  BY <1>1 DEF smallErase
<1>3. tail \in Seq(Cells) /\ Len(tail) = m - last /\ \A j \in 1 .. m - last : tail[j] = xs[last + j]
  <2>1. xs \in Seq(Cells) /\ last \in 0 .. Len(xs) /\ m = Len(xs)
    BY <1>1
  <2> HIDE DEF m, tail
  <2>2. tail = SubSeq(xs, last + 1, Len(xs))
    BY <2>1 DEF tail
  <2> QED
    BY <2>1, <2>2, SuffixIsList
<1> HIDE DEF tail
<1>4. ys \in Seq(Cells) /\ Len(ys) = m
  <2>1. \A j \in 1 .. m - last : tail[j] \in Cells
    BY <1>3
  <2>2. \A j \in 1 .. m : xs[j] \in Cells
    BY <1>1
  <2> HIDE DEF m
  <2>3. ys \in [1 .. m -> Cells]
    BY <2>1, <2>2
  <2> HIDE DEF ys
  <2> QED
    BY <1>1, <2>3, ListOf
<1>5. ASSUME NEW i \in 0 .. v.cap - 1
      PROVE  (IF i - first + 1 \in 1 .. Len(tail) THEN tail[i - first + 1] ELSE Read(v, i))
               = IF i < m THEN ys[i + 1] ELSE Raw
  <2> HIDE DEF m
  <2>1. i \in Nat /\ (i + 1) - first = i - first + 1
    BY <1>1
  <2>2. CASE i < m
    <3>1. i + 1 \in 1 .. m
      BY <1>1, <2>1, <2>2
    <3>2. ys[i + 1] = IF (i + 1) - first \in 1 .. m - last THEN tail[(i + 1) - first] ELSE xs[i + 1]
      BY <3>1
    <3> QED
      BY <1>1, <1>3, <2>1, <2>2, <3>2
  <2>3. CASE ~ (i < m)
    <3>1. i - first + 1 \notin 1 .. m - last
      BY <1>1, <2>1, <2>3
    <3> QED
      BY <1>1, <1>3, <2>3, <3>1
  <2> QED
    BY <2>2, <2>3
<1>6. u.size = m /\ [u EXCEPT !.size = m] = u
  <2>1. first \in Int
    BY <1>1
  <2>2. u.size = m /\ IsShaped(u)
    BY <1>1, <1>3, <2>1, ConstructEffect
  <2> HIDE DEF u
  <2> QED
    BY <2>2 DEF IsShaped, VectorRecords
<1>7. Holds("small", u, ys)
  <2> HIDE DEF ys, m
  <2>1. Holds("small", [Construct(v, first, tail) EXCEPT !.size = Len(ys)], ys)
    <3>1. first \in Int /\ Len(ys) <= v.cap
      BY <1>1, <1>4
    <3>2. \A i \in 0 .. v.cap - 1 :
            (IF i - first + 1 \in 1 .. Len(tail) THEN tail[i - first + 1] ELSE Read(v, i))
              = IF i < Len(ys) THEN ys[i + 1] ELSE Raw
      BY <1>4, <1>5, Zenon
    <3> QED
      BY <1>1, <1>3, <1>4, <3>1, <3>2, WrittenHolds, Zenon
  <2> QED
    BY <1>4, <1>6, <2>1
<1>8. k \in 0 .. Len(ys)
  BY <1>1, <1>4
<1>9. Holds("small", Truncated(u, k), SubSeq(ys, 1, k))
  <2> HIDE DEF u, k, ys
  <2> QED
    BY <1>7, <1>8, TruncatedHolds
<1>10. SubSeq(ys, 1, k) = zs
  <2>1. /\ zs \in Seq(Cells) /\ Len(zs) = k
        /\ \A j \in 1 .. k : zs[j] = IF j <= first THEN xs[j] ELSE xs[j + (last - first)]
    BY <1>1, ErasedList
  <2>2. k \in Nat /\ k <= m
    BY <1>1
  <2>3. ASSUME NEW j \in 1 .. k PROVE ys[j] = zs[j]
    <3> HIDE DEF zs, m
    <3>1. j \in 1 .. m /\ (j - first \in 1 .. m - last <=> ~ (j <= first)) /\ last + (j - first) = j + (last - first)
      BY <1>1, <2>2
    <3>2. ys[j] = IF j - first \in 1 .. m - last THEN tail[j - first] ELSE xs[j]
      BY <3>1
    <3> QED
      BY <1>3, <2>1, <3>1, <3>2
  <2>4. SubSeq(ys, 1, k) = [j \in 1 .. k |-> ys[j]]
    <3> HIDE DEF ys, k
    <3> QED
      BY <1>4, <2>2
  <2>5. zs = [j \in 1 .. k |-> zs[j]]
    <3> HIDE DEF zs, k
    <3> QED
      BY <2>1, <2>2
  <2> HIDE DEF zs, k, ys
  <2> QED
    BY <2>3, <2>4, <2>5, Zenon
<1> HIDE DEF k, u, zs, ys
<1> QED
  BY <1>2, <1>9, <1>10 DEF zs

\* A heap array changes hands; inline elements move one by one.
LEMMA MovedFrom ==
    ASSUME NEW v, Holds("small", v, << >>), ~OnHeap(v), NEW o, NEW ys, Holds("small", o, ys)
    PROVE  Holds("small", moveFrom(v, o)[1], ys) /\ Holds("small", moveFrom(v, o)[2], << >>)
<1>1. v \in VectorRecords /\ v.size = 0 /\ v.net = 0
  BY HoldsFacts, SmallOwns
<1>2. /\ o \in VectorRecords /\ IsStored("small", o) /\ ys \in Seq(Cells) /\ Len(ys) = o.size
      /\ o.size <= o.cap /\ ElementsOf(o) = ys
  BY HoldsFacts
<1>3. CASE OnHeap(o)
  <2> DEFINE p == [o EXCEPT !.net = v.net + 1]
             q == [resetInlinePointer(o) EXCEPT !.size = 0, !.net = @ - 1]
             t == [resetInlinePointer(o) EXCEPT !.size = 0, !.net = 0]
  <2>1. moveFrom(v, o) = <<p, q>>
    BY <1>3 DEF moveFrom
  <2>2. o.net = 1
    BY <1>2, <1>3, SmallOwns
  <2>3. p = o
    BY <1>1, <1>2, <2>2 DEF VectorRecords
  <2>4. q = t
    <3>1. resetInlinePointer(o).net = 1
      BY <1>2, <2>2, ResetKeeps
    <3> QED
      BY <3>1
  <2>5. t.size = 0 /\ IsBare(t)
    BY <1>2, ResetFields
  <2> HIDE DEF p, q, t
  <2>6. Holds("small", q, << >>)
    BY <2>4, <2>5, BareHolds
  <2> QED
    BY <2>1, <2>3, <2>6
<1>4. CASE ~OnHeap(o)
  <2> DEFINE e == [v EXCEPT !.size = 0]
             r == resetInlinePointer(e)
             p == Appended(r, ys)
             q == Truncated(o, 0)
  <2>1. moveFrom(v, o) = <<p, q>>
    BY <1>2, <1>4 DEF moveFrom
  <2>2. e \in VectorRecords /\ e.size = 0 /\ e.net = 0
    <3>1. e = v
      BY <1>1 DEF VectorRecords
    <3> QED
      BY <1>1, <3>1
  <2> HIDE DEF e
  <2>3. IsBare(r) /\ r.size = 0
    BY <2>2, ResetKeeps
  <2> HIDE DEF r
  <2>4. Holds("small", r, << >>) /\ r.cap = InlineCapacity
    BY <2>3, BareHolds
  <2>5. o.cap = InlineCapacity
    BY <1>2, <1>4 DEF IsStored
  <2>6. Len(<< >>) + Len(ys) <= r.cap /\ << >> \o ys = ys
    BY <1>2, <2>4, <2>5
  <2>7. Holds("small", p, ys)
    BY <1>2, <2>4, <2>6, AppendedHolds
  <2>8. Holds("small", q, << >>)
    <3>1. 0 \in 0 .. Len(ys) /\ SubSeq(ys, 1, 0) = << >>
      BY <1>2
    <3>2. Holds("small", Truncated(o, 0), SubSeq(ys, 1, 0))
      BY <3>1, TruncatedHolds, Zenon
    <3> QED
      BY <3>1, <3>2
  <2> HIDE DEF p, q
  <2> QED
    BY <2>1, <2>7, <2>8
<1> QED
  BY <1>3, <1>4

LEMMA SmallMoved ==
    ASSUME NEW v, NEW xs, Holds("small", v, xs), NEW o, NEW ys, Holds("small", o, ys)
    PROVE  Holds("small", smallMoveAssign(v, o)[1], ys) /\ Holds("small", smallMoveAssign(v, o)[2], << >>)
<1> DEFINE bare == Truncated(v, 0)
           r == releaseHeapStorage(bare)
<1>1. Holds("small", bare, << >>)
  <2>1. 0 \in 0 .. Len(xs) /\ SubSeq(xs, 1, 0) = << >>
    BY HoldsFacts
  <2>2. Holds("small", Truncated(v, 0), SubSeq(xs, 1, 0))
    BY <2>1, TruncatedHolds, Zenon
  <2> QED
    BY <2>1, <2>2
<1> HIDE DEF bare
<1>2. Holds("small", r, << >>) /\ ~OnHeap(r)
  BY <1>1, ReleasedHolds
<1>3. smallMoveAssign(v, o) = moveFrom(r, o)
  BY DEF smallMoveAssign, r, bare
<1> HIDE DEF r
<1> QED
  BY <1>2, <1>3, MovedFrom

LEMMA NewSmallHolds == Holds("small", NewSmall, << >>) /\ ~OnHeap(NewSmall)
<1> DEFINE bs == <<RawCells(InlineCapacity)>>
<1>1. InlineCapacity \in Nat \ {0} /\ InlineCapacity \in Nat /\ bs \in Seq(Seq(Cells))
  BY InlineRaw
<1>2. NewSmall = [where |-> "inline", blocks |-> bs, blockSize |-> InlineCapacity,
                  cap |-> InlineCapacity, size |-> 0, net |-> 0]
  BY DEF NewSmall
<1> HIDE DEF bs
<1>3. NewSmall \in VectorRecords
  BY <1>1, <1>2 DEF VectorRecords
<1>4. IsBare(NewSmall) /\ NewSmall.size = 0
  BY <1>2, <1>3 DEF IsBare, bs
<1> QED
  BY <1>4, BareHolds

LEMMA SmallSwapped ==
    ASSUME NEW v, NEW xs, Holds("small", v, xs), NEW o, NEW ys, Holds("small", o, ys)
    PROVE  Holds("small", smallSwap(v, o)[1], ys) /\ Holds("small", smallSwap(v, o)[2], xs)
<1>1. CASE OnHeap(v) /\ OnHeap(o)
  <2>1. smallSwap(v, o) = <<o, v>>
    BY <1>1 DEF smallSwap
  <2> QED
    BY <2>1
<1>2. CASE ~ (OnHeap(v) /\ OnHeap(o))
  <2> DEFINE first == moveFrom(NewSmall, o)
             second == smallMoveAssign(first[2], v)
             third == smallMoveAssign(second[2], first[1])
  <2>1. smallSwap(v, o) = <<third[1], second[1]>>
    BY <1>2 DEF smallSwap
  <2>2. Holds("small", first[1], ys) /\ Holds("small", first[2], << >>)
    BY NewSmallHolds, MovedFrom
  <2> HIDE DEF first
  <2>3. Holds("small", second[1], xs) /\ Holds("small", second[2], << >>)
    BY <2>2, SmallMoved
  <2> HIDE DEF second
  <2>4. Holds("small", third[1], ys)
    BY <2>2, <2>3, SmallMoved
  <2> HIDE DEF third
  <2> QED
    BY <2>1, <2>3, <2>4
<1> QED
  BY <1>1, <1>2

-----------------------------------------------------------------------------
(* HeapVector *)

LEMMA NewHeapHolds == Holds("heap", NewHeap, << >>) /\ NewHeap \in VectorRecords
<1>1. NewHeap \in VectorRecords
  <2>1. << >> \in Seq(Seq(Cells))
    OBVIOUS
  <2> QED
    BY <2>1 DEF NewHeap, VectorRecords
<1>2. /\ NewHeap.cap = 0 /\ NewHeap.size = 0 /\ NewHeap.net = 0 /\ NewHeap.blocks = << >>
      /\ NewHeap.where = "none" /\ NewHeap.blockSize = 1
  BY DEF NewHeap
<1>3. Len(NewHeap.blocks) = 0 /\ 0 .. NewHeap.cap - 1 = {}
  BY <1>2
<1>4. IsShaped(NewHeap)
  BY <1>1, <1>2, <1>3 DEF IsShaped
<1>5. HoldsExactly(NewHeap, << >>)
  <2>1. << >> \in Seq(Cells) /\ Len(<< >>) = 0
    OBVIOUS
  <2>2. \A i \in 0 .. NewHeap.cap - 1 : FALSE
    BY <1>3
  <2> QED
    BY <1>2, <1>4, <2>1, <2>2, Zenon DEF HoldsExactly
<1>6. IsStored("heap", NewHeap)
  BY <1>2, <1>3 DEF IsStored, OnHeap
<1> QED
  BY <1>1, <1>5, <1>6 DEF Holds

\* The array of a HeapVector is given back.
LEMMA FreedIsNew ==
    ASSUME NEW v, NEW xs, Holds("heap", v, xs)
    PROVE  Freed(v) = NewHeap /\ Freed(v).net = 0
<1>1. IsStored("heap", v) /\ v.net \in Int
  BY HoldsFacts
<1>2. (IF OnHeap(v) THEN v.net - 1 ELSE v.net) = 0
  <2>1. OnHeap(v) => Len(v.blocks) = 1
    BY <1>1 DEF IsStored
  <2>2. v.net = IF OnHeap(v) THEN Len(v.blocks) ELSE 0
    BY <1>1 DEF IsStored
  <2> QED
    BY <1>1, <2>1, <2>2
<1>3. Freed(v) = [NewHeap EXCEPT !.net = 0]
  BY <1>2 DEF Freed
<1>4. NewHeap.net = 0 /\ [NewHeap EXCEPT !.net = 0] = NewHeap
  BY DEF NewHeap
<1> QED
  BY <1>3, <1>4

\* A power of two reaches its exponent.
LEMMA PowerReaches ==
    ASSUME NEW n \in Nat
    PROVE  2^n \in Nat \ {0} /\ 2^n >= n
<1>1. 2^n \in Nat \ {0}
  BY PowerPositive
<1>2. 2^n >= n
  <2> DEFINE f == [k \in 1 .. n |-> {k}]
  <2>1. f \in Injection(1 .. n, SUBSET (1 .. n))
    BY Fun_IsInj
  <2>2. Cardinality(1 .. n) <= Cardinality(SUBSET (1 .. n))
    BY <2>1, PowerCounts, FS_Injection
  <2>3. 1 \in Int /\ n \in Int /\ (IF 1 > n THEN 0 ELSE n - 1 + 1) = n
    OBVIOUS
  <2>4. Cardinality(1 .. n) = n
    BY <2>3, FS_Interval
  <2> QED
    BY <2>2, <2>4, PowerCounts
<1> QED
  BY <1>1, <1>2

LEMMA HeapEnsured ==
    ASSUME NEW v, NEW xs, Holds("heap", v, xs), NEW n \in Nat
    PROVE  LET w == heapEnsureCapacityFor(v, n)
           IN  Holds("heap", w, xs) /\ n <= w.cap /\ w.size = v.size
<1>1. v.cap \in Nat /\ v.size \in Nat /\ v.size <= v.cap /\ Len(xs) = v.size
  BY HoldsFacts
<1>2. CASE n <= v.cap
  BY <1>2 DEF heapEnsureCapacityFor
<1>3. CASE ~ (n <= v.cap)
  <2> DEFINE from == IF v.cap = 0 THEN 1 ELSE v.cap
             large == {k \in 0 .. n : from * 2^k >= n}
             least == Min(large)
             m == from * 2^least
             w == Reallocated(v, m)
  <2>1. from \in Nat \ {0}
    BY <1>1
  <2> HIDE DEF from
  <2>2. n \in large
    <3>1. 2^n \in Nat /\ 2^n >= n
      BY PowerReaches
    <3>2. \A p \in Nat : p >= n => from * p >= n
      <4> SUFFICES ASSUME NEW p \in Nat, p >= n PROVE from * p >= n
        OBVIOUS
      <4>1. from * p >= 1 * p /\ 1 * p = p /\ from * p \in Nat
        BY <2>1
      <4> QED
        BY <4>1
    <3> QED
      BY <3>1, <3>2
  <2>3. large \in SUBSET Nat
    OBVIOUS
  <2>4. \E k \in large : \A j \in large : k <= j
    <3> HIDE DEF large
    <3> QED
      BY <2>2, <2>3, LeastNat
  <2>5. least \in large
    <3> HIDE DEF large
    <3> QED
      BY <2>4 DEF Min
  <2>6. m \in Nat \ {0} /\ m >= n
    <3>1. least \in Nat /\ m >= n
      BY <2>3, <2>5
    <3>2. 2^least \in Nat \ {0}
      <4> HIDE DEF least
      <4> QED
        BY <3>1, PowerPositive
    <3>3. \A x, y \in Nat \ {0} : x * y \in Nat \ {0}
      OBVIOUS
    <3> QED
      BY <2>1, <3>1, <3>2, <3>3
  <2>7. heapEnsureCapacityFor(v, n) = w
    BY <1>3 DEF heapEnsureCapacityFor, from
  <2> HIDE DEF m
  <2>8. Len(xs) <= m /\ n <= m
    BY <1>1, <1>3, <2>6
  <2>9. Holds("heap", w, xs) /\ w.cap = m
    BY <2>6, <2>8, ReallocatedHolds
  <2> HIDE DEF w
  <2>10. Len(xs) = w.size
    BY <2>9, HoldsFacts
  <2> QED
    BY <1>1, <2>7, <2>8, <2>9, <2>10
<1> QED
  BY <1>2, <1>3

\* A vector with room grows to n elements.
LEMMA Grown ==
    ASSUME NEW kind, NEW v, NEW xs, Holds(kind, v, xs), NEW n \in Nat, NEW x \in VectorValues,
           Len(xs) <= n, n <= v.cap
    PROVE  Holds(kind, Appended(v, Copies(n - Len(xs), x)), Resized(xs, n, x))
<1> DEFINE ys == Copies(n - Len(xs), x)
<1>1. xs \in Seq(Cells) /\ Len(xs) \in Nat
  BY HoldsFacts
<1>2. ys \in Seq(Cells) /\ Len(ys) = n - Len(xs)
  <2>1. n - Len(xs) \in Nat
    BY <1>1
  <2> QED
    BY <2>1, CopiesList
<1>3. Resized(xs, n, x) = xs \o ys
  <2>1. CASE n = Len(xs)
    <3>1. SubSeq(xs, 1, n) = xs /\ n <= Len(xs)
      BY <1>1, <2>1
    <3>2. ys = << >>
      BY <1>1, <1>2, <2>1
    <3>3. xs \o << >> = xs
      BY <1>1
    <3> QED
      BY <3>1, <3>2, <3>3 DEF Resized
  <2>2. CASE n # Len(xs)
    BY <1>1, <2>2 DEF Resized
  <2> QED
    BY <2>1, <2>2
<1> HIDE DEF ys
<1>4. Len(xs) + Len(ys) <= v.cap
  BY <1>1, <1>2
<1>5. Holds(kind, Appended(v, ys), xs \o ys)
  BY <1>2, <1>4, AppendedHolds
<1> QED
  BY <1>3, <1>5 DEF ys

LEMMA HeapResized ==
    ASSUME NEW v, NEW xs, Holds("heap", v, xs), NEW n \in Nat, NEW x \in VectorValues
    PROVE  Holds("heap", heapResize(v, n, x), Resized(xs, n, x))
<1>1. v.size \in Nat /\ Len(xs) = v.size
  BY HoldsFacts
<1>2. CASE n < v.size
  <2>1. n \in 0 .. Len(xs) /\ n <= Len(xs)
    BY <1>1, <1>2
  <2>2. Holds("heap", Truncated(v, n), SubSeq(xs, 1, n))
    BY <2>1, TruncatedHolds
  <2> QED
    BY <1>2, <2>1, <2>2 DEF heapResize, Resized
<1>3. CASE ~ (n < v.size)
  <2> DEFINE r == heapEnsureCapacityFor(v, n)
  <2>1. heapResize(v, n, x) = Appended(r, Copies(n - Len(xs), x))
    BY <1>1, <1>3 DEF heapResize
  <2>2. Holds("heap", r, xs) /\ n <= r.cap
    BY HeapEnsured
  <2> HIDE DEF r
  <2>3. Len(xs) <= n
    BY <1>1, <1>3
  <2> QED
    BY <2>1, <2>2, <2>3, Grown
<1> QED
  BY <1>2, <1>3

LEMMA HeapShrunk ==
    ASSUME NEW v, NEW xs, Holds("heap", v, xs)
    PROVE  Holds("heap", heapShrinkToFit(v), xs)
<1>1. v.size \in Nat /\ Len(xs) = v.size
  BY HoldsFacts
<1>2. CASE v.size = v.cap
  BY <1>2 DEF heapShrinkToFit
<1>3. CASE v.size # v.cap /\ v.size = 0
  <2>1. xs = << >>
    BY <1>3, NoneHeld
  <2> QED
    BY <1>3, <2>1, FreedIsNew, NewHeapHolds DEF heapShrinkToFit
<1>4. CASE v.size # v.cap /\ v.size # 0
  <2>1. v.size \in Nat \ {0} /\ Len(xs) <= v.size
    BY <1>1, <1>4
  <2> QED
    BY <1>4, <2>1, ReallocatedHolds DEF heapShrinkToFit
<1> QED
  BY <1>2, <1>3, <1>4

\* A source that fits is copied over the elements in place.
LEMMA CopiedOver ==
    ASSUME NEW v, NEW xs, Holds("heap", v, xs), NEW ys \in Seq(Cells), Len(ys) <= v.cap
    PROVE  LET over == Construct(v, 0, ys)
           IN  Holds("heap", IF Len(ys) < v.size THEN Truncated(over, Len(ys))
                             ELSE [over EXCEPT !.size = Len(ys)], ys)
<1> DEFINE m == Len(xs)
           n == Len(ys)
           over == Construct(v, 0, ys)
<1>1. /\ m \in Nat /\ n \in Nat /\ v.size = m /\ v.cap \in Nat /\ m <= v.cap /\ xs \in Seq(Cells)
      /\ IsShaped(v) /\ IsStored("heap", v)
      /\ \A i \in 0 .. v.cap - 1 : Read(v, i) = IF i < m THEN xs[i + 1] ELSE Raw
  BY HoldsFacts
<1>2. CASE n < m
  <2> DEFINE zs == [j \in 1 .. m |-> IF j <= n THEN ys[j] ELSE xs[j]]
  <2>1. zs \in Seq(Cells) /\ Len(zs) = m
    <3>1. \A j \in 1 .. n : ys[j] \in Cells
      OBVIOUS
    <3>2. \A j \in 1 .. m : xs[j] \in Cells
      BY <1>1
    <3> HIDE DEF m, n
    <3>3. zs \in [1 .. m -> Cells]
      BY <1>1, <3>1, <3>2
    <3> HIDE DEF zs
    <3> QED
      BY <1>1, <3>3, ListOf
  <2>2. ASSUME NEW i \in 0 .. v.cap - 1
        PROVE  (IF i - 0 + 1 \in 1 .. n THEN ys[i - 0 + 1] ELSE Read(v, i))
                 = IF i < m THEN zs[i + 1] ELSE Raw
    <3> HIDE DEF m, n
    <3>1. i \in Nat /\ i - 0 + 1 = i + 1
      BY <1>1
    <3>2. i < m => zs[i + 1] = IF i + 1 <= n THEN ys[i + 1] ELSE xs[i + 1]
      <4> SUFFICES ASSUME i < m PROVE zs[i + 1] = IF i + 1 <= n THEN ys[i + 1] ELSE xs[i + 1]
        OBVIOUS
      <4>1. i + 1 \in 1 .. m
        BY <1>1, <3>1
      <4> QED
        BY <4>1
    <3> HIDE DEF zs
    <3> QED
      BY <1>1, <1>2, <3>1, <3>2
  <2> HIDE DEF zs
  <2>3. Holds("heap", [over EXCEPT !.size = Len(zs)], zs)
    <3>1. 0 \in Int /\ Len(zs) <= v.cap
      BY <1>1, <2>1
    <3>2. \A i \in 0 .. v.cap - 1 :
            (IF i - 0 + 1 \in 1 .. Len(ys) THEN ys[i - 0 + 1] ELSE Read(v, i))
              = IF i < Len(zs) THEN zs[i + 1] ELSE Raw
      BY <2>1, <2>2, Zenon
    <3> QED
      BY <1>1, <2>1, <3>1, <3>2, WrittenHolds, Zenon
  <2>4. [over EXCEPT !.size = Len(zs)] = over
    <3>1. over.size = m /\ IsShaped(over)
      <4>1. 0 \in Int
        OBVIOUS
      <4> QED
        BY <1>1, <4>1, ConstructEffect, Zenon
    <3> HIDE DEF over
    <3> QED
      BY <2>1, <3>1 DEF IsShaped, VectorRecords
  <2>5. n \in 0 .. Len(zs)
    BY <1>1, <1>2, <2>1
  <2> HIDE DEF over
  <2>6. Holds("heap", Truncated(over, n), SubSeq(zs, 1, n))
    <3> HIDE DEF n
    <3> QED
      BY <2>3, <2>4, <2>5, TruncatedHolds
  <2>7. SubSeq(zs, 1, n) = ys
    <3>1. \A j \in 1 .. n : zs[j] = ys[j]
      <4> SUFFICES ASSUME NEW j \in 1 .. n PROVE zs[j] = ys[j]
        OBVIOUS
      <4>1. j \in 1 .. m /\ j <= n
        BY <1>1, <1>2
      <4> QED
        BY <4>1 DEF zs
    <3>2. SubSeq(zs, 1, n) = [j \in 1 .. n |-> zs[j]]
      BY <1>1, <1>2, <2>1
    <3>3. ys = [j \in 1 .. n |-> ys[j]]
      OBVIOUS
    <3> HIDE DEF n
    <3> QED
      BY <3>1, <3>2, <3>3, Zenon
  <2> QED
    BY <1>1, <1>2, <2>6, <2>7 DEF over
<1>3. CASE ~ (n < m)
  <2>1. Holds("heap", [over EXCEPT !.size = Len(ys)], ys)
    <3>1. 0 \in Int
      OBVIOUS
    <3>2. ASSUME NEW i \in 0 .. v.cap - 1
          PROVE  (IF i - 0 + 1 \in 1 .. Len(ys) THEN ys[i - 0 + 1] ELSE Read(v, i))
                   = IF i < Len(ys) THEN ys[i + 1] ELSE Raw
      <4> HIDE DEF m
      <4>1. i \in Nat /\ i - 0 + 1 = i + 1
        BY <1>1
      <4>2. Read(v, i) = IF i < m THEN xs[i + 1] ELSE Raw
        BY <1>1
      <4>3. i - 0 + 1 \in 1 .. Len(ys) <=> i < Len(ys)
        BY <1>1, <4>1
      <4>4. ~ (i < Len(ys)) => ~ (i < m)
        BY <1>1, <1>3, <4>1
      <4> QED
        BY <4>1, <4>2, <4>3, <4>4
    <3> QED
      BY <1>1, <3>1, <3>2, WrittenHolds, Zenon
  <2> QED
    BY <1>1, <1>3, <2>1
<1> QED
  BY <1>2, <1>3

LEMMA HeapCopied ==
    ASSUME NEW v, NEW xs, Holds("heap", v, xs), NEW o, NEW ys, Holds("heap", o, ys)
    PROVE  Holds("heap", heapCopyAssign(v, o), ys)
<1>1. /\ ElementsOf(o) = ys /\ ys \in Seq(Cells) /\ Len(ys) = o.size /\ o.size \in Nat
      /\ v.size \in Nat /\ v.cap \in Nat
  BY HoldsFacts
<1>2. CASE o.size = 0
  <2>1. ys = << >>
    BY <1>2, NoneHeld
  <2> QED
    BY <1>2, <2>1, FreedIsNew, NewHeapHolds DEF heapCopyAssign
<1>3. CASE o.size # 0 /\ v.cap < o.size
  <2> DEFINE bs == <<ys>>
             w == [where |-> "heap", blocks |-> bs, blockSize |-> o.size, cap |-> o.size,
                   size |-> o.size, net |-> 1]
  <2>1. heapCopyAssign(v, o) = w
    <3>1. Freed(v).net + 1 = 1
      BY FreedIsNew
    <3>2. heapCopyAssign(v, o) = [where |-> "heap", blocks |-> bs, blockSize |-> o.size, cap |-> o.size,
                                  size |-> o.size, net |-> Freed(v).net + 1]
      BY <1>1, <1>3 DEF heapCopyAssign
    <3> QED
      BY <3>1, <3>2, Zenon
  <2>2. bs \in Seq(Seq(Cells))
    BY <1>1
  <2> HIDE DEF bs
  <2>3. w \in VectorRecords
    BY <1>1, <1>3, <2>2 DEF VectorRecords
  <2>4. /\ w.where = "heap" /\ w.blocks = bs /\ w.blockSize = Len(ys) /\ w.cap = Len(ys)
        /\ w.size = Len(ys) /\ w.net = 1
    BY <1>1
  <2> HIDE DEF w
  <2>5. w.size <= Len(ys)
    BY <1>1, <2>4
  <2>6. IsShaped(w) /\ Len(w.blocks) = 1 /\ \A i \in 0 .. w.cap - 1 : Read(w, i) = ys[i + 1]
    BY <1>1, <2>3, <2>4, <2>5, OneArray DEF bs
  <2>7. \A i \in 0 .. w.cap - 1 : i < w.size
    BY <1>1, <2>4
  <2>8. HoldsExactly(w, ys)
    BY <1>1, <2>4, <2>6, <2>7 DEF HoldsExactly
  <2>9. IsStored("heap", w)
    BY <2>4, <2>6 DEF IsStored, OnHeap
  <2> QED
    BY <2>1, <2>8, <2>9 DEF Holds
<1>4. CASE o.size # 0 /\ ~ (v.cap < o.size)
  <2> DEFINE over == Construct(v, 0, ys)
             w == IF Len(ys) < v.size THEN Truncated(over, Len(ys)) ELSE [over EXCEPT !.size = Len(ys)]
  <2>1. heapCopyAssign(v, o) = w
    BY <1>1, <1>4 DEF heapCopyAssign
  <2>2. Len(ys) <= v.cap
    BY <1>1, <1>4
  <2>3. Holds("heap", w, ys)
    BY <1>1, <2>2, CopiedOver, Zenon
  <2> QED
    BY <2>1, <2>3
<1> QED
  BY <1>2, <1>3, <1>4

LEMMA HeapMoved ==
    ASSUME NEW v, NEW xs, Holds("heap", v, xs), NEW o, NEW ys, Holds("heap", o, ys)
    PROVE  Holds("heap", heapMoveAssign(v, o)[1], ys) /\ Holds("heap", heapMoveAssign(v, o)[2], << >>)
<1> DEFINE gone == IF OnHeap(o) THEN 1 ELSE 0
           p == [o EXCEPT !.net = Freed(v).net + gone]
           q == [NewHeap EXCEPT !.net = o.net - gone]
<1>1. o \in VectorRecords /\ IsStored("heap", o)
  BY HoldsFacts
<1>2. o.net = gone
  BY <1>1 DEF IsStored
<1>3. Freed(v).net = 0
  BY FreedIsNew
<1>4. gone \in Int /\ 0 + gone = gone /\ gone - gone = 0
  OBVIOUS
<1>5. heapMoveAssign(v, o) = <<p, q>>
  BY DEF heapMoveAssign
<1> HIDE DEF gone
<1>6. p = o
  <2>1. Freed(v).net + gone = o.net
    BY <1>2, <1>3, <1>4
  <2> QED
    BY <1>1, <2>1 DEF VectorRecords
<1>7. q = NewHeap
  <2>1. o.net - gone = 0
    BY <1>2, <1>4
  <2>2. NewHeap.net = 0
    BY DEF NewHeap
  <2> QED
    BY <2>1, <2>2 DEF NewHeap
<1> HIDE DEF p, q
<1> QED
  BY <1>5, <1>6, <1>7, NewHeapHolds

-----------------------------------------------------------------------------
(* RuntimeBlockVector *)

\* A RuntimeBlockVector without elements, of "count" raw blocks.
LEMMA RawBlocksHold ==
    ASSUME NEW w \in VectorRecords, NEW count \in Nat, w.where = "heap",
           w.blocks = [k \in 1 .. count |-> RawCells(w.blockSize)],
           w.cap = count * w.blockSize, w.size = 0, w.net = count
    PROVE  Holds("block", w, << >>) /\ Len(w.blocks) = count
<1> DEFINE s == w.blockSize
           cs == RawCells(s)
<1>1. s \in Nat \ {0} /\ w.cap \in Nat
  BY DEF VectorRecords
<1>2. cs \in Seq(Cells) /\ Len(cs) = s /\ \A k \in 1 .. s : cs[k] = Raw
  BY <1>1, RawList DEF RawCells
<1> HIDE DEF cs
<1>3. w.blocks = [k \in 1 .. count |-> cs]
  BY DEF cs
<1>4. Len(w.blocks) = count /\ DOMAIN w.blocks = 1 .. count
  <2>1. [k \in 1 .. count |-> cs] \in [1 .. count -> Seq(Cells)]
    BY <1>2
  <2> QED
    BY <1>3, <2>1, ListOf
<1>5. \A b \in 1 .. count : w.blocks[b] = cs
  BY <1>3
<1>6. IsShaped(w)
  BY <1>1, <1>2, <1>4, <1>5 DEF IsShaped
<1>7. ASSUME NEW i \in 0 .. w.cap - 1 PROVE Read(w, i) = Raw /\ ~ (i < w.size)
  <2> DEFINE b == ptrAt(w, i)[1]
             c == ptrAt(w, i)[2]
  <2>1. b \in DOMAIN w.blocks /\ c \in DOMAIN w.blocks[b]
    BY <1>6, CellExists
  <2>2. Read(w, i) = w.blocks[b][c]
    BY DEF Read
  <2> HIDE DEF b, c
  <2>3. w.blocks[b] = cs /\ c \in 1 .. s
    BY <1>2, <1>4, <1>5, <2>1
  <2>4. ~ (i < w.size)
    BY <1>1
  <2> QED
    BY <1>2, <2>2, <2>3, <2>4
<1>8. HoldsExactly(w, << >>)
  <2>1. << >> \in Seq(Cells) /\ Len(<< >>) = 0
    OBVIOUS
  <2> QED
    BY <1>6, <1>7, <2>1, Zenon DEF HoldsExactly
<1>9. IsStored("block", w)
  BY <1>4 DEF IsStored, OnHeap
<1> QED
  BY <1>4, <1>8, <1>9 DEF Holds

\* A RuntimeBlockVector without blocks.
LEMMA NoBlocksHold ==
    ASSUME NEW w \in VectorRecords, w.where = "heap", w.blocks = << >>, w.cap = 0, w.size = 0, w.net = 0
    PROVE  Holds("block", w, << >>)
<1>1. 0 \in Nat /\ [k \in 1 .. 0 |-> RawCells(w.blockSize)] = << >>
  OBVIOUS
<1>2. w.cap = 0 * w.blockSize
  BY DEF VectorRecords
<1> QED
  BY <1>1, <1>2, RawBlocksHold

\* The least number of blocks for n elements.
LEMMA BlocksEnough ==
    ASSUME NEW n \in Nat, NEW s \in Nat \ {0}
    PROVE  BlocksFor(n, s) \in Nat /\ BlocksFor(n, s) * s >= n
<1> DEFINE q == (n + s - 1) \div s
           r == (n + s - 1) % s
<1>1. n + s - 1 \in Nat
  OBVIOUS
<1>2. q \in Nat /\ r \in 0 .. s - 1 /\ n + s - 1 = s * q + r
  <2>1. \A m \in Nat : /\ m \div s \in Nat /\ m % s \in 0 .. s - 1
                       /\ m = s * (m \div s) + (m % s)
    OBVIOUS
  <2> QED
    BY <1>1, <2>1, Zenon
<1> HIDE DEF q, r
<1>3. s * q = q * s /\ q * s \in Int
  BY <1>2
<1>4. q * s >= n
  BY <1>2, <1>3
<1> QED
  BY <1>2, <1>4 DEF q, BlocksFor

LEMMA BlockEnsured ==
    ASSUME NEW v, NEW xs, Holds("block", v, xs), NEW n \in Nat
    PROVE  LET w == blockEnsureCapacityFor(v, n)
           IN  Holds("block", w, xs) /\ n <= w.cap /\ w.size = v.size
<1>1. /\ v \in VectorRecords /\ IsShaped(v) /\ IsStored("block", v)
      /\ v.cap \in Nat /\ v.size \in Nat /\ v.size <= v.cap /\ Len(xs) = v.size /\ xs \in Seq(Cells)
      /\ v.blockSize \in Nat \ {0} /\ v.blocks \in Seq(Seq(Cells)) /\ Len(v.blocks) \in Nat
      /\ \A i \in 0 .. v.cap - 1 : Read(v, i) = IF i < v.size THEN xs[i + 1] ELSE Raw
  BY HoldsFacts
<1>2. CASE n <= v.cap
  BY <1>2 DEF blockEnsureCapacityFor
<1>3. CASE ~ (n <= v.cap)
  <2> DEFINE s == v.blockSize
             old == Len(v.blocks)
             all == BlocksFor(n, s)
             more == all - old
             cs == RawCells(s)
             added == [k \in 1 .. more |-> cs]
             blocks == v.blocks \o added
             w == [v EXCEPT !.blocks = blocks, !.cap = Len(blocks) * s, !.net = v.net + more]
  <2>1. blockEnsureCapacityFor(v, n) = w
    BY <1>3 DEF blockEnsureCapacityFor
  <2>2. v.cap = old * s /\ v.net = old /\ v.where = "heap"
    BY <1>1 DEF IsShaped, IsStored, OnHeap
  <2>3. all \in Nat /\ all * s >= n
    BY <1>1, BlocksEnough
  <2>4. cs \in Seq(Cells) /\ Len(cs) = s /\ \A k \in 1 .. s : cs[k] = Raw
    BY <1>1, RawList DEF RawCells
  <2> HIDE DEF cs, all, s
  <2>5. s \in Nat \ {0} /\ old \in Nat
    BY <1>1 DEF s
  <2> HIDE DEF old
  <2>6. old < all
    <3> SUFFICES ASSUME all <= old PROVE FALSE
      BY <2>3, <2>5
    <3>1. all * s <= old * s
      BY <2>3, <2>5
    <3>2. all * s \in Int /\ old * s \in Int
      BY <2>3, <2>5
    <3> QED
      BY <1>3, <2>2, <2>3, <3>1, <3>2
  <2>7. more \in Nat
    BY <2>3, <2>5, <2>6
  <2>8. added \in Seq(Seq(Cells)) /\ Len(added) = more /\ \A k \in 1 .. more : added[k] = cs
    <3> HIDE DEF more
    <3>1. added \in [1 .. more -> Seq(Cells)]
      BY <2>4
    <3> QED
      BY <2>7, <3>1, ListOf
  <2> HIDE DEF added
  <2>9. /\ blocks \in Seq(Seq(Cells)) /\ Len(blocks) = all /\ DOMAIN blocks = 1 .. all
        /\ \A b \in 1 .. all : blocks[b] = IF b <= old THEN v.blocks[b] ELSE cs
    <3>1. \A p, q \in Seq(Seq(Cells)) :
            /\ p \o q \in Seq(Seq(Cells)) /\ Len(p \o q) = Len(p) + Len(q)
            /\ DOMAIN (p \o q) = 1 .. Len(p) + Len(q)
            /\ \A k \in 1 .. Len(p) + Len(q) : (p \o q)[k] = IF k <= Len(p) THEN p[k] ELSE q[k - Len(p)]
      OBVIOUS
    <3>2. Len(v.blocks) = old
      BY DEF old
    <3>3. old + more = all /\ \A b \in 1 .. all : ~ (b <= old) => b - old \in 1 .. more
      BY <2>3, <2>5, <2>7
    <3>4. /\ blocks \in Seq(Seq(Cells)) /\ Len(blocks) = old + more
          /\ DOMAIN blocks = 1 .. old + more
          /\ \A k \in 1 .. old + more : blocks[k] = IF k <= old THEN v.blocks[k] ELSE added[k - old]
      <4> HIDE DEF more
      <4> QED
        BY <1>1, <2>8, <3>1, <3>2, Zenon
    <3> HIDE DEF blocks, more
    <3>5. \A b \in 1 .. all : blocks[b] = IF b <= old THEN v.blocks[b] ELSE cs
      BY <2>8, <3>3, <3>4
    <3> QED
      BY <3>3, <3>4, <3>5
  <2> HIDE DEF blocks
  <2>10. v.net + more = all /\ all * s \in Nat /\ all \in Int
    <3>1. v.net + more = all
      BY <2>2, <2>3, <2>5
    <3>2. all * s \in Nat
      BY <2>3, <2>5
    <3> QED
      BY <2>3, <3>1, <3>2
  <2>11. w = [v EXCEPT !.blocks = blocks, !.cap = all * s, !.net = all]
    BY <2>9, <2>10
  <2> HIDE DEF w, more
  <2>12. /\ w \in VectorRecords /\ w.where = "heap" /\ w.blocks = blocks /\ w.blockSize = s
         /\ w.cap = all * s /\ w.size = v.size /\ w.net = all
    <3> DEFINE cap == all * s
    <3>1. cap \in Nat /\ w = [v EXCEPT !.blocks = blocks, !.cap = cap, !.net = all]
      BY <2>10, <2>11
    <3> HIDE DEF cap
    <3>2. /\ w \in VectorRecords /\ w.where = v.where /\ w.blocks = blocks /\ w.blockSize = v.blockSize
          /\ w.cap = cap /\ w.size = v.size /\ w.net = all
      BY <1>1, <2>9, <2>10, <3>1 DEF VectorRecords
    <3> QED
      BY <2>2, <3>2 DEF cap, s
  <2>13. v.cap <= w.cap /\ n <= w.cap /\ w.cap \in Nat
    BY <1>1, <1>3, <2>3, <2>10, <2>12
  <2>14. IsShaped(w)
    <3>1. ASSUME NEW b \in 1 .. all PROVE Len(blocks[b]) = s
      <4>1. CASE b <= old
        <5>1. b \in 1 .. Len(v.blocks)
          BY <2>5, <4>1 DEF old
        <5> QED
          BY <1>1, <2>9, <4>1, <5>1 DEF IsShaped, s
      <4>2. CASE ~ (b <= old)
        BY <2>4, <2>9, <4>2
      <4> QED
        BY <4>1, <4>2
    <3>2. w.size <= w.cap
      BY <1>1, <2>12, <2>13
    <3> QED
      BY <2>9, <2>12, <3>1, <3>2 DEF IsShaped
  <2>15. ASSUME NEW i \in 0 .. w.cap - 1 PROVE Read(w, i) = IF i < w.size THEN xs[i + 1] ELSE Raw
    <3> DEFINE b == ptrAt(w, i)[1]
               c == ptrAt(w, i)[2]
    <3>1. /\ b \in DOMAIN w.blocks /\ c \in DOMAIN w.blocks[b] /\ b \in Int /\ c \in Int
          /\ (b - 1) * w.blockSize + c = i + 1
      BY <2>14, CellExists
    <3>2. Read(w, i) = w.blocks[b][c]
      BY DEF Read
    <3>3. Read(v, i) = v.blocks[b][c]
      BY <2>12 DEF Read, ptrAt, s
    <3> HIDE DEF b, c
    <3>4. b \in 1 .. all
      BY <2>9, <2>12, <3>1
    <3>5. i \in Nat
      BY <2>13
    <3>6. CASE b <= old
      <4>1. c \in 1 .. s
        <5>1. w.blocks[b] \in Seq(Cells) /\ Len(w.blocks[b]) = s
          BY <2>9, <2>12, <2>14, <3>4 DEF IsShaped
        <5> QED
          BY <3>1, <5>1
      <4>2. i + 1 <= old * s
        <5>1. (b - 1) * s + s = b * s /\ b * s <= old * s /\ (b - 1) * s \in Int /\ b * s \in Int /\ old * s \in Int
          <6>1. \A x, y \in Nat : x <= y => x * s <= y * s /\ x * s \in Int /\ y * s \in Int
            BY <2>5
          <6>2. b \in Nat /\ (b - 1) * s + s = b * s /\ (b - 1) * s \in Int
            BY <2>5, <3>4
          <6> QED
            BY <2>5, <3>6, <6>1, <6>2
        <5> DEFINE x == (b - 1) * s
                   y == b * s
                   z == old * s
        <5>2. x + c = i + 1 /\ x + s = y /\ y <= z /\ x \in Int /\ y \in Int /\ z \in Int
          BY <2>12, <3>1, <5>1
        <5> HIDE DEF x, y, z
        <5>3. i + 1 <= z
          BY <2>5, <3>5, <4>1, <5>2
        <5> QED
          BY <5>3 DEF z
      <4>3. i \in 0 .. v.cap - 1
        BY <1>1, <2>2, <3>5, <4>2
      <4>4. Read(w, i) = Read(v, i)
        BY <2>9, <2>12, <3>2, <3>3, <3>4, <3>6
      <4> QED
        BY <1>1, <2>12, <4>3, <4>4
    <3>7. CASE ~ (b <= old)
      <4>1. w.blocks[b] = cs
        BY <2>9, <2>12, <3>4, <3>7
      <4>2. Read(w, i) = Raw /\ c \in 1 .. s
        BY <2>4, <3>1, <3>2, <4>1
      <4>3. v.cap <= i
        <5>1. old * s <= (b - 1) * s /\ (b - 1) * s \in Int /\ old * s \in Int
          <6>1. \A x, y \in Nat : x <= y => x * s <= y * s /\ x * s \in Int /\ y * s \in Int
            BY <2>5
          <6>2. b - 1 \in Nat /\ old <= b - 1
            BY <2>5, <3>4, <3>7
          <6> QED
            BY <2>5, <6>1, <6>2
        <5> DEFINE x == (b - 1) * s
                   z == old * s
        <5>2. x + c = i + 1 /\ z <= x /\ x \in Int /\ z \in Int /\ v.cap = z
          BY <2>2, <2>12, <3>1, <5>1
        <5> HIDE DEF x, z
        <5> QED
          BY <2>5, <3>5, <4>2, <5>2
      <4> QED
        BY <1>1, <2>12, <3>5, <4>2, <4>3
    <3> QED
      BY <3>6, <3>7
  <2>16. HoldsExactly(w, xs)
    BY <1>1, <2>12, <2>14, <2>15 DEF HoldsExactly
  <2>17. IsStored("block", w)
    BY <2>9, <2>12 DEF IsStored, OnHeap
  <2> QED
    BY <2>1, <2>12, <2>13, <2>16, <2>17 DEF Holds
<1> QED
  BY <1>2, <1>3

LEMMA BlockResized ==
    ASSUME NEW v, NEW xs, Holds("block", v, xs), NEW n \in Nat, NEW x \in VectorValues
    PROVE  Holds("block", blockResize(v, n, x), Resized(xs, n, x))
<1>1. v.size \in Nat /\ Len(xs) = v.size
  BY HoldsFacts
<1>2. CASE n < v.size
  <2>1. n \in 0 .. Len(xs) /\ n <= Len(xs)
    BY <1>1, <1>2
  <2>2. Holds("block", Truncated(v, n), SubSeq(xs, 1, n))
    BY <2>1, TruncatedHolds
  <2> QED
    BY <1>2, <2>1, <2>2 DEF blockResize, Resized
<1>3. CASE ~ (n < v.size)
  <2> DEFINE r == blockEnsureCapacityFor(v, n)
  <2>1. blockResize(v, n, x) = Appended(r, Copies(n - Len(xs), x))
    BY <1>1, <1>3 DEF blockResize
  <2>2. Holds("block", r, xs) /\ n <= r.cap
    BY BlockEnsured
  <2> HIDE DEF r
  <2>3. Len(xs) <= n
    BY <1>1, <1>3
  <2> QED
    BY <2>1, <2>2, <2>3, Grown
<1> QED
  BY <1>2, <1>3

\* What a RuntimeBlockVector owns when it has given its blocks away.
LEMMA NothingLeft ==
    ASSUME NEW v, NEW xs, Holds("block", v, xs)
    PROVE  releaseBlocks(v).net = 0 /\ v.net = Len(v.blocks) /\ v.net \in Nat /\ v.where = "heap"
<1>1. v \in VectorRecords /\ IsStored("block", v) /\ Len(v.blocks) \in Nat
  BY HoldsFacts
<1>2. v.where = "heap" /\ v.net = Len(v.blocks)
  BY <1>1 DEF IsStored, OnHeap
<1>3. releaseBlocks(v).net = v.net - Len(v.blocks)
  BY <1>1 DEF releaseBlocks, VectorRecords
<1> QED
  BY <1>1, <1>2, <1>3

LEMMA BlockRebuilt ==
    ASSUME NEW v, NEW xs, Holds("block", v, xs), NEW size \in Nat \ {0}
    PROVE  Holds("block", rebuildStorage(v, size), xs)
<1>1. /\ v \in VectorRecords /\ v.size \in Nat /\ Len(xs) = v.size /\ xs \in Seq(Cells)
      /\ ElementsOf(v) = xs
  BY HoldsFacts
<1>2. CASE size = v.blockSize
  BY <1>2 DEF rebuildStorage
<1>3. CASE size # v.blockSize
  <2> DEFINE count == BlocksFor(v.size, size)
             bs == [k \in 1 .. count |-> RawCells(size)]
             cap == count * size
             fresh == [where |-> "heap", blocks |-> bs, blockSize |-> size, cap |-> cap, size |-> 0,
                       net |-> count]
  <2>1. count \in Nat /\ cap >= v.size
    BY <1>1, BlocksEnough
  <2>2. rebuildStorage(v, size) = Appended(fresh, xs)
    <3>1. releaseBlocks(v).net + count = count
      <4>1. releaseBlocks(v).net = 0
        BY NothingLeft
      <4> QED
        BY <2>1, <4>1
    <3>2. rebuildStorage(v, size)
            = Appended([where |-> "heap", blocks |-> bs, blockSize |-> size, cap |-> cap, size |-> 0,
                        net |-> releaseBlocks(v).net + count], xs)
      BY <1>1, <1>3 DEF rebuildStorage
    <3> QED
      BY <3>1, <3>2, Zenon
  <2>3. bs \in Seq(Seq(Cells))
    <3>1. RawCells(size) \in Seq(Cells)
      BY RawList
    <3> HIDE DEF count
    <3>2. bs \in [1 .. count -> Seq(Cells)]
      BY <3>1
    <3> HIDE DEF bs
    <3> QED
      BY <2>1, <3>2, ListOf
  <2>4. cap \in Nat
    <3> HIDE DEF count
    <3> QED
      BY <2>1
  <2>5. fresh \in VectorRecords
    <3> HIDE DEF bs, cap, count
    <3> QED
      BY <2>1, <2>3, <2>4 DEF VectorRecords
  <2>6. /\ fresh.where = "heap" /\ fresh.blocks = bs /\ fresh.blockSize = size
        /\ fresh.cap = cap /\ fresh.size = 0 /\ fresh.net = count
    OBVIOUS
  <2>7. Holds("block", fresh, << >>)
    <3>1. fresh.blocks = [k \in 1 .. count |-> RawCells(fresh.blockSize)]
      BY <2>6
    <3>2. fresh.cap = count * fresh.blockSize
      BY <2>6
    <3> HIDE DEF fresh, count
    <3> QED
      BY <2>1, <2>5, <2>6, <3>1, <3>2, RawBlocksHold
  <2>8. Len(<< >>) + Len(xs) <= fresh.cap /\ << >> \o xs = xs
    <3> HIDE DEF count
    <3> QED
      BY <1>1, <2>1, <2>4, <2>6
  <2> HIDE DEF fresh
  <2> QED
    BY <1>1, <2>2, <2>7, <2>8, AppendedHolds
<1> QED
  BY <1>2, <1>3

LEMMA BlockMoved ==
    ASSUME NEW v, NEW xs, Holds("block", v, xs), NEW o, NEW ys, Holds("block", o, ys)
    PROVE  Holds("block", blockMoveAssign(v, o)[1], ys) /\ Holds("block", blockMoveAssign(v, o)[2], << >>)
<1> DEFINE p == [o EXCEPT !.net = releaseBlocks(v).net + Len(o.blocks)]
           q == [o EXCEPT !.blocks = << >>, !.size = 0, !.cap = 0, !.net = o.net - Len(o.blocks)]
<1>1. blockMoveAssign(v, o) = <<p, q>>
  BY DEF blockMoveAssign
<1>2. o \in VectorRecords
  BY HoldsFacts
<1>3. releaseBlocks(v).net = 0 /\ o.net = Len(o.blocks) /\ o.net \in Nat /\ o.where = "heap"
  BY NothingLeft
<1>4. p = o
  <2>1. releaseBlocks(v).net + Len(o.blocks) = o.net
    BY <1>3
  <2> QED
    BY <1>2, <2>1 DEF VectorRecords
<1>5. q = [o EXCEPT !.blocks = << >>, !.size = 0, !.cap = 0, !.net = 0]
  <2>1. o.net - Len(o.blocks) = 0
    BY <1>3
  <2> QED
    BY <2>1
<1> HIDE DEF p, q
<1>6. /\ q \in VectorRecords /\ q.where = "heap" /\ q.blocks = << >> /\ q.cap = 0 /\ q.size = 0 /\ q.net = 0
  <2> DEFINE none == << >>
  <2>1. none \in Seq(Seq(Cells)) /\ q = [o EXCEPT !.blocks = none, !.size = 0, !.cap = 0, !.net = 0]
    BY <1>5
  <2> HIDE DEF none
  <2>2. 0 \in Nat /\ 0 \in Int
    OBVIOUS
  <2>3. /\ q \in VectorRecords /\ q.where = o.where /\ q.blocks = none /\ q.cap = 0 /\ q.size = 0 /\ q.net = 0
    BY <1>2, <2>1, <2>2 DEF VectorRecords
  <2> QED
    BY <1>3, <2>3 DEF none
<1> QED
  BY <1>1, <1>4, <1>6, NoBlocksHold

-----------------------------------------------------------------------------
(* The operations *)

LEMMA BecomesInv ==
    ASSUME VectorInv, NEW a \in Vectors, NEW v, NEW xs, Holds(vectorKind, v, xs), Becomes(a, v, xs)
    PROVE  VectorInv'
<1>1. /\ vec' = [vec EXCEPT ![a] = v] /\ contents' = [contents EXCEPT ![a] = xs]
      /\ vectorKind' = vectorKind
  BY DEF Becomes
<1>2. v \in VectorRecords /\ xs \in Seq(Cells)
  BY HoldsFacts
<1>3. vec \in [Vectors -> VectorRecords] /\ contents \in [Vectors -> Seq(Cells)]
  BY DEF VectorInv
<1>4. vec' \in [Vectors -> VectorRecords] /\ contents' \in [Vectors -> Seq(Cells)]
  BY <1>1, <1>2, <1>3
<1>5. ASSUME NEW b \in Vectors PROVE Holds(vectorKind', vec'[b], contents'[b])
  <2>1. CASE b = a
    <3>1. vec'[b] = v /\ contents'[b] = xs
      BY <1>1, <1>3, <2>1
    <3> QED
      BY <1>1, <3>1
  <2>2. CASE b # a
    <3>1. vec'[b] = vec[b] /\ contents'[b] = contents[b]
      BY <1>1, <1>3, <2>2
    <3>2. Holds(vectorKind, vec[b], contents[b])
      BY DEF VectorInv
    <3> QED
      BY <1>1, <3>1, <3>2
  <2> QED
    BY <2>1, <2>2
<1> QED
  BY <1>1, <1>4, <1>5 DEF VectorInv

LEMMA BothInv ==
    ASSUME VectorInv, NEW a \in Vectors, NEW pair, NEW xs, NEW ys,
           Holds(vectorKind, pair[1], xs), Holds(vectorKind, pair[2], ys), Both(a, pair, xs, ys)
    PROVE  VectorInv'
<1> DEFINE b == Other(a)
<1>1. /\ vec' = [vec EXCEPT ![a] = pair[1], ![b] = pair[2]]
      /\ contents' = [contents EXCEPT ![a] = xs, ![b] = ys]
      /\ vectorKind' = vectorKind
  BY DEF Both
<1>2. /\ pair[1] \in VectorRecords /\ xs \in Seq(Cells)
      /\ pair[2] \in VectorRecords /\ ys \in Seq(Cells)
  BY HoldsFacts
<1>3. vec \in [Vectors -> VectorRecords] /\ contents \in [Vectors -> Seq(Cells)]
  BY DEF VectorInv
<1>4. b \in Vectors /\ b # a /\ Vectors = {a, b}
  BY DEF Vectors, Other
<1> HIDE DEF b
<1>5. /\ vec' \in [Vectors -> VectorRecords] /\ contents' \in [Vectors -> Seq(Cells)]
      /\ vec'[a] = pair[1] /\ vec'[b] = pair[2] /\ contents'[a] = xs /\ contents'[b] = ys
  BY <1>1, <1>2, <1>3, <1>4
<1>6. ASSUME NEW c \in Vectors PROVE Holds(vectorKind', vec'[c], contents'[c])
  <2>1. c = a \/ c = b
    BY <1>4
  <2> QED
    BY <1>1, <1>5, <2>1
<1>7. vectorKind \in {"small", "heap", "block"}
  BY DEF VectorInv
<1> QED
  BY <1>1, <1>5, <1>6, <1>7 DEF VectorInv

LEMMA HeldBy ==
    ASSUME VectorInv, NEW a \in Vectors
    PROVE  /\ Holds(vectorKind, vec[a], contents[a])
           /\ vectorKind \in {"small", "heap", "block"}
           /\ contents[a] \in Seq(Cells) /\ Len(contents[a]) = vec[a].size /\ vec[a].size \in Nat
           /\ vec[a].cap \in Nat /\ vec[a].size <= vec[a].cap
           /\ ElementsOf(vec[a]) = contents[a]
           /\ Other(a) \in Vectors
<1>1. Holds(vectorKind, vec[a], contents[a]) /\ vectorKind \in {"small", "heap", "block"}
  BY DEF VectorInv
<1>2. Other(a) \in Vectors
  BY DEF Other, Vectors
<1> QED
  BY <1>1, <1>2, HoldsFacts

LEMMA CountsNat == Counts \subseteq Nat
BY VectorBoundsAssumption DEF Counts

LEMMA PushBackInv ==
    ASSUME VectorInv, NEW a \in Vectors, NEW x \in VectorValues, PushBack(a, x)
    PROVE  VectorInv'
<1> DEFINE v == vec[a]
           xs == contents[a]
           e == EnsureCapacity(v, v.size + 1)
           w == IF vectorKind = "small" THEN smallEmplaceBack(v, x) ELSE Appended(e, <<x>>)
<1>1. /\ Holds(vectorKind, v, xs) /\ vectorKind \in {"small", "heap", "block"}
      /\ xs \in Seq(Cells) /\ Len(xs) = v.size /\ v.size \in Nat
  BY HeldBy
<1>2. Becomes(a, w, Append(xs, x))
  BY DEF PushBack
<1> HIDE DEF v, xs
<1>3. Holds(vectorKind, w, Append(xs, x))
  <2>1. CASE vectorKind = "small"
    BY <1>1, <2>1, SmallPushed
  <2>2. CASE vectorKind # "small"
    <3>1. v.size + 1 \in Nat
      BY <1>1
    <3>2. Holds(vectorKind, e, xs) /\ v.size + 1 <= e.cap
      <4>1. CASE vectorKind = "heap"
        <5>1. e = heapEnsureCapacityFor(v, v.size + 1)
          BY <4>1 DEF EnsureCapacity
        <5> QED
          BY <1>1, <3>1, <4>1, <5>1, HeapEnsured
      <4>2. CASE vectorKind = "block"
        <5>1. e = blockEnsureCapacityFor(v, v.size + 1)
          BY <4>2 DEF EnsureCapacity
        <5> QED
          BY <1>1, <3>1, <4>2, <5>1, BlockEnsured
      <4> QED
        BY <1>1, <2>2, <4>1, <4>2
    <3>3. <<x>> \in Seq(Cells) /\ Len(<<x>>) = 1 /\ xs \o <<x>> = Append(xs, x)
      BY <1>1 DEF Cells
    <3> HIDE DEF e
    <3>4. Len(xs) + Len(<<x>>) <= e.cap
      BY <1>1, <3>2, <3>3
    <3>5. Holds(vectorKind, Appended(e, <<x>>), xs \o <<x>>)
      BY <3>2, <3>3, <3>4, AppendedHolds
    <3> QED
      BY <2>2, <3>3, <3>5
  <2> QED
    BY <2>1, <2>2
<1> HIDE DEF w
<1> QED
  BY <1>2, <1>3, BecomesInv

LEMMA PopBackInv ==
    ASSUME VectorInv, NEW a \in Vectors, PopBack(a)
    PROVE  VectorInv'
<1> DEFINE v == vec[a]
           xs == contents[a]
           w == Truncated(v, v.size - 1)
<1>1. Holds(vectorKind, v, xs) /\ xs \in Seq(Cells) /\ Len(xs) = v.size /\ v.size \in Nat
  BY HeldBy
<1>2. v.size > 0 /\ Becomes(a, w, Front(xs))
  BY DEF PopBack
<1> HIDE DEF v, xs
<1>3. v.size - 1 \in 0 .. Len(xs) /\ Front(xs) = SubSeq(xs, 1, v.size - 1)
  BY <1>1, <1>2 DEF Front
<1>4. Holds(vectorKind, w, SubSeq(xs, 1, v.size - 1))
  BY <1>1, <1>3, TruncatedHolds
<1> HIDE DEF w
<1> QED
  BY <1>2, <1>3, <1>4, BecomesInv

LEMMA ReserveInv ==
    ASSUME VectorInv, NEW a \in Vectors, NEW n \in Counts, Reserve(a, n)
    PROVE  VectorInv'
<1> DEFINE v == vec[a]
           xs == contents[a]
           w == IF vectorKind = "block" THEN blockEnsureCapacityFor(v, n) ELSE Reallocated(v, n)
<1>1. /\ Holds(vectorKind, v, xs) /\ Len(xs) = v.size /\ v.size \in Nat
      /\ v.cap \in Nat /\ v.size <= v.cap /\ vectorKind \in {"small", "heap", "block"}
  BY HeldBy
<1>2. n > v.cap /\ Becomes(a, w, xs)
  BY DEF Reserve
<1> HIDE DEF v, xs
<1>3. n \in Nat \ {0} /\ Len(xs) <= n
  BY <1>1, <1>2, CountsNat
<1>4. Holds(vectorKind, w, xs)
  <2>1. CASE vectorKind = "block"
    BY <1>1, <1>3, <2>1, BlockEnsured
  <2>2. CASE vectorKind # "block"
    BY <1>1, <1>3, <2>2, ReallocatedHolds
  <2> QED
    BY <2>1, <2>2
<1> HIDE DEF w
<1> QED
  BY <1>2, <1>4, BecomesInv

LEMMA ResizeInv ==
    ASSUME ~ResizeSpilled, VectorInv, NEW a \in Vectors, NEW n \in Counts, NEW x \in VectorValues,
           Resize(a, n, x)
    PROVE  VectorInv'
<1> DEFINE v == vec[a]
           xs == contents[a]
           w == CASE vectorKind = "small" -> smallResize(v, n, x)
                  [] vectorKind = "heap" -> heapResize(v, n, x)
                  [] vectorKind = "block" -> blockResize(v, n, x)
<1>1. Holds(vectorKind, v, xs) /\ vectorKind \in {"small", "heap", "block"} /\ n \in Nat
  BY HeldBy, CountsNat
<1>2. ~SpilledResize(v, n) /\ Becomes(a, w, Resized(xs, n, x))
  BY DEF Resize, Resized
<1> HIDE DEF v, xs
<1>3. Holds(vectorKind, w, Resized(xs, n, x))
  <2>1. CASE vectorKind = "small"
    <3>1. ~ (OnHeap(v) /\ v.size > 0 /\ v.size < n /\ n <= InlineCapacity)
      BY <1>2, <2>1 DEF SpilledResize
    <3>2. w = smallResize(v, n, x)
      BY <2>1
    <3> QED
      BY <1>1, <2>1, <3>1, <3>2, SmallResized
  <2>2. CASE vectorKind = "heap"
    <3>1. w = heapResize(v, n, x)
      BY <2>2
    <3> QED
      BY <1>1, <2>2, <3>1, HeapResized
  <2>3. CASE vectorKind = "block"
    <3>1. w = blockResize(v, n, x)
      BY <2>3
    <3> QED
      BY <1>1, <2>3, <3>1, BlockResized
  <2> QED
    BY <1>1, <2>1, <2>2, <2>3
<1> HIDE DEF w
<1> QED
  BY <1>2, <1>3, BecomesInv

LEMMA ClearedVectorInv ==
    ASSUME VectorInv, NEW a \in Vectors, Clear(a)
    PROVE  VectorInv'
<1> DEFINE v == vec[a]
           xs == contents[a]
           w == Truncated(v, 0)
<1>1. Holds(vectorKind, v, xs) /\ xs \in Seq(Cells)
  BY HeldBy
<1>2. Becomes(a, w, << >>)
  BY DEF Clear
<1> HIDE DEF v, xs
<1>3. 0 \in 0 .. Len(xs) /\ SubSeq(xs, 1, 0) = << >>
  BY <1>1
<1>4. Holds(vectorKind, Truncated(v, 0), SubSeq(xs, 1, 0))
  BY <1>1, <1>3, TruncatedHolds, Zenon
<1>5. Holds(vectorKind, w, << >>)
  BY <1>3, <1>4
<1> HIDE DEF w
<1> QED
  BY <1>2, <1>5, BecomesInv

LEMMA ShrinkToFitInv ==
    ASSUME VectorInv, ~ShrinkInline, NEW a \in Vectors, ShrinkToFit(a)
    PROVE  VectorInv'
<1> DEFINE v == vec[a]
           xs == contents[a]
           results == IF vectorKind = "small" THEN smallShrinkToFit(v) ELSE {heapShrinkToFit(v)}
<1>1. Holds(vectorKind, v, xs) /\ vectorKind \in {"small", "heap", "block"}
  BY HeldBy
<1>2. vectorKind # "block" /\ ~HoldsInline(v)
  BY DEF ShrinkToFit
<1>3. PICK w \in results : Becomes(a, w, xs)
  BY DEF ShrinkToFit
<1> HIDE DEF v, xs
<1>4. Holds(vectorKind, w, xs)
  <2>1. CASE vectorKind = "small"
    <3>1. OnHeap(v) \/ v.size = 0
      <4>1. v.size \in Nat
        BY <1>1, HoldsFacts
      <4> QED
        BY <1>2, <2>1, <4>1 DEF HoldsInline
    <3> QED
      BY <1>1, <1>3, <2>1, <3>1, SmallShrunk
  <2>2. CASE vectorKind = "heap"
    BY <1>1, <1>3, <2>2, HeapShrunk
  <2> QED
    BY <1>1, <1>2, <2>1, <2>2
<1> HIDE DEF results
<1> QED
  BY <1>3, <1>4, BecomesInv

LEMMA InsertInv ==
    ASSUME VectorInv, NEW a \in Vectors, NEW index \in Counts, NEW count \in 1 .. 2,
           NEW x \in VectorValues, Insert(a, index, count, x)
    PROVE  VectorInv'
<1> DEFINE v == vec[a]
           xs == contents[a]
           ys == Copies(count, x)
           w == smallInsert(v, index, ys)
<1>1. Holds(vectorKind, v, xs) /\ Len(xs) = v.size /\ v.size \in Nat
  BY HeldBy
<1>2. vectorKind = "small" /\ index <= v.size /\ Becomes(a, w, Inserted(xs, index, ys))
  BY DEF Insert, Inserted
<1> HIDE DEF v, xs
<1>3. ys \in Seq(Cells)
  <2>1. count \in Nat
    OBVIOUS
  <2> QED
    BY <2>1, CopiesList
<1>4. index \in 0 .. Len(xs)
  BY <1>1, <1>2, CountsNat
<1> HIDE DEF ys
<1>5. Holds("small", w, Inserted(xs, index, ys))
  BY <1>1, <1>2, <1>3, <1>4, SmallInserted
<1> HIDE DEF w
<1> QED
  BY <1>2, <1>5, BecomesInv

LEMMA EraseInv ==
    ASSUME VectorInv, NEW a \in Vectors, NEW first \in Counts, NEW last \in Counts, Erase(a, first, last)
    PROVE  VectorInv'
<1> DEFINE v == vec[a]
           xs == contents[a]
           w == smallErase(v, first, last)
<1>1. Holds(vectorKind, v, xs) /\ Len(xs) = v.size /\ v.size \in Nat
  BY HeldBy
<1>2. /\ vectorKind = "small" /\ first < last /\ last <= v.size
      /\ Becomes(a, w, Erased(xs, first, last))
  BY DEF Erase, Erased
<1> HIDE DEF v, xs
<1>3. last \in 0 .. Len(xs) /\ first \in 0 .. last
  BY <1>1, <1>2, CountsNat
<1>4. Holds("small", w, Erased(xs, first, last))
  BY <1>1, <1>2, <1>3, SmallErased
<1> HIDE DEF w
<1> QED
  BY <1>2, <1>4, BecomesInv

LEMMA AssignInv ==
    ASSUME VectorInv, NEW a \in Vectors, NEW count \in Counts, NEW x \in VectorValues, Assign(a, count, x)
    PROVE  VectorInv'
<1> DEFINE v == vec[a]
           ys == Copies(count, x)
           w == smallAssign(v, ys)
<1>1. Holds(vectorKind, v, contents[a])
  BY HeldBy
<1>2. vectorKind = "small" /\ Becomes(a, w, ys)
  BY DEF Assign
<1>3. ys \in Seq(Cells)
  BY CountsNat, CopiesList
<1> HIDE DEF v, ys
<1>4. Holds("small", w, ys)
  BY <1>1, <1>2, <1>3, SmallAssigned
<1> HIDE DEF w
<1> QED
  BY <1>2, <1>4, BecomesInv

LEMMA CopyAssignInv ==
    ASSUME VectorInv, NEW a \in Vectors, CopyAssign(a)
    PROVE  VectorInv'
<1> DEFINE v == vec[a]
           o == vec[Other(a)]
           xs == contents[a]
           ys == contents[Other(a)]
           w == IF vectorKind = "small" THEN smallAssign(v, ElementsOf(o)) ELSE heapCopyAssign(v, o)
<1>1. Other(a) \in Vectors
  BY HeldBy
<1>2. /\ Holds(vectorKind, v, xs) /\ Holds(vectorKind, o, ys) /\ ys \in Seq(Cells) /\ ElementsOf(o) = ys
      /\ vectorKind \in {"small", "heap", "block"}
  BY <1>1, HeldBy
<1>3. vectorKind # "block" /\ Becomes(a, w, ys)
  BY DEF CopyAssign
<1> HIDE DEF v, o, xs, ys
<1>4. Holds(vectorKind, w, ys)
  <2>1. CASE vectorKind = "small"
    BY <1>2, <2>1, SmallAssigned
  <2>2. CASE vectorKind = "heap"
    BY <1>2, <2>2, HeapCopied
  <2> QED
    BY <1>2, <1>3, <2>1, <2>2
<1> HIDE DEF w
<1> QED
  BY <1>3, <1>4, BecomesInv

LEMMA ResizeBlocksInv ==
    ASSUME VectorInv, NEW a \in Vectors, NEW size \in BlockSizes, ResizeBlocks(a, size)
    PROVE  VectorInv'
<1> DEFINE v == vec[a]
           xs == contents[a]
           w == rebuildStorage(v, size)
<1>1. Holds(vectorKind, v, xs)
  BY HeldBy
<1>2. vectorKind = "block" /\ Becomes(a, w, xs)
  BY DEF ResizeBlocks
<1> HIDE DEF v, xs
<1>3. size \in Nat \ {0}
  BY VectorBoundsAssumption
<1>4. Holds("block", w, xs)
  BY <1>1, <1>2, <1>3, BlockRebuilt
<1> HIDE DEF w
<1> QED
  BY <1>2, <1>4, BecomesInv

LEMMA MoveAssignInv ==
    ASSUME VectorInv, NEW a \in Vectors, MoveAssign(a)
    PROVE  VectorInv'
<1> DEFINE v == vec[a]
           o == vec[Other(a)]
           xs == contents[a]
           ys == contents[Other(a)]
           pair == CASE vectorKind = "small" -> smallMoveAssign(v, o)
                     [] vectorKind = "heap" -> heapMoveAssign(v, o)
                     [] vectorKind = "block" -> blockMoveAssign(v, o)
<1>1. Other(a) \in Vectors
  BY HeldBy
<1>2. /\ Holds(vectorKind, v, xs) /\ Holds(vectorKind, o, ys)
      /\ vectorKind \in {"small", "heap", "block"}
  BY <1>1, HeldBy
<1>3. Both(a, pair, ys, << >>)
  BY DEF MoveAssign
<1> HIDE DEF v, o, xs, ys
<1>4. Holds(vectorKind, pair[1], ys) /\ Holds(vectorKind, pair[2], << >>)
  <2>1. CASE vectorKind = "small"
    <3>1. pair = smallMoveAssign(v, o)
      BY <2>1
    <3> HIDE DEF pair
    <3> QED
      BY <1>2, <2>1, <3>1, SmallMoved
  <2>2. CASE vectorKind = "heap"
    <3>1. pair = heapMoveAssign(v, o)
      BY <2>2
    <3> HIDE DEF pair
    <3> QED
      BY <1>2, <2>2, <3>1, HeapMoved
  <2>3. CASE vectorKind = "block"
    <3>1. pair = blockMoveAssign(v, o)
      BY <2>3
    <3> HIDE DEF pair
    <3> QED
      BY <1>2, <2>3, <3>1, BlockMoved
  <2> QED
    BY <1>2, <2>1, <2>2, <2>3
<1> HIDE DEF pair
<1> QED
  BY <1>3, <1>4, BothInv

LEMMA SwapInv ==
    ASSUME VectorInv, Swap
    PROVE  VectorInv'
<1> DEFINE pair == smallSwap(vec[1], vec[2])
<1>1. 1 \in Vectors /\ 2 \in Vectors
  BY DEF Vectors
<1>2. Holds(vectorKind, vec[1], contents[1]) /\ Holds(vectorKind, vec[2], contents[2])
  BY <1>1, HeldBy
<1>3. vectorKind = "small" /\ Both(1, pair, contents[2], contents[1])
  BY DEF Swap
<1>4. Holds(vectorKind, pair[1], contents[2]) /\ Holds(vectorKind, pair[2], contents[1])
  BY <1>2, <1>3, SmallSwapped
<1> HIDE DEF pair
<1> QED
  BY <1>1, <1>3, <1>4, BothInv

LEMMA VectorInitInv == VectorInit => VectorInv
<1> SUFFICES ASSUME VectorInit PROVE VectorInv
  OBVIOUS
<1> DEFINE new(size) == CASE vectorKind = "small" -> NewSmall
                          [] vectorKind = "heap" -> NewHeap
                          [] vectorKind = "block" -> NewBlock(size)
<1>1. vectorKind \in {"small", "heap", "block"} /\ contents = [a \in Vectors |-> << >>]
  BY DEF VectorInit
<1>2. PICK size \in BlockSizes : vec = [a \in Vectors |-> new(size)]
  BY DEF VectorInit
<1>3. Holds(vectorKind, new(size), << >>)
  <2>1. CASE vectorKind = "small"
    <3>1. new(size) = NewSmall
      BY <2>1
    <3> QED
      BY <2>1, <3>1, NewSmallHolds
  <2>2. CASE vectorKind = "heap"
    <3>1. new(size) = NewHeap
      BY <2>2
    <3> QED
      BY <2>2, <3>1, NewHeapHolds
  <2>3. CASE vectorKind = "block"
    <3> DEFINE w == NewBlock(size)
    <3>1. new(size) = w
      BY <2>3
    <3>2. size \in Nat \ {0} /\ << >> \in Seq(Seq(Cells))
      BY VectorBoundsAssumption
    <3>3. w \in VectorRecords
      BY <3>2 DEF NewBlock, VectorRecords
    <3>4. w.where = "heap" /\ w.blocks = << >> /\ w.cap = 0 /\ w.size = 0 /\ w.net = 0
      BY DEF NewBlock
    <3> HIDE DEF w
    <3>5. Holds("block", w, << >>)
      BY <3>3, <3>4, NoBlocksHold
    <3> QED
      BY <2>3, <3>1, <3>5
  <2> QED
    BY <1>1, <2>1, <2>2, <2>3
<1> HIDE DEF new
<1>4. new(size) \in VectorRecords /\ << >> \in Seq(Cells)
  BY <1>3, HoldsFacts
<1>5. vec \in [Vectors -> VectorRecords] /\ contents \in [Vectors -> Seq(Cells)]
  BY <1>1, <1>2, <1>4
<1>6. \A a \in Vectors : Holds(vectorKind, vec[a], contents[a])
  BY <1>1, <1>2, <1>3
<1> QED
  BY <1>1, <1>5, <1>6 DEF VectorInv

LEMMA VectorNextInv ==
    ~ResizeSpilled /\ ~ShrinkInline /\ VectorInv /\ [VectorNext]_vectorVars => VectorInv'
<1> SUFFICES ASSUME ~ResizeSpilled, ~ShrinkInline, VectorInv, [VectorNext]_vectorVars
             PROVE  VectorInv'
  OBVIOUS
<1>1. CASE \E a \in Vectors, x \in VectorValues : PushBack(a, x)
  BY <1>1, PushBackInv
<1>2. CASE \E a \in Vectors : PopBack(a)
  BY <1>2, PopBackInv
<1>3. CASE \E a \in Vectors, n \in Counts : Reserve(a, n)
  BY <1>3, ReserveInv
<1>4. CASE \E a \in Vectors, n \in Counts, x \in VectorValues : Resize(a, n, x)
  BY <1>4, ResizeInv
<1>5. CASE \E a \in Vectors : Clear(a)
  BY <1>5, ClearedVectorInv
<1>6. CASE \E a \in Vectors : ShrinkToFit(a)
  BY <1>6, ShrinkToFitInv
<1>7. CASE \E a \in Vectors, i \in Counts, n \in 1 .. 2, x \in VectorValues : Insert(a, i, n, x)
  BY <1>7, InsertInv
<1>8. CASE \E a \in Vectors, i, j \in Counts : Erase(a, i, j)
  BY <1>8, EraseInv
<1>9. CASE \E a \in Vectors, n \in Counts, x \in VectorValues : Assign(a, n, x)
  BY <1>9, AssignInv
<1>10. CASE \E a \in Vectors : CopyAssign(a)
  BY <1>10, CopyAssignInv
<1>11. CASE \E a \in Vectors, size \in BlockSizes : ResizeBlocks(a, size)
  BY <1>11, ResizeBlocksInv
<1>12. CASE \E a \in Vectors : MoveAssign(a)
  BY <1>12, MoveAssignInv
<1>13. CASE Swap
  BY <1>13, SwapInv
<1>14. CASE UNCHANGED vectorVars
  BY <1>14 DEF vectorVars, VectorInv, Holds, HoldsExactly, IsShaped, IsStored, OnHeap, Read, ptrAt
<1> QED
  BY <1>1, <1>2, <1>3, <1>4, <1>5, <1>6, <1>7, <1>8, <1>9, <1>10, <1>11, <1>12, <1>13, <1>14
  DEF VectorNext

\* The inductive invariant of the containers: their storage has the shape of
\* their class, is theirs, and holds the elements given to them and no other
\* (clients do not resize a heap SmallVector to a larger size within N, nor
\* shrink a SmallVector whose elements are inline).
THEOREM VectorInvariant == ~ResizeSpilled /\ ~ShrinkInline => (VectorSpec => []VectorInv)
<1>1. CASE ~ (~ResizeSpilled /\ ~ShrinkInline)
  BY <1>1
<1>2. CASE ~ResizeSpilled /\ ~ShrinkInline
  <2>1. VectorInv /\ [VectorNext]_vectorVars => VectorInv'
    BY <1>2, VectorNextInv
  <2> QED
    BY <2>1, VectorInitInv, PTL DEF VectorSpec
<1> QED
  BY <1>1, <1>2

LEMMA InvHolds == VectorInv => VectorsHoldElements
<1> SUFFICES ASSUME VectorInv, NEW a \in Vectors
             PROVE  HoldsContents(vec[a], contents[a]) /\ OwnsStorage(vec[a])
  BY DEF VectorsHoldElements
<1> DEFINE v == vec[a]
           xs == contents[a]
<1>1. Holds(vectorKind, v, xs)
  BY HeldBy
<1> HIDE DEF v, xs
<1>2. /\ IsShaped(v) /\ IsStored(vectorKind, v) /\ ElementsOf(v) = xs
      /\ v.cap \in Nat /\ v.size \in Nat /\ v.size <= v.cap
      /\ \A i \in 0 .. v.cap - 1 : Read(v, i) = IF i < v.size THEN xs[i + 1] ELSE Raw
  BY <1>1, HoldsFacts
<1>3. ASSUME NEW i \in v.size .. v.cap - 1 PROVE Read(v, i) = Raw
  <2>1. i \in 0 .. v.cap - 1 /\ ~ (i < v.size)
    BY <1>2
  <2> QED
    BY <1>2, <2>1
<1>4. OwnsStorage(v)
  BY <1>2 DEF OwnsStorage, IsShaped, IsStored
<1> QED
  BY <1>2, <1>3, <1>4 DEF HoldsContents, v, xs

\* Across growth, spilling to the heap and back, insertion, copying, moving,
\* swapping and rebuilding of blocks, SmallVector, HeapVector and
\* RuntimeBlockVector hold the elements they were given, constructed once, in
\* storage of their own: by every call but resize of a heap SmallVector to a
\* larger size within N, and shrinkToFit of one whose elements are inline.
THEOREM VectorsAlwaysHold ==
    ~ResizeSpilled /\ ~ShrinkInline => (VectorSpec => []VectorsHoldElements)
BY VectorInvariant, InvHolds, PTL
=============================================================================
