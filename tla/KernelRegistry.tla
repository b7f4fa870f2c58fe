---------------------------- MODULE KernelRegistry ----------------------------
(***************************************************************************)
(* The three-tier kernel registry (kernel/registry/kernel_registry.h) with *)
(* its LRU lists (base/lru_list.h): metadata of every registered kernel in *)
(* secondary storage, rebuilt entries in main memory, and a cache of       *)
(* pointers into main memory.  A map is the set of its keys; what an entry *)
(* holds is the subject of ManagerKinds.  Lists are front (most recent)    *)
(* first.  The statistics are left out.                                    *)
(***************************************************************************)
EXTENDS Integers, FiniteSets, Sequences, SequencesExt

CONSTANTS Keys,             \* the kernel keys
          RegistryConfigs,  \* the pairs [cache, main] of capacities tried
          MaxFailures       \* bound on demotions that throw

ASSUME RegistryConstants == RegistryConfigs \subseteq [cache : Nat, main : Nat]

VARIABLES registry,   \* the tiers
          registryCfg,\* config_
          known,      \* history: the keys registered since the last clear
          dropped,    \* history: the known keys a failed demotion destroyed
          recent,     \* history: keys in the order of their last successful lookup
          failures    \* history: demotions that threw

registryVars == <<registry, registryCfg, known, dropped, recent, failures>>

\* main_memory_nodes_ may keep a node that main_memory_lru_ has lost; the nodes
\* of the cache are those on its list.
EmptyRegistry ==
    [cache |-> {}, cacheLru |-> <<>>, main |-> {}, mainNodes |-> {}, mainLru |-> <<>>, secondary |-> {}]

-----------------------------------------------------------------------------
(* LruList *)

\* A key has at most one node, found through the map of nodes.
remove(lru, k) ==
    LET at == {i \in DOMAIN lru : lru[i] = k}
    IN  IF at = {} THEN lru ELSE RemoveAt(lru, CHOOSE i \in at : TRUE)
pushFront(lru, k) == <<k>> \o lru
touch(lru, k) == pushFront(remove(lru, k), k)

-----------------------------------------------------------------------------
(* Tiers: each operator is the registry after one private method. *)

evictFromCache(r) ==
    IF r.cacheLru = <<>> THEN r
    ELSE [r EXCEPT !.cacheLru = Front(@), !.cache = @ \ {Last(r.cacheLru)}]

promoteToCache(r, k) ==
    IF k \in r.cache THEN [r EXCEPT !.cacheLru = touch(@, k)]
    ELSE LET room == IF Cardinality(r.cache) >= registryCfg.cache THEN evictFromCache(r) ELSE r
         IN  [room EXCEPT !.cache = @ \cup {k}, !.cacheLru = pushFront(@, k)]

\* Fault: the cache keeps its pointer to the entry that is destroyed.
EvictKeepsPointer(r) ==
    IF r.mainLru = <<>> THEN r
    ELSE LET victim == Last(r.mainLru) IN
         [r EXCEPT !.mainLru = Front(@), !.secondary = @ \cup {victim}, !.main = @ \ {victim},
                   !.mainNodes = @ \ {victim}]

\* The victim's metadata goes back to secondary storage, and its entry, its
\* nodes and the cache's pointer to it are removed.
evictFromMainMemory(r) ==
    IF r.mainLru = <<>> THEN r
    ELSE LET victim == Last(r.mainLru) IN
         [r EXCEPT !.mainLru = Front(@), !.secondary = @ \cup {victim}, !.main = @ \ {victim},
                   !.mainNodes = @ \ {victim}, !.cache = @ \ {victim}, !.cacheLru = remove(@, victim)]

\* fromEntry throws: popBack has already unlinked the victim's node.
EvictionThrows(r) == [r EXCEPT !.mainLru = Front(@)]

MainMemoryFull(r) == Cardinality(r.main) >= registryCfg.main

-----------------------------------------------------------------------------
(* Operations *)

Used(k) == recent' = touch(recent, k)

registerKernel(k) ==
    /\ k \notin registry.cache \cup registry.main \cup registry.secondary
    /\ registry' = [registry EXCEPT !.secondary = @ \cup {k}]
    /\ known' = known \cup {k}
    /\ dropped' = dropped \ {k}
    /\ UNCHANGED <<registryCfg, recent, failures>>

\* A hit in the cache moves the key to the front of the cache's list only.
lookupCache(k) ==
    /\ k \in registry.cache
    /\ registry' = [registry EXCEPT !.cacheLru = touch(@, k)]
    /\ Used(k)
    /\ UNCHANGED <<registryCfg, known, dropped, failures>>

\* touch() of a node that a failed demotion unlinked follows a null pointer:
\* the process ends, and there is no step.
lookupMainMemory(k) ==
    /\ k \in registry.main \ registry.cache
    /\ \E i \in DOMAIN registry.mainLru : registry.mainLru[i] = k
    /\ registry' = promoteToCache([registry EXCEPT !.mainLru = touch(@, k)], k)
    /\ Used(k)
    /\ UNCHANGED <<registryCfg, known, dropped, failures>>

\* The entry is rebuilt, its metadata erased, room made in main memory, and
\* the entry inserted there and in the cache.
lookupSecondaryStorage(k) ==
    /\ k \in registry.secondary
    /\ LET taken == [registry EXCEPT !.secondary = @ \ {k}]
           room == IF MainMemoryFull(taken) THEN evictFromMainMemory(taken) ELSE taken
           in == [room EXCEPT !.main = @ \cup {k}, !.mainNodes = @ \cup {k},
                              !.mainLru = pushFront(@, k)]
       IN  registry' = promoteToCache(in, k)
    /\ Used(k)
    /\ UNCHANGED <<registryCfg, known, dropped, failures>>

\* As above, but building the victim's metadata throws (no metadata manager, no
\* memory): lookup throws, the rebuilt entry is destroyed with the frame.
LookupEvictionThrows(k) ==
    /\ failures < MaxFailures
    /\ k \in registry.secondary
    /\ LET taken == [registry EXCEPT !.secondary = @ \ {k}]
       IN  /\ MainMemoryFull(taken) /\ taken.mainLru # <<>>
           /\ registry' = EvictionThrows(taken)
    /\ dropped' = dropped \cup {k}
    /\ failures' = failures + 1
    /\ UNCHANGED <<registryCfg, known, recent>>

flush ==
    /\ registry.cache # {}
    /\ registry' = [registry EXCEPT !.cache = {}, !.cacheLru = <<>>]
    /\ UNCHANGED <<registryCfg, known, dropped, recent, failures>>

clear ==
    /\ known # {}
    /\ registry' = EmptyRegistry
    /\ known' = {} /\ dropped' = {} /\ recent' = <<>>
    /\ UNCHANGED <<registryCfg, failures>>

RegistryInit ==
    /\ registry = EmptyRegistry
    /\ registryCfg \in RegistryConfigs
    /\ known = {} /\ dropped = {} /\ recent = <<>> /\ failures = 0

\* prefetch(k) is a lookup whose result is dropped.
RegistryNext ==
    \/ \E k \in Keys : registerKernel(k)
    \/ \E k \in Keys : lookupCache(k)
    \/ \E k \in Keys : lookupMainMemory(k)
    \/ \E k \in Keys : lookupSecondaryStorage(k)
    \/ \E k \in Keys : LookupEvictionThrows(k)
    \/ flush
    \/ clear

RegistrySpec == RegistryInit /\ [][RegistryNext]_registryVars

-----------------------------------------------------------------------------
(* Properties *)

\* The cache's pointers point to entries that main memory still owns, whatever
\* was evicted, flushed or failed in between.
CachedEntriesLive == registry.cache \subseteq registry.main

Larger(a, b) == IF a < b THEN b ELSE a

\* The LRU lists hold every cached key once and every entry of main memory once,
\* except those whose demotion threw, at most one per failure.  So eviction finds
\* a victim: the cache keeps to its capacity (of at least one), and main memory to
\* its own or, after failures, to one entry more than there were failures.
ListsMatchTiers ==
    /\ IsInjective(registry.cacheLru) /\ ToSet(registry.cacheLru) = registry.cache
    /\ IsInjective(registry.mainLru) /\ ToSet(registry.mainLru) \subseteq registry.main
    /\ registry.mainNodes = registry.main
    /\ Cardinality(registry.main \ ToSet(registry.mainLru)) <= failures
    /\ Cardinality(registry.main) <= Larger(registryCfg.main, failures + 1)
    /\ Cardinality(registry.cache) <= Larger(registryCfg.cache, 1)

\* A registered kernel is in exactly one of main memory and secondary storage,
\* unless the demotion its own lookup started threw.
KeysInOneTier ==
    /\ registry.main \cap registry.secondary = {}
    /\ registry.main \cup registry.secondary = known \ dropped

\* The cache holds the most recently looked-up entries of main memory: no entry
\* outside it was looked up after one inside it.
CacheMostRecent ==
    \A c \in registry.cache, m \in registry.main \ registry.cache :
        \E i, j \in DOMAIN recent : recent[i] = c /\ recent[j] = m /\ i < j

\* After any sequence of registrations, lookups, evictions, flushes and failed
\* demotions, the tiers of KernelRegistry agree with each other, with their
\* LRU lists and with the order of the lookups.
RegistryTiersConsistent == CachedEntriesLive /\ ListsMatchTiers /\ KeysInOneTier /\ CacheMostRecent
=============================================================================
