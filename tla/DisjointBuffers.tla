--------------------------- MODULE DisjointBuffers ---------------------------
(***************************************************************************)
(* What a memory pool promises its clients, with nothing about chunks,     *)
(* size classes or free lists: an allocation is a region of device memory  *)
(* at least as large as the request, which overlaps no region that another *)
(* client owns and none that unfinished device work still uses.            *)
(***************************************************************************)
EXTENDS Naturals

CONSTANTS
    Region,      \* records with the fields base, offset and size
    Request      \* the sizes clients ask for

VARIABLES
    owned,       \* the allocations: records [region, size]
    inflight     \* the regions that unfinished device work uses

vars == << owned, inflight >>

Overlap(r, s) ==
    /\ r.base = s.base
    /\ r.offset < s.offset + s.size
    /\ s.offset < r.offset + r.size

Init == owned = {} /\ inflight = {}

Allocate(r, n) ==
    /\ r.size >= n
    /\ \A o \in owned : ~ Overlap(r, o.region)
    /\ \A w \in inflight : ~ Overlap(r, w)
    /\ owned' = owned \cup {[region |-> r, size |-> n]}
    /\ inflight' = inflight

Deallocate(o) ==
    /\ owned' = owned \ {o}
    /\ inflight' = inflight

Submit(o) ==
    /\ inflight' = inflight \cup {o.region}
    /\ owned' = owned

Complete(r) ==
    /\ inflight' = inflight \ {r}
    /\ owned' = owned

Next ==
    \/ \E r \in Region, n \in Request : Allocate(r, n)
    \/ \E o \in owned : Deallocate(o) \/ Submit(o)
    \/ \E r \in inflight : Complete(r)

Spec == Init /\ [][Next]_vars
=============================================================================
