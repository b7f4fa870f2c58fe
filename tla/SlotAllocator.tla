----------------------------- MODULE SlotAllocator -----------------------------
(***************************************************************************)
(* The hierarchical slot allocator (allocator/lowlevel): memory reserved   *)
(* in root slots of the first level's size, each split on demand into      *)
(* slots of the next level and merged again when all its children are      *)
(* free.  Single allocations only: allocateDense ends in a function        *)
(* without a body.  An address is a number, and two reservations never     *)
(* touch.  Slots are numbered from 1, 0 is kNoParent.                      *)
(***************************************************************************)
EXTENDS Integers, FiniteSets, Sequences, SequencesExt, FiniteSetsExt

CONSTANTS SlotConfigs,   \* configurations [levels, initial, expand] tried
          SlotSizes,     \* the sizes asked for
          MaxSlotViews,  \* bound on views held at a time
          MaxRegions,    \* bound on reservations: the next one throws
          MaxMapFailures \* bound on map() throwing

VARIABLES slotCfg,     \* config_
          layers,      \* layers_
          regions,     \* history: the reservations [base, bytes]
          slotViews,   \* history: the views the callers hold, with the size asked for
          mapFailures  \* history: how often map() threw

slotVars == <<slotCfg, layers, regions, slotViews, mapFailures>>

ASSUME SlotConfigsAssumption ==
    /\ \A c \in SlotConfigs : c.levels \in Seq(Nat) /\ c.initial \in Nat /\ c.expand \in Nat
    /\ SlotSizes \subseteq Nat

Gap == 1

-----------------------------------------------------------------------------
(* HierarchicalSlotStorage *)

Levels == slotCfg.levels

validateLevels(levels) ==
    /\ \A i \in DOMAIN levels : levels[i] > 0
    /\ \A i \in 1 .. Len(levels) - 1 :
         levels[i] >= levels[i + 1] /\ levels[i] % levels[i + 1] = 0

InitializeAccepts(cfg) ==
    /\ cfg.levels # <<>> /\ validateLevels(cfg.levels)
    /\ cfg.initial % cfg.levels[1] = 0 /\ cfg.expand % cfg.levels[1] = 0

NewSlot(addr, parent) == [addr |-> addr, state |-> "Free", parent |-> parent, child |-> 0]

\* addRegion: the reservation cut into root slots, all of them free.
Regioned(ls, base, bytes) ==
    LET root == ls[1]
        count == bytes \div root.size
        new == [i \in 1 .. count |-> NewSlot(base + (i - 1) * root.size, 0)]
    IN  [ls EXCEPT ![1] = [root EXCEPT !.slots = root.slots \o new,
                                       !.free = root.free \o [i \in 1 .. count |-> Len(root.slots) + i]]]

NextBase(rs) == Max({r.base + r.bytes + Gap : r \in rs})

\* pickLayer: the last level that still holds the size, 0 for kInvalidLayer.
pickLayer(size) ==
    LET fits == {i \in DOMAIN Levels : \A j \in 1 .. i : size <= Levels[j]}
    IN  IF fits = {} THEN 0 ELSE Max(fits)

Siblings(ls, i) == ls[i].size \div ls[i + 1].size

allSiblingsFree(layer, begin, count) ==
    \A i \in begin .. begin + count - 1 : layer.slots[i].state = "Free"

\* splitSlot: the children take a retired span of slots of the child layer if
\* there is one, else new slots at its end.
splitSlot(ls, i, idx) ==
    LET count == Siblings(ls, i)
        child == ls[i + 1]
        reuse == child.span # <<>>
        begin == IF reuse THEN Last(child.span) ELSE Len(child.slots) + 1
        born == [k \in begin .. begin + count - 1 |->
                   NewSlot(ls[i].slots[idx].addr + (k - begin) * child.size, idx)]
    IN  [ls EXCEPT
           ![i].slots[idx] = [@ EXCEPT !.state = "Split", !.child = begin],
           ![i + 1] = [child EXCEPT
             !.slots = [k \in 1 .. (IF reuse THEN Len(child.slots) ELSE Len(child.slots) + count) |->
                          IF k \in DOMAIN born THEN born[k] ELSE child.slots[k]],
             !.free = child.free \o [k \in 1 .. count |-> begin + k - 1],
             !.span = IF reuse THEN Front(child.span) ELSE child.span]]

-----------------------------------------------------------------------------
(* HierarchicalSlotSingleOps *)

findParentWithFreeSlot(ls, target) ==
    LET free == {i \in 1 .. target - 1 : ls[i].free # <<>>}
    IN  IF free = {} THEN 0 ELSE Max(free)

PopAndSplit(ls, i) == splitSlot([ls EXCEPT ![i].free = Front(@)], i, Last(ls[i].free))

\* The loop over the layers, from the one with a free slot to the target.
SplitDown(ls, from, target) ==
    LET down[i \in from .. target] == IF i = from THEN ls ELSE PopAndSplit(down[i - 1], i - 1)
    IN  down[target]

\* ensureSlotAvailable: the nearest layer above with a free slot, or a new region.
NeedsRegion(target) == layers[target].free = <<>> /\ findParentWithFreeSlot(layers, target) = 0

ExpandBytes == IF slotCfg.expand = 0 THEN Levels[1] ELSE slotCfg.expand

ensureSlotAvailable(target) ==
    IF layers[target].free # <<>> THEN layers
    ELSE IF NeedsRegion(target)
         THEN SplitDown(Regioned(layers, NextBase(regions), ExpandBytes), 1, target)
         ELSE SplitDown(layers, findParentWithFreeSlot(layers, target), target)

acquireSlot(ls, target) ==
    LET layer == ls[target]
    IN  [ls EXCEPT ![target] = [layer EXCEPT !.free = Front(layer.free),
                                             !.slots[Last(layer.free)].state = "InUse"]]

releaseSlot(ls, i, idx) ==
    LET layer == ls[i]
    IN  [ls EXCEPT ![i] = [layer EXCEPT !.free = Append(layer.free, idx), !.slots[idx].state = "Free"]]

CanMerge(ls, i, idx) ==
    LET slot == ls[i].slots[idx]
        parent == ls[i - 1].slots[slot.parent]
    IN  /\ slot.parent # 0
        /\ parent.state = "Split"
        /\ allSiblingsFree(ls[i], parent.child, Siblings(ls, i - 1))

\* The loop that leaves the numbers of a set out of a free list, in order.
InOrder(I) == [k \in 1 .. Cardinality(I) |-> CHOOSE i \in I : Cardinality({j \in I : j <= i}) = k]
Without(list, out) ==
    LET I == {k \in DOMAIN list : list[k] \notin out}
    IN  [k \in 1 .. Cardinality(I) |-> list[InOrder(I)[k]]]

\* Fault: the merged children stay on their layer's free list.
MergedKeepsChildren(ls, i, idx) ==
    LET up == ls[i].slots[idx].parent
        above == ls[i - 1]
    IN  [ls EXCEPT ![i].span = Append(@, above.slots[up].child),
                   ![i - 1] = [above EXCEPT !.free = Append(above.free, up),
                                            !.slots[up] = [@ EXCEPT !.state = "Free", !.child = 0]]]

\* One level of tryMergeUpward: the children leave the free list, their span is
\* kept for the next split, and the parent is free again.
Merged(ls, i, idx) ==
    LET up == ls[i].slots[idx].parent
        layer == ls[i]
        above == ls[i - 1]
        begin == above.slots[up].child
        family == begin .. begin + Siblings(ls, i - 1) - 1
    IN  [ls EXCEPT ![i] = [layer EXCEPT !.free = Without(layer.free, family),
                                        !.span = Append(layer.span, begin)],
                   ![i - 1] = [above EXCEPT !.free = Append(above.free, up),
                                            !.slots[up] = [@ EXCEPT !.state = "Free", !.child = 0]]]

\* tryMergeUpward: level by level until a level does not merge.
MergeStep(st, i) ==
    IF st.done \/ ~CanMerge(st.ls, i, st.idx) THEN [ls |-> st.ls, idx |-> st.idx, done |-> TRUE]
    ELSE [ls |-> Merged(st.ls, i, st.idx), idx |-> st.ls[i].slots[st.idx].parent, done |-> FALSE]

tryMergeUpward(ls, layer, idx) ==
    LET up[n \in 0 .. layer - 1] == IF n = 0 THEN [ls |-> ls, idx |-> idx, done |-> FALSE]
                                    ELSE MergeStep(up[n - 1], layer - n + 1)
    IN  up[layer - 1].ls

findSlot(ls, addr) ==
    {p \in UNION {{i} \X DOMAIN ls[i].slots : i \in DOMAIN ls} :
        ls[p[1]].slots[p[2]].state = "InUse" /\ ls[p[1]].slots[p[2]].addr = addr}

-----------------------------------------------------------------------------
(* Operations, each under the storage's mutex *)

Acquired(target) ==
    /\ NeedsRegion(target) => Cardinality(regions) < MaxRegions
    /\ layers' = acquireSlot(ensureSlotAvailable(target), target)
    /\ regions' = IF NeedsRegion(target)
                  THEN regions \cup {[base |-> NextBase(regions), bytes |-> ExpandBytes]} ELSE regions

allocate(size) ==
    LET target == pickLayer(size) IN
    /\ target # 0 /\ Cardinality(slotViews) < MaxSlotViews
    /\ Acquired(target)
    /\ LET slot == Last(ensureSlotAvailable(target)[target].free)
       IN  slotViews' = slotViews \cup {[addr |-> ensureSlotAvailable(target)[target].slots[slot].addr,
                                         asked |-> size]}
    /\ UNCHANGED <<slotCfg, mapFailures>>

\* map() throws after the slot was acquired: it stays in use, and nobody has a
\* view to give it back with.
AllocateMapThrows(size) ==
    /\ mapFailures < MaxMapFailures
    /\ pickLayer(size) # 0
    /\ Acquired(pickLayer(size))
    /\ mapFailures' = mapFailures + 1
    /\ UNCHANGED <<slotCfg, slotViews>>

\* The slot is found by its address; a split slot and its first child have the
\* same address, but only one of them is in use.
deallocate(view) ==
    /\ slotViews' = slotViews \ {view}
    /\ findSlot(layers, view.addr) # {}
    /\ LET at == CHOOSE p \in findSlot(layers, view.addr) :
                   \A q \in findSlot(layers, view.addr) : p[1] <= q[1]
       IN  layers' = tryMergeUpward(releaseSlot(layers, at[1], at[2]), at[1], at[2])
    /\ UNCHANGED <<slotCfg, regions, mapFailures>>

SlotInit ==
    /\ slotCfg \in {c \in SlotConfigs : InitializeAccepts(c)}
    /\ LET bytes == IF slotCfg.initial = 0 THEN Levels[1] ELSE slotCfg.initial
           bare == [i \in DOMAIN Levels |->
                      [size |-> Levels[i], slots |-> <<>>, free |-> <<>>, span |-> <<>>]]
       IN  /\ regions = {[base |-> 0, bytes |-> bytes]}
           /\ layers = Regioned(bare, 0, bytes)
    /\ slotViews = {} /\ mapFailures = 0

SlotNext ==
    \/ \E size \in SlotSizes : allocate(size)
    \/ \E size \in SlotSizes : AllocateMapThrows(size)
    \/ \E view \in slotViews : deallocate(view)

SlotSpec == SlotInit /\ [][SlotNext]_slotVars

-----------------------------------------------------------------------------
(* Properties *)

AllSlots(ls) == UNION {{i} \X DOMAIN ls[i].slots : i \in DOMAIN ls}
SlotAt(ls, p) == ls[p[1]].slots[p[2]]
Bytes(ls, p) == SlotAt(ls, p).addr .. SlotAt(ls, p).addr + ls[p[1]].size - 1
Busy(ls) == {p \in AllSlots(ls) : SlotAt(ls, p).state = "InUse"}
Available(ls) == {p \in AllSlots(ls) : \E k \in DOMAIN ls[p[1]].free : ls[p[1]].free[k] = p[2]}

\* Every reserved byte is in exactly one slot that is in use or on a free list:
\* after any sequence of splits and merges no memory is lost, and no two
\* allocations can overlap.
LeavesTile ==
    LET leaves == Busy(layers) \cup Available(layers) IN
    /\ \A i \in DOMAIN layers : IsInjective(layers[i].free)
    /\ \A p \in Available(layers) : SlotAt(layers, p).state = "Free"
    /\ \A p, q \in leaves : p # q => Bytes(layers, p) \cap Bytes(layers, q) = {}
    /\ UNION {Bytes(layers, p) : p \in leaves} = UNION {r.base .. r.base + r.bytes - 1 : r \in regions}

\* A view is exactly one slot in use, large enough for what was asked for, and
\* the only slots in use without a view are those map() threw on.
ViewsBacked ==
    /\ \A v \in slotViews :
         \E p \in Busy(layers) : SlotAt(layers, p).addr = v.addr /\ layers[p[1]].size >= v.asked
    /\ Cardinality(Busy(layers)) = Cardinality(slotViews) + mapFailures

\* A slot stays split only while something below it is in use, so that memory
\* that was given back is whole again.
SplitOnlyWhileUsed ==
    \A p \in AllSlots(layers) : SlotAt(layers, p).state = "Split" =>
        \E q \in Busy(layers) : Bytes(layers, q) \subseteq Bytes(layers, p)

\* Any sequence of allocate and deallocate leaves the slots of
\* HierarchicalSlotStorage a partition of the reserved memory that backs every
\* view and is merged as far as the views allow.
SlotsTileMemory == LeavesTile /\ ViewsBacked /\ SplitOnlyWhileUsed
=============================================================================
