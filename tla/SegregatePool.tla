---------------------------- MODULE SegregatePool ----------------------------
(***************************************************************************)
(* The segregated memory pool of execution/allocator, in the composition   *)
(* its tests build: FastFreePolicy, DirectResourceLargeAllocPolicy,        *)
(* DirectChunkLocatorPolicy, DeferredReusePolicy, HostStackFreelistPolicy. *)
(*                                                                         *)
(* A small request is served from a chunk of device memory cut into blocks *)
(* of one size class; a freed block waits until the device work that uses  *)
(* it is complete and then goes back to the free list of its class; a      *)
(* chunk none of whose blocks is in use can be given back.  A large        *)
(* request goes straight to the resource.                                  *)
(*                                                                         *)
(* allocate, deallocate and releaseChunk hold the lock of the threading    *)
(* policy from start to end (with NoLockThreadingPolicy the pool has one   *)
(* caller), so each call is one action.  A client deallocates what it was  *)
(* given, once, with the size it asked for: the code checks none of these. *)
(* Statistics, alignment and the move of a pool are left out, and so are   *)
(* calls that return at once (size 0, an empty buffer).                    *)
(***************************************************************************)
EXTENDS Integers, FiniteSets, SequencesExt

CONSTANTS
    MinBlock,    \* min_block_size_
    MaxBlock,    \* max_block_size_
    ChunkSize,   \* chunk_size_
    Request,     \* the sizes clients ask for
    Base,        \* the buffers the resource can back; bounds the memory
    NoBase       \* the empty view of a free table slot

ASSUME SizesAssumption ==
    /\ MinBlock \in Nat \ {0}
    /\ MaxBlock \in Nat /\ MaxBlock >= MinBlock
    /\ ChunkSize \in Nat \ {0}
    /\ Request \subseteq Nat \ {0}
ASSUME BaseAssumption == IsFiniteSet(Base) /\ NoBase \notin Base

VARIABLES
    chunks,        \* the chunk table: base, size, used, pending, alive
    chunk_free,    \* free slots of the chunk table
    entries,       \* the table of large allocations: view, in_use
    entry_free,    \* free slots of the large table
    stacks,        \* a stack of free blocks for each size class
    pending_queue, \* freed blocks whose device work may be unfinished
    ready_queue,   \* freed blocks whose device work is complete
    flushing,      \* a caller is inside flushPending
    backed,        \* the buffers the resource has handed out
    live,          \* what clients hold: the block and the size asked for
    busy           \* the regions that unfinished device work uses

locator == << chunks, chunk_free >>
large   == << entries, entry_free >>
reuse   == << pending_queue, ready_queue, flushing >>
vars == << locator, large, stacks, reuse, backed, live, busy >>

(***************************************************************************)
(* Size classes (size_class_utils.h, fast_free_policies.h).                *)
(***************************************************************************)

\* countr_zero(bit_ceil(n)): the exponent of the least power of two >= n.
CeilLog2(n) == CHOOSE k \in 0 .. n : 2^k >= n /\ \A j \in 0 .. k - 1 : 2^j < n

AtLeastMin(size) == IF size < MinBlock THEN MinBlock ELSE size

sizeClassIndex(size) ==
    IF size <= MinBlock THEN 0 ELSE CeilLog2(size) - CeilLog2(MinBlock)

sizeClassCount == CeilLog2(MaxBlock) - CeilLog2(MinBlock) + 1

sizeClassToBlockSize(i) == 2^CeilLog2(MinBlock) * 2^i

\* Fault: the size is not rounded to its class.
blockSizeForUnrounded(size) == AtLeastMin(size)

\* The block size a request is served with.
blockSizeFor(size) == sizeClassToBlockSize(sizeClassIndex(AtLeastMin(size)))

\* The list a freed block goes back to, from the size the client passes.
freeIndex(size) == sizeClassIndex(2^CeilLog2(AtLeastMin(size)))

Class == 0 .. sizeClassCount - 1

(***************************************************************************)
(* Blocks.  A chunk's blocks carry the chunk's slot as their handle; large *)
(* handles have their own bit, which "kind" stands for.                    *)
(***************************************************************************)

RegionOf(b) == [base |-> b.base, offset |-> b.offset, size |-> b.size]

ChunkBlock(slot, base, offset, size) ==
    [kind |-> "chunk", slot |-> slot, base |-> base, offset |-> offset, size |-> size]

LargeBlock(slot, base, size) ==
    [kind |-> "large", slot |-> slot, base |-> base, offset |-> 0, size |-> size]

NoChunk == [base |-> NoBase, size |-> 0,
            used |-> 0, pending |-> 0, alive |-> FALSE]
NoEntry == [base |-> NoBase, in_use |-> FALSE]

\* The numbers of a finite set in increasing order, and what a loop over a
\* sequence leaves of it when it keeps the entries at the indices I.
InOrder(I) == [k \in 1 .. Cardinality(I) |-> CHOOSE i \in I : Cardinality({j \in I : j <= i}) = k]
Kept(s, I) == [k \in 1 .. Cardinality(I) |-> s[InOrder(I)[k]]]

Init ==
    /\ chunks = << >> /\ chunk_free = << >>
    /\ entries = << >> /\ entry_free = << >>
    /\ stacks = [i \in Class |-> << >>]
    /\ pending_queue = << >> /\ ready_queue = << >> /\ flushing = FALSE
    /\ backed = {} /\ live = {} /\ busy = {}

\* The resource, external: it hands out a buffer it does not back already and
\* that no unfinished device work keeps alive, or it fails.
Available == {b \in Base \ backed : \A w \in busy : w.base # b}

\* reserveSlot of both tables: the last freed slot, else a new one.
reserveSlot(table, freed) == IF freed = << >> THEN Len(table) + 1 ELSE Last(freed)
withoutSlot(freed) == IF freed = << >> THEN freed ELSE Front(freed)
stored(table, slot, x) ==
    IF slot > Len(table) THEN Append(table, x) ELSE [table EXCEPT ![slot] = x]

(***************************************************************************)
(* Deferred reuse.  The timeout only refreshes an item's timestamp: an     *)
(* item leaves the queue when its token is complete and not before.        *)
(***************************************************************************)

\* Fault: an expired timeout is taken for completion.
isCompletedOrTimedOut(item) == TRUE

\* isCompleted of the item's reuse token.
isCompleted(item) == RegionOf(item.block) \notin busy

completed == {k \in DOMAIN pending_queue : isCompleted(pending_queue[k])}
stillPending == Kept(pending_queue, DOMAIN pending_queue \ completed)
nowReady == ready_queue \o Kept(pending_queue, completed)

Minus(a, b) == IF b > a THEN 0 ELSE a - b
BlocksOf(items, slot) == {k \in DOMAIN items : items[k].block.slot = slot}

\* Fault: one of the two counters is forgotten.
decrementPendingOnly(c, n) == [c EXCEPT !.pending = Minus(@, n)]

\* decrementPendingAndUsed for n blocks of the chunk; each stops at zero.
decrementPendingAndUsed(c, n) ==
    [c EXCEPT !.pending = Minus(@, n), !.used = Minus(@, n)]

\* What processPendingReuses makes of the queues, the free lists and the chunk
\* table: ready items are taken from the back of their queue.
Drained ==
    LET ready == nowReady
        returned(i) == Kept(ready, {k \in DOMAIN ready : ready[k].freelist_index = i})
    IN  [pending |-> stillPending,
         stacks |-> [i \in Class |->
             stacks[i] \o [k \in 1 .. Len(returned(i)) |-> Reverse(returned(i))[k].block]],
         chunks |-> [s \in DOMAIN chunks |->
             IF chunks[s].alive
             THEN decrementPendingAndUsed(chunks[s], Cardinality(BlocksOf(ready, s)))
             ELSE chunks[s]]]

SetQueues(d) == pending_queue' = d.pending /\ ready_queue' = << >>

processPendingReuses ==
    /\ ~ flushing
    /\ LET d == Drained IN SetQueues(d) /\ stacks' = d.stacks /\ chunks' = d.chunks
    /\ UNCHANGED << chunk_free, large, flushing, backed, live, busy >>

(***************************************************************************)
(* allocate                                                                *)
(***************************************************************************)

incrementUsed(table, slot) == [table EXCEPT ![slot].used = @ + 1]

Give(b, size) == live' = live \cup {[block |-> b, size |-> size]}

\* Served by the stack of the class.
AllocateFromList(size) ==
    LET i == sizeClassIndex(blockSizeFor(size)) d == Drained IN
    /\ ~ flushing /\ size <= MaxBlock
    /\ d.stacks[i] # << >>
    /\ LET b == Last(d.stacks[i]) IN
        /\ stacks' = [d.stacks EXCEPT ![i] = Front(@)]
        /\ chunks' = incrementUsed(d.chunks, b.slot)
        /\ Give(b, size)
    /\ SetQueues(d)
    /\ UNCHANGED << chunk_free, large, flushing, backed, busy >>

\* The blocks of a chunk: as many as cover ChunkSize.
blockCount(block) == (ChunkSize + block - 1) \div block

\* The table entry of a new chunk of n blocks, and the blocks it is cut into.
ExpandedChunk(base, n, block) ==
    [base |-> base, size |-> n * block, used |-> 0, pending |-> 0, alive |-> TRUE]
CutBlocks(slot, base, n, block) ==
    [k \in 1 .. n |-> ChunkBlock(slot, base, (k - 1) * block, block)]

\* The stack is empty and the pool is expanded by a chunk of this class.
AllocateExpanding(size, base) ==
    LET block == blockSizeFor(size)
        i == sizeClassIndex(block)
        n == blockCount(block)
        d == Drained
        slot == reserveSlot(chunks, chunk_free)
        cut == CutBlocks(slot, base, n, block)
    IN
    /\ ~ flushing /\ size <= MaxBlock
    /\ d.stacks[i] = << >>
    /\ base \in Available
    /\ chunk_free' = withoutSlot(chunk_free)
    /\ chunks' = incrementUsed(stored(d.chunks, slot, ExpandedChunk(base, n, block)), slot)
    /\ stacks' = [d.stacks EXCEPT ![i] = Front(cut)]
    /\ Give(Last(cut), size)
    /\ backed' = backed \cup {base}
    /\ SetQueues(d)
    /\ UNCHANGED << large, flushing, busy >>

\* The stack is empty and the resource fails: an empty buffer is returned, and
\* the freed blocks that were ready are back on their lists.
AllocateFails(size) ==
    LET d == Drained IN
    /\ ~ flushing /\ size <= MaxBlock
    /\ d.stacks[sizeClassIndex(blockSizeFor(size))] = << >>
    /\ stacks' = d.stacks /\ chunks' = d.chunks
    /\ SetQueues(d)
    /\ UNCHANGED << chunk_free, large, flushing, backed, live, busy >>

\* A request above max_block_size_ (a failing one changes only statistics).
AllocateLarge(size, base) ==
    LET slot == reserveSlot(entries, entry_free) IN
    /\ ~ flushing /\ size > MaxBlock
    /\ base \in Available
    /\ entries' = stored(entries, slot, [base |-> base, in_use |-> TRUE])
    /\ entry_free' = withoutSlot(entry_free)
    /\ backed' = backed \cup {base}
    /\ Give(LargeBlock(slot, base, size), size)
    /\ UNCHANGED << locator, stacks, reuse, busy >>

(***************************************************************************)
(* deallocate                                                              *)
(***************************************************************************)

incrementPending(table, slot) == [table EXCEPT ![slot].pending = @ + 1]

\* scheduleForReuse
Schedule(o) ==
    pending_queue' =
      Append(pending_queue, [block |-> o.block, freelist_index |-> freeIndex(o.size)])

Deallocate(o) ==
    /\ ~ flushing /\ o.size <= MaxBlock
    /\ live' = live \ {o}
    /\ chunks' = incrementPending(chunks, o.block.slot)
    /\ Schedule(o)
    /\ UNCHANGED << chunk_free, large, stacks, ready_queue, flushing, backed, busy >>

\* A large block is given back at once, whatever device work uses it.
DeallocateLarge(o) ==
    /\ ~ flushing /\ o.size > MaxBlock
    /\ o.block.kind = "large" /\ entries[o.block.slot].in_use
    /\ live' = live \ {o}
    /\ backed' = backed \ {entries[o.block.slot].base}
    /\ entries' = [entries EXCEPT ![o.block.slot] = NoEntry]
    /\ entry_free' = Append(entry_free, o.block.slot)
    /\ UNCHANGED << locator, stacks, reuse, busy >>

(***************************************************************************)
(* releaseChunk: every chunk with no block in use or pending goes back to  *)
(* the resource, in slot order.  Removing a chunk's blocks from a stack    *)
(* unstacks it, so what stays is left in reverse order each time.          *)
(***************************************************************************)

releasable(c) == c.alive /\ c.used = 0 /\ c.pending = 0

\* Fault: the loop over findReleasable stops after the first chunk.
releasedFirst(table) ==
    {s \in DOMAIN table : releasable(table[s]) /\ \A t \in 1 .. s - 1 : ~ releasable(table[t])}

\* The chunks the loop over findReleasable gives back.
released(table) == {s \in DOMAIN table : releasable(table[s])}

\* Fault: the blocks of a released chunk stay on their lists.
removeNothing(stack, slots) == stack

\* removeBlocksInChunk for every slot of the set.
removeBlocksInChunks(stack, slots) ==
    LET kept == Kept(stack, {k \in DOMAIN stack : stack[k].slot \notin slots})
    IN  IF Cardinality(slots) % 2 = 1 THEN Reverse(kept) ELSE kept

\* removeBlocksInChunk of the reuse policy, on one of its queues.
keptItems(items, slots) == Kept(items, {k \in DOMAIN items : items[k].block.slot \notin slots})

\* The chunk table once the chunks are given back.
freedTable(table, slots) ==
    [s \in DOMAIN table |-> IF s \in slots THEN NoChunk ELSE table[s]]

releaseChunk ==
    LET d == Drained
        slots == released(d.chunks)
    IN
    /\ ~ flushing
    /\ pending_queue' = keptItems(d.pending, slots) /\ ready_queue' = << >>
    /\ stacks' = [i \in Class |-> removeBlocksInChunks(d.stacks[i], slots)]
    /\ backed' = backed \ {chunks[s].base : s \in slots}
    /\ chunks' = freedTable(d.chunks, slots)
    /\ chunk_free' = chunk_free \o InOrder(slots)
    /\ UNCHANGED << large, flushing, live, busy >>

(***************************************************************************)
(* flushPending spins until the pending queue is empty.  It runs outside   *)
(* the lock: its caller must be alone, as here.                            *)
(***************************************************************************)

\* Fault: the loop waits for the ready queue too, which only other calls empty.
flushDoneWhenAllEmpty(pending, ready) == pending = << >> /\ ready = << >>

\* The condition of flushPending's loop.
flushDone(pending, ready) == pending = << >>

StartFlush ==
    /\ ~ flushing /\ ~ flushDone(pending_queue, ready_queue)
    /\ flushing' = TRUE
    /\ UNCHANGED << locator, large, stacks, pending_queue, ready_queue, backed, live, busy >>

FlushStep ==
    /\ flushing
    /\ pending_queue' = stillPending
    /\ ready_queue' = nowReady
    /\ flushing' = ~ flushDone(stillPending, nowReady)
    /\ UNCHANGED << locator, large, stacks, backed, live, busy >>

(***************************************************************************)
(* The device, external: it works on regions their owners submit.  The     *)
(* reuse token of a block stands for all the work submitted on it.         *)
(***************************************************************************)

Submit(o) ==
    /\ ~ flushing
    /\ busy' = busy \cup {RegionOf(o.block)}
    /\ UNCHANGED << locator, large, stacks, reuse, backed, live >>

Complete(r) ==
    /\ busy' = busy \ {r}
    /\ UNCHANGED << locator, large, stacks, reuse, backed, live >>

Next ==
    \/ \E size \in Request :
        \/ AllocateFromList(size)
        \/ AllocateFails(size)
        \/ \E base \in Base : AllocateExpanding(size, base) \/ AllocateLarge(size, base)
    \/ \E o \in live : Deallocate(o) \/ DeallocateLarge(o) \/ Submit(o)
    \/ processPendingReuses
    \/ releaseChunk
    \/ StartFlush
    \/ FlushStep
    \/ \E r \in busy : Complete(r)

\* The loop of flushPending goes on and submitted device work ends.
Fairness == WF_vars(FlushStep) /\ WF_vars(\E r \in busy : Complete(r))

Spec == Init /\ [][Next]_vars /\ Fairness

(***************************************************************************)
(* Properties.                                                             *)
(***************************************************************************)

AliveChunks == {s \in DOMAIN chunks : chunks[s].alive}
BlockSize == {sizeClassToBlockSize(i) : i \in Class}
PoolBlock == [kind : {"chunk"}, slot : DOMAIN chunks, base : Base,
              offset : Nat, size : Nat \ {0}]
LargeBlocks == [kind : {"large"}, slot : DOMAIN entries, base : Base,
                offset : {0}, size : Nat \ {0}]
Item == [block : PoolBlock, freelist_index : Class]
Region ==
    [base : Base, offset : {0}, size : {n \in Request : n > MaxBlock}]
      \cup UNION {[base : Base, offset : {k * n : k \in 0 .. blockCount(n) - 1}, size : {n}] :
                     n \in BlockSize}

\* Every list index stays in the range of the stacks and every handle names a
\* slot of its table: pop, push and the counters index them without checking
\* anything else.
TypeOK ==
    /\ \A s \in DOMAIN chunks :
        chunks[s] = NoChunk \/ chunks[s] \in [base : Base, size : Nat \ {0},
            used : Nat, pending : Nat, alive : {TRUE}]
    /\ \A s \in DOMAIN entries :
        entries[s] = NoEntry \/ entries[s] \in [base : Base, in_use : {TRUE}]
    /\ chunk_free \in Seq(DOMAIN chunks) /\ entry_free \in Seq(DOMAIN entries)
    /\ DOMAIN stacks = Class /\ \A i \in Class : stacks[i] \in Seq(PoolBlock)
    /\ pending_queue \in Seq(Item) /\ ready_queue \in Seq(Item)
    /\ flushing \in BOOLEAN /\ backed \subseteq Base
    /\ live \subseteq [block : PoolBlock \cup LargeBlocks, size : Request]
    /\ busy \subseteq Region

Freed(queue) == [k \in DOMAIN queue |-> queue[k].block]
LiveBlocks == {o.block : o \in live}
WaitingBlocks == ToSet(Freed(pending_queue)) \cup ToSet(Freed(ready_queue))
FreeBlocks == UNION {ToSet(stacks[i]) : i \in Class}
BlocksOfChunk(S, s) == {b \in S : b.kind = "chunk" /\ b.slot = s}

\* No block is in two places: held by a client, in a queue or on a stack.
EachBlockOnce ==
    /\ IsInjective(Freed(pending_queue)) /\ IsInjective(Freed(ready_queue))
    /\ ToSet(Freed(pending_queue)) \cap ToSet(Freed(ready_queue)) = {}
    /\ \A o, p \in live : o.block = p.block => o = p
    /\ LiveBlocks \cap WaitingBlocks = {}
    /\ \A i \in Class : IsInjective(stacks[i])
    /\ \A i, j \in Class : i # j => ToSet(stacks[i]) \cap ToSet(stacks[j]) = {}
    /\ FreeBlocks \cap (LiveBlocks \cup WaitingBlocks) = {}

\* The blocks clients hold, the blocks waiting for the device and the blocks
\* on the stacks are together the chunks that are alive, each byte of them
\* once: no call of allocate, deallocate, processPendingReuses, releaseChunk
\* or flushPending loses a block, keeps one of a released chunk or has one in
\* two places.
BlocksPartitionChunks ==
    LET all == LiveBlocks \cup WaitingBlocks \cup FreeBlocks IN
    /\ EachBlockOnce
    /\ \A b \in all : b.kind = "chunk" => b.slot \in AliveChunks
    /\ \A s \in AliveChunks :
        /\ chunks[s].size >= ChunkSize
        /\ \E size \in BlockSize :
            /\ chunks[s].size % size = 0
            /\ BlocksOfChunk(all, s) =
                 {ChunkBlock(s, chunks[s].base, k * size, size) :
                    k \in 0 .. chunks[s].size \div size - 1}

\* A chunk's "used" counts its blocks that are held or wait for the device and
\* its "pending" those that wait: findReleasable, which looks at nothing else,
\* never frees memory that is in use and never misses a chunk that is not.
CountsExact ==
    \A s \in AliveChunks :
        LET waiting == Cardinality(BlocksOfChunk(WaitingBlocks, s)) IN
        /\ chunks[s].pending = waiting
        /\ chunks[s].used = waiting + Cardinality(BlocksOfChunk(LiveBlocks, s))

\* Every block on the stack of a class has the size of the class, though
\* allocate and deallocate find the class along different ways (a block size
\* from a class, a power of two from a size) and min_block_size_ need be none.
StacksUniform ==
    \A i \in Class : \A k \in DOMAIN stacks[i] :
        stacks[i][k].size = sizeClassToBlockSize(i)

\* Once clients have freed everything and the device is idle, releaseChunk
\* gives back all the memory, whatever calls came before.
ReleaseReturnsAll ==
    [][releaseChunk /\ live = {} /\ busy = {} => backed' = {}]_vars

\* flushPending returns.
FlushEnds == flushing ~> ~ flushing

\* The pool hands out regions that are large enough and overlap neither another
\* client's region nor one that unfinished device work uses.
owned == {[region |-> RegionOf(o.block), size |-> o.size] : o \in live}
Abstract == INSTANCE DisjointBuffers WITH inflight <- busy
ImplementsDisjointBuffers == Abstract!Spec
=============================================================================
