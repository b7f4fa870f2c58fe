----------------------------- MODULE VectorStorage -----------------------------
(***************************************************************************)
(* The containers of base/: SmallVector (inline storage for N elements,    *)
(* then the heap), HeapVector and RuntimeBlockVector (fixed-size blocks).  *)
(* A vector is its storage, a sequence of blocks of cells, and the fields  *)
(* of the class; a cell holds an element or is raw (never constructed, or  *)
(* destroyed).  Element operations do not throw, and allocation succeeds.  *)
(***************************************************************************)
EXTENDS Integers, FiniteSets, Sequences, SequencesExt

CONSTANTS InlineCapacity,   \* N of SmallVector
          BlockSizes,       \* block sizes of RuntimeBlockVector tried
          VectorValues,     \* element values
          MaxVectorSize,    \* bound on the number of elements
          ResizeSpilled,    \* TRUE: also resize a heap vector, with its elements, within N
          ShrinkInline      \* TRUE: also shrink a SmallVector whose elements are inline

VARIABLES vectorKind, \* the class of the two vectors: "small", "heap" or "block"
          vec,        \* the vectors
          contents    \* history: what a plain sequence would hold

vectorVars == <<vectorKind, vec, contents>>

ASSUME InlineCapacityAssumption == InlineCapacity \in Nat \ {0}

\* RuntimeBlockVector refuses blocks of no element.
ASSUME VectorBoundsAssumption ==
    /\ BlockSizes \subseteq Nat \ {0} /\ MaxVectorSize \in Nat
    /\ {ResizeSpilled, ShrinkInline} \subseteq BOOLEAN

Raw == "raw"

\* An element constructed over a live one, whose value it did not get.
Lost == "lost"

RawCells(n) == [k \in 1 .. n |-> Raw]
Vectors == {1, 2}
Other(a) == 3 - a

\* where: inline, heap or none (a null data_); net: blocks allocated less blocks
\* freed for the storage the vector owns.
OnHeap(v) == v.where = "heap"

\* ptrAt: element i (from 0) is in block i / block_size at offset i % block_size.
\* A vector with one contiguous array has a single block of capacity_ cells.
ptrAt(v, i) == <<(i \div v.blockSize) + 1, (i % v.blockSize) + 1>>
Read(v, i) == LET p == ptrAt(v, i) IN v.blocks[p[1]][p[2]]

ElementsOf(v) == [k \in 1 .. v.size |-> Read(v, k - 1)]

\* The elements xs in the cells from "from" on: cell c of block b is element
\* (b - 1) * block_size + c - 1 of the vector.
Construct(v, from, xs) ==
    [v EXCEPT !.blocks =
        [b \in DOMAIN v.blocks |-> [c \in DOMAIN v.blocks[b] |->
            LET k == (b - 1) * v.blockSize + c - from
            IN  IF k \in DOMAIN xs THEN xs[k] ELSE v.blocks[b][c]]]]
destroyRange(v, from, to) == Construct(v, from, RawCells(to - from))
Copies(n, x) == [k \in 1 .. n |-> x]

\* Fewer elements: the tail is destroyed.
Truncated(v, n) == [destroyRange(v, n, v.size) EXCEPT !.size = n]
Appended(v, xs) == [Construct(v, v.size, xs) EXCEPT !.size = @ + Len(xs)]

\* The elements moved to one array of n cells on the heap; the old array is freed.
Reallocated(v, n) ==
    [v EXCEPT !.where = "heap", !.blocks = <<ElementsOf(v) \o RawCells(n - v.size)>>,
              !.blockSize = n, !.cap = n, !.net = IF OnHeap(v) THEN @ ELSE @ + 1]

-----------------------------------------------------------------------------
(* SmallVector *)

resetInlinePointer(v) ==
    [v EXCEPT !.where = "inline", !.blocks = <<RawCells(InlineCapacity)>>,
              !.blockSize = InlineCapacity, !.cap = InlineCapacity]

releaseHeapStorage(v) == IF OnHeap(v) THEN [resetInlinePointer(v) EXCEPT !.net = @ - 1] ELSE v

smallEnsureCapacity(v, n) ==
    IF n <= v.cap THEN v ELSE Reallocated(v, IF 2 * v.cap < n THEN n ELSE 2 * v.cap)

smallEmplaceBack(v, x) == Appended(smallEnsureCapacity(v, v.size + 1), <<x>>)

\* resize gives the heap array back when the new size fits inline; the elements
\* that were in it are not moved.
smallResize(v, n, x) ==
    IF n < v.size THEN Truncated(v, n)
    ELSE IF n = v.size THEN v
    ELSE LET stored == IF n <= InlineCapacity THEN releaseHeapStorage(v) ELSE v
             room == smallEnsureCapacity(stored, n)
         IN  Appended(room, Copies(n - v.size, x))

smallAssign(v, xs) ==
    LET bare == Truncated(v, 0)
        stored == IF Len(xs) <= InlineCapacity THEN releaseHeapStorage(bare) ELSE bare
    IN  Appended(smallEnsureCapacity(stored, Len(xs)), xs)

\* What may come of constructing each inline element over itself, from itself,
\* while it is live: it stays as it is, as a number does, or its value is lost.
ConstructedOver(v) ==
    { Construct(v, 0, [k \in 1 .. v.size |-> IF k \in lost THEN Lost ELSE Read(v, k - 1)])
        : lost \in SUBSET (1 .. v.size) }

\* From the heap the elements are moved to the inline cells.
MovedInline(v) == [Construct(resetInlinePointer(v), 0, ElementsOf(v)) EXCEPT !.net = @ - 1]

\* The vectors that may result.  The elements that fit are constructed in the
\* inline cells, from the data_ of before: the heap array, or those same cells.
smallShrinkToFit(v) ==
    IF v.size = 0 THEN {releaseHeapStorage(v)}
    ELSE IF v.size <= InlineCapacity THEN IF OnHeap(v) THEN {MovedInline(v)} ELSE ConstructedOver(v)
    ELSE {IF OnHeap(v) /\ v.size < v.cap THEN Reallocated(v, v.size) ELSE v}

\* shiftRight: the elements from index on move count cells to the right.
shiftRight(v, index, count) ==
    LET tail == SubSeq(ElementsOf(v), index + 1, v.size)
    IN  Construct(destroyRange(v, index, v.size), index + count, tail)

smallInsert(v, index, xs) ==
    LET room == shiftRight(smallEnsureCapacity(v, v.size + Len(xs)), index, Len(xs))
    IN  [Construct(room, index, xs) EXCEPT !.size = @ + Len(xs)]

smallErase(v, first, last) ==
    LET tail == SubSeq(ElementsOf(v), last + 1, v.size)
    IN  Truncated(Construct(v, first, tail), v.size - (last - first))

\* Fault: the source of a move keeps the heap array it has given away.
MoveFromKeepsArray(v, o) ==
    IF OnHeap(o)
    THEN <<[o EXCEPT !.net = v.net + 1], [o EXCEPT !.net = @ - 1]>>
    ELSE <<Appended(resetInlinePointer([v EXCEPT !.size = 0]), ElementsOf(o)), Truncated(o, 0)>>

\* moveFrom(other): a heap array changes hands, inline elements are moved one by
\* one.  The pair <<this, other>>.
moveFrom(v, o) ==
    IF OnHeap(o)
    THEN <<[o EXCEPT !.net = v.net + 1], [resetInlinePointer(o) EXCEPT !.size = 0, !.net = @ - 1]>>
    ELSE <<Appended(resetInlinePointer([v EXCEPT !.size = 0]), ElementsOf(o)), Truncated(o, 0)>>

smallMoveAssign(v, o) == moveFrom(releaseHeapStorage(Truncated(v, 0)), o)

NewSmall ==
    [where |-> "inline", blocks |-> <<RawCells(InlineCapacity)>>, blockSize |-> InlineCapacity,
     cap |-> InlineCapacity, size |-> 0, net |-> 0]

\* Two heap arrays are exchanged; otherwise three moves through a temporary.
smallSwap(v, o) ==
    IF OnHeap(v) /\ OnHeap(o) THEN <<o, v>>
    ELSE LET first == moveFrom(NewSmall, o)
             second == smallMoveAssign(first[2], v)
             third == smallMoveAssign(second[2], first[1])
         IN  <<third[1], second[1]>>

-----------------------------------------------------------------------------
(* HeapVector *)

NewHeap == [where |-> "none", blocks |-> <<>>, blockSize |-> 1, cap |-> 0, size |-> 0, net |-> 0]

Freed(v) == [NewHeap EXCEPT !.net = IF OnHeap(v) THEN v.net - 1 ELSE v.net]

\* The capacity doubles (from one) until the elements fit.
heapEnsureCapacityFor(v, n) ==
    LET from == IF v.cap = 0 THEN 1 ELSE v.cap
    IN  IF n <= v.cap THEN v
        ELSE Reallocated(v, from * 2^Min({k \in 0 .. n : from * 2^k >= n}))

heapResize(v, n, x) ==
    IF n < v.size THEN Truncated(v, n)
    ELSE Appended(heapEnsureCapacityFor(v, n), Copies(n - v.size, x))

heapShrinkToFit(v) ==
    IF v.size = v.cap THEN v ELSE IF v.size = 0 THEN Freed(v) ELSE Reallocated(v, v.size)

\* Copy assignment: an empty source frees the array, a larger one replaces it by
\* an array of its size, any other is copied over the elements in place.
heapCopyAssign(v, o) ==
    LET xs == ElementsOf(o) IN
    IF o.size = 0 THEN Freed(v)
    ELSE IF v.cap < o.size
         THEN [where |-> "heap", blocks |-> <<xs>>, blockSize |-> o.size, cap |-> o.size,
               size |-> o.size, net |-> Freed(v).net + 1]
    ELSE LET over == Construct(v, 0, xs)
         IN  IF o.size < v.size THEN Truncated(over, o.size) ELSE [over EXCEPT !.size = o.size]

heapMoveAssign(v, o) ==
    LET gone == IF OnHeap(o) THEN 1 ELSE 0
    IN  <<[o EXCEPT !.net = Freed(v).net + gone], [NewHeap EXCEPT !.net = o.net - gone]>>

-----------------------------------------------------------------------------
(* RuntimeBlockVector *)

NewBlock(size) ==
    [where |-> "heap", blocks |-> <<>>, blockSize |-> size, cap |-> 0, size |-> 0, net |-> 0]

BlocksFor(n, size) == (n + size - 1) \div size

blockEnsureCapacityFor(v, n) ==
    IF n <= v.cap THEN v
    ELSE LET more == BlocksFor(n, v.blockSize) - Len(v.blocks)
             blocks == v.blocks \o [k \in 1 .. more |-> RawCells(v.blockSize)]
         IN  [v EXCEPT !.blocks = blocks, !.cap = Len(blocks) * v.blockSize, !.net = @ + more]

releaseBlocks(v) == [v EXCEPT !.blocks = <<>>, !.cap = 0, !.net = @ - Len(v.blocks)]

blockResize(v, n, x) ==
    IF n < v.size THEN Truncated(v, n)
    ELSE Appended(blockEnsureCapacityFor(v, n), Copies(n - v.size, x))

\* resizeBlocks: the elements are moved to blocks of the new size.
rebuildStorage(v, size) ==
    IF size = v.blockSize THEN v
    ELSE LET count == BlocksFor(v.size, size)
             fresh == [where |-> "heap", blocks |-> [k \in 1 .. count |-> RawCells(size)],
                       blockSize |-> size, cap |-> count * size, size |-> 0,
                       net |-> releaseBlocks(v).net + count]
         IN  Appended(fresh, ElementsOf(v))

blockMoveAssign(v, o) ==
    LET moved == Len(o.blocks)
    IN  <<[o EXCEPT !.net = releaseBlocks(v).net + moved],
          [o EXCEPT !.blocks = <<>>, !.size = 0, !.cap = 0, !.net = @ - moved]>>

-----------------------------------------------------------------------------
(* Operations, each on one of two vectors of a class *)

EnsureCapacity(v, n) ==
    CASE vectorKind = "small" -> smallEnsureCapacity(v, n)
      [] vectorKind = "heap" -> heapEnsureCapacityFor(v, n)
      [] vectorKind = "block" -> blockEnsureCapacityFor(v, n)

Becomes(a, v, xs) ==
    /\ Len(xs) <= MaxVectorSize
    /\ vec' = [vec EXCEPT ![a] = v]
    /\ contents' = [contents EXCEPT ![a] = xs]
    /\ UNCHANGED vectorKind

\* emplaceBack and pushBack.
PushBack(a, x) ==
    Becomes(a, IF vectorKind = "small" THEN smallEmplaceBack(vec[a], x)
               ELSE Appended(EnsureCapacity(vec[a], vec[a].size + 1), <<x>>),
            Append(contents[a], x))

PopBack(a) ==
    /\ vec[a].size > 0
    /\ Becomes(a, Truncated(vec[a], vec[a].size - 1), Front(contents[a]))

\* Exactly n cells for the contiguous vectors, whole blocks for the other.
Reserve(a, n) ==
    /\ n > vec[a].cap
    /\ Becomes(a, IF vectorKind = "block" THEN blockEnsureCapacityFor(vec[a], n)
                  ELSE Reallocated(vec[a], n), contents[a])

SpilledResize(v, n) ==
    vectorKind = "small" /\ OnHeap(v) /\ v.size > 0 /\ v.size < n /\ n <= InlineCapacity

Resize(a, n, x) ==
    LET old == contents[a] IN
    /\ ResizeSpilled \/ ~SpilledResize(vec[a], n)
    /\ Becomes(a, CASE vectorKind = "small" -> smallResize(vec[a], n, x)
                    [] vectorKind = "heap" -> heapResize(vec[a], n, x)
                    [] vectorKind = "block" -> blockResize(vec[a], n, x),
               IF n <= Len(old) THEN SubSeq(old, 1, n) ELSE old \o Copies(n - Len(old), x))

Clear(a) == vec[a].size > 0 /\ Becomes(a, Truncated(vec[a], 0), <<>>)

HoldsInline(v) == vectorKind = "small" /\ ~OnHeap(v) /\ v.size > 0

ShrinkToFit(a) ==
    /\ vectorKind # "block"
    /\ ShrinkInline \/ ~HoldsInline(vec[a])
    /\ \E v \in IF vectorKind = "small" THEN smallShrinkToFit(vec[a]) ELSE {heapShrinkToFit(vec[a])} :
         Becomes(a, v, contents[a])

\* insert and emplace: count copies before position index.
Insert(a, index, count, x) ==
    /\ vectorKind = "small" /\ index <= vec[a].size
    /\ Becomes(a, smallInsert(vec[a], index, Copies(count, x)),
               SubSeq(contents[a], 1, index) \o Copies(count, x)
                 \o SubSeq(contents[a], index + 1, Len(contents[a])))

Erase(a, first, last) ==
    /\ vectorKind = "small" /\ first < last /\ last <= vec[a].size
    /\ Becomes(a, smallErase(vec[a], first, last),
               SubSeq(contents[a], 1, first) \o SubSeq(contents[a], last + 1, Len(contents[a])))

Assign(a, count, x) ==
    vectorKind = "small" /\ Becomes(a, smallAssign(vec[a], Copies(count, x)), Copies(count, x))

CopyAssign(a) ==
    LET b == Other(a) IN
    /\ vectorKind # "block"
    /\ Becomes(a, IF vectorKind = "small" THEN smallAssign(vec[a], ElementsOf(vec[b]))
                  ELSE heapCopyAssign(vec[a], vec[b]), contents[b])

ResizeBlocks(a, size) ==
    vectorKind = "block" /\ Becomes(a, rebuildStorage(vec[a], size), contents[a])

Both(a, pair, xs, ys) ==
    /\ vec' = [vec EXCEPT ![a] = pair[1], ![Other(a)] = pair[2]]
    /\ contents' = [contents EXCEPT ![a] = xs, ![Other(a)] = ys]
    /\ UNCHANGED vectorKind

MoveAssign(a) ==
    LET v == vec[a]  o == vec[Other(a)] IN
    Both(a, CASE vectorKind = "small" -> smallMoveAssign(v, o)
              [] vectorKind = "heap" -> heapMoveAssign(v, o)
              [] vectorKind = "block" -> blockMoveAssign(v, o),
         contents[Other(a)], <<>>)

Swap ==
    vectorKind = "small" /\ Both(1, smallSwap(vec[1], vec[2]), contents[2], contents[1])

VectorInit ==
    /\ vectorKind \in {"small", "heap", "block"}
    /\ \E size \in BlockSizes :
         vec = [a \in Vectors |-> CASE vectorKind = "small" -> NewSmall
                                    [] vectorKind = "heap" -> NewHeap
                                    [] vectorKind = "block" -> NewBlock(size)]
    /\ contents = [a \in Vectors |-> <<>>]

Counts == 0 .. MaxVectorSize

VectorNext ==
    \/ \E a \in Vectors, x \in VectorValues : PushBack(a, x)
    \/ \E a \in Vectors : PopBack(a)
    \/ \E a \in Vectors, n \in Counts : Reserve(a, n)
    \/ \E a \in Vectors, n \in Counts, x \in VectorValues : Resize(a, n, x)
    \/ \E a \in Vectors : Clear(a)
    \/ \E a \in Vectors : ShrinkToFit(a)
    \/ \E a \in Vectors, i \in Counts, n \in 1 .. 2, x \in VectorValues : Insert(a, i, n, x)
    \/ \E a \in Vectors, i, j \in Counts : Erase(a, i, j)
    \/ \E a \in Vectors, n \in Counts, x \in VectorValues : Assign(a, n, x)
    \/ \E a \in Vectors : CopyAssign(a)
    \/ \E a \in Vectors, size \in BlockSizes : ResizeBlocks(a, size)
    \/ \E a \in Vectors : MoveAssign(a)
    \/ Swap

VectorSpec == VectorInit /\ [][VectorNext]_vectorVars

-----------------------------------------------------------------------------
(* Properties *)

\* A vector holds what the sequence of operations on it says: its first size_
\* cells are those elements, and no element is left constructed beyond them.
HoldsContents(v, xs) ==
    /\ ElementsOf(v) = xs
    /\ \A i \in v.size .. v.cap - 1 : Read(v, i) = Raw

\* capacity_ is what the storage has, and the vector owns each of its heap
\* arrays: none was freed twice, leaked, or left to two vectors.
OwnsStorage(v) ==
    /\ v.cap = Len(v.blocks) * v.blockSize /\ v.size <= v.cap
    /\ v.net = IF OnHeap(v) THEN Len(v.blocks) ELSE 0

\* "size_ is the number of constructed elements in [data_, data_ + size_)"
\* (small_vector.h): no element a vector counts is in a raw cell.
ElementsConstructed ==
    \A a \in Vectors : \A i \in 0 .. vec[a].size - 1 : Read(vec[a], i) # Raw

\* Across growth, spilling to the heap and back, insertion, copying, moving,
\* swapping and rebuilding of blocks, SmallVector, HeapVector and
\* RuntimeBlockVector hold the elements they were given, constructed once, in
\* storage of their own.  The client makes neither of two calls of SmallVector that
\* lose elements: those which ResizeSpilled and ShrinkInline stand for.
VectorsHoldElements == \A a \in Vectors : HoldsContents(vec[a], contents[a]) /\ OwnsStorage(vec[a])
=============================================================================
