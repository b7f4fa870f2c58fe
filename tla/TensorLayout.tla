----------------------------- MODULE TensorLayout -----------------------------
(***************************************************************************)
(* DenseTensorLayout (extension/tensor/layout/dense_tensor_layout.h): the  *)
(* shape, strides and offset through which a tensor view addresses its     *)
(* storage, and the operations that derive one view from another.  Next to *)
(* the layout a history variable keeps, for every index of the view, the   *)
(* element the operations' meaning puts there.  A call whose arguments are *)
(* rejected throws and changes nothing; 64-bit overflow is left out.       *)
(* The loops over the dimensions are recursive functions.                  *)
(***************************************************************************)
EXTENDS Integers, FiniteSets, Sequences

CONSTANTS Shapes,      \* shapes of the contiguous tensors started from
          NewShapes,   \* shapes asked of reshape (-1: inferred) and broadcastTo
          Steps,       \* steps asked of slice
          MaxExtent,   \* bound on the starts and sizes asked of slice
          MaxSliced,   \* bound on the dimensions one slice does not take whole
          MaxRank,     \* bound on the rank of a view
          MaxViewOps   \* bound on the length of a chain of views

VARIABLES layout,   \* the view: shape_, strides_, offset_
          elements, \* history: index of the view -> element of the storage
          viewOps   \* history: the length of the chain

layoutVars == <<layout, elements, viewOps>>

\* contiguous refuses a negative size.
ASSUME LayoutAssumption ==
    /\ Shapes \subseteq Seq(Nat) /\ NewShapes \subseteq Seq(Int) /\ Steps \subseteq Int
    /\ MaxExtent \in Nat /\ MaxSliced \in Nat /\ MaxRank \in Nat /\ MaxViewOps \in Nat

rank == Len(layout.shape)

-----------------------------------------------------------------------------
(* DenseTensorLayout *)

\* The sums of the first n terms of a list.
Sums(terms) == LET sum[n \in 0 .. Len(terms)] == IF n = 0 THEN 0 ELSE sum[n - 1] + terms[n] IN sum
Total(terms) == Sums(terms)[Len(terms)]

\* The number of elements in the last n dimensions.
Extents(shape) ==
    LET extent[n \in 0 .. Len(shape)] == IF n = 0 THEN 1 ELSE extent[n - 1] * shape[Len(shape) + 1 - n]
    IN  extent
numelOf(shape) == Extents(shape)[Len(shape)]

Indices(shape) ==
    {idx \in [DOMAIN shape -> UNION {0 .. shape[d] - 1 : d \in DOMAIN shape}] :
        \A d \in DOMAIN shape : idx[d] < shape[d]}

makeContiguousStrides(shape) == [d \in DOMAIN shape |-> Extents(shape)[Len(shape) - d]]

contiguous(shape) == [shape |-> shape, strides |-> makeContiguousStrides(shape), offset |-> 0]

\* The strides are compared with the running product of the sizes, those of
\* dimensions of size one included.
isContiguous(v) == v.strides = makeContiguousStrides(v.shape)

transpose(v, perm) ==
    [v EXCEPT !.shape = [d \in DOMAIN perm |-> v.shape[perm[d]]],
              !.strides = [d \in DOMAIN perm |-> v.strides[perm[d]]]]

\* One dimension of slice is accepted: an empty one may start at the end.
SliceDimAccepts(dim, start, size, step) ==
    /\ 0 <= start /\ start <= dim /\ size >= 0 /\ step # 0
    /\ size # 0 => LET last == start + (size - 1) * step
                   IN  start < dim /\ IF step > 0 THEN last < dim ELSE last >= 0

slice(v, starts, sizes, steps) ==
    [shape |-> sizes,
     strides |-> [d \in DOMAIN v.shape |-> v.strides[d] * steps[d]],
     offset |-> v.offset + Total([d \in DOMAIN v.shape |-> starts[d] * v.strides[d]])]

\* known_product: neither the inferred dimension nor a zero is a factor.
Known(shape) == numelOf([d \in DOMAIN shape |-> IF shape[d] \in {-1, 0} THEN 1 ELSE shape[d]])
Inferred(shape) == {d \in DOMAIN shape : shape[d] = -1}
HasZero(shape) == \E d \in DOMAIN shape : shape[d] = 0

\* At most one dimension is inferred, and the elements fit the new shape.
ShapeFits(v, shape) ==
    /\ \A d \in DOMAIN shape : shape[d] >= -1
    /\ \A d, e \in Inferred(shape) : d = e
    /\ IF Inferred(shape) = {}
       THEN numelOf(v.shape) = IF HasZero(shape) THEN 0 ELSE Known(shape)
       ELSE ~HasZero(shape) /\ numelOf(v.shape) # 0 /\ numelOf(v.shape) % Known(shape) = 0

\* Fault: a view whose elements are not in order is reshaped too.
ReshapesAnyView(v, shape) == ShapeFits(v, shape)

ReshapeAccepts(v, shape) == isContiguous(v) /\ ShapeFits(v, shape)

reshape(v, shape) ==
    LET resolved == [d \in DOMAIN shape |-> IF shape[d] = -1 THEN numelOf(v.shape) \div Known(shape)
                                            ELSE shape[d]]
    IN  [shape |-> resolved, strides |-> makeContiguousStrides(resolved), offset |-> v.offset]

\* The dimension of v that lines up with dimension d of a longer shape; a
\* dimension of v is missing for the leading ones.
Aligned(v, shape, d) == d - (Len(shape) - Len(v.shape))
OldDim(v, shape, d) == IF Aligned(v, shape, d) > 0 THEN v.shape[Aligned(v, shape, d)] ELSE 1
OldStride(v, shape, d) == IF Aligned(v, shape, d) > 0 THEN v.strides[Aligned(v, shape, d)] ELSE 0

BroadcastAccepts(v, shape) ==
    /\ \A d \in DOMAIN shape : shape[d] >= 0
    /\ Len(shape) >= Len(v.shape)
    /\ \A d \in DOMAIN shape : OldDim(v, shape, d) \in {shape[d], 1}

broadcastTo(v, shape) ==
    [v EXCEPT !.shape = shape,
              !.strides = [d \in DOMAIN shape |->
                             IF OldDim(v, shape, d) = shape[d] THEN OldStride(v, shape, d) ELSE 0]]

\* The dimensions left, in order.
Kept(v, dims) ==
    LET keep[n \in 0 .. Len(v.shape)] ==
            IF n = 0 THEN <<>> ELSE IF n \in dims THEN keep[n - 1] ELSE Append(keep[n - 1], n)
    IN  keep[Len(v.shape)]

squeeze(v, dims) ==
    LET kept == Kept(v, dims)
    IN  [v EXCEPT !.shape = [d \in DOMAIN kept |-> v.shape[kept[d]]],
                  !.strides = [d \in DOMAIN kept |-> v.strides[kept[d]]]]

\* xs with x put at position dim.
Inserted(xs, dim, x) ==
    [d \in 1 .. Len(xs) + 1 |-> IF d < dim THEN xs[d] ELSE IF d = dim THEN x ELSE xs[d - 1]]

\* The stride of the new dimension is what contiguity asks for.
unsqueeze(v, dim) ==
    [v EXCEPT !.shape = Inserted(@, dim, 1),
              !.strides = Inserted(@, dim, IF dim <= Len(v.shape) THEN @[dim] * v.shape[dim] ELSE 1)]

-----------------------------------------------------------------------------
(* Operations.  From[idx] is the index of the old view whose element the      *)
(* operation's meaning puts at index idx of the new one.                      *)

View(new, From) ==
    /\ viewOps < MaxViewOps /\ Len(new.shape) <= MaxRank
    /\ layout' = new
    /\ elements' = [idx \in Indices(new.shape) |-> elements[From[idx]]]
    /\ viewOps' = viewOps + 1

Transpose ==
    \E perm \in {p \in [1 .. rank -> 1 .. rank] : \A d, e \in 1 .. rank : p[d] = p[e] => d = e} :
        LET new == transpose(layout, perm)
        IN  View(new, [idx \in Indices(new.shape) |->
                          [d \in 1 .. rank |-> idx[CHOOSE e \in 1 .. rank : perm[e] = d]]])

\* The dimensions not in dims are taken whole.
Slice ==
    \E dims \in {ds \in SUBSET (1 .. rank) : Cardinality(ds) <= MaxSliced} :
    \E start, size \in [dims -> 0 .. MaxExtent], step \in [dims -> Steps] :
        LET starts == [d \in 1 .. rank |-> IF d \in dims THEN start[d] ELSE 0]
            sizes == [d \in 1 .. rank |-> IF d \in dims THEN size[d] ELSE layout.shape[d]]
            steps == [d \in 1 .. rank |-> IF d \in dims THEN step[d] ELSE 1]
        IN  /\ \A d \in 1 .. rank : SliceDimAccepts(layout.shape[d], starts[d], sizes[d], steps[d])
            /\ View(slice(layout, starts, sizes, steps),
                    [idx \in Indices(sizes) |-> [d \in 1 .. rank |-> starts[d] + idx[d] * steps[d]]])

\* The position of an index when the last dimension varies fastest.
RowMajor(shape, idx) ==
    LET pos[n \in 0 .. Len(shape)] == IF n = 0 THEN 0 ELSE pos[n - 1] * shape[n] + idx[n]
    IN  pos[Len(shape)]

Reshape ==
    \E shape \in NewShapes :
        /\ ReshapeAccepts(layout, shape)
        /\ LET new == reshape(layout, shape)
           IN  View(new, [idx \in Indices(new.shape) |->
                             CHOOSE old \in Indices(layout.shape) :
                                 RowMajor(layout.shape, old) = RowMajor(new.shape, idx)])

BroadcastTo ==
    \E shape \in NewShapes :
        /\ BroadcastAccepts(layout, shape)
        /\ View(broadcastTo(layout, shape),
                [idx \in Indices(shape) |-> [d \in 1 .. rank |->
                    IF layout.shape[d] = 1 THEN 0 ELSE idx[d + Len(shape) - rank]]])

\* squeeze() drops every dimension of size one, squeeze(dims) the given ones.
Squeeze ==
    \E dims \in SUBSET {d \in 1 .. rank : layout.shape[d] = 1} :
        LET kept == Kept(layout, dims)
            new == squeeze(layout, dims)
        IN  View(new, [idx \in Indices(new.shape) |-> [d \in 1 .. rank |->
                IF d \in dims THEN 0 ELSE idx[CHOOSE e \in DOMAIN kept : kept[e] = d]]])

Unsqueeze ==
    \E dim \in 1 .. rank + 1 :
        LET new == unsqueeze(layout, dim)
        IN  View(new, [idx \in Indices(new.shape) |->
                          [d \in 1 .. rank |-> IF d < dim THEN idx[d] ELSE idx[d + 1]]])

RowMajorOrder(shape) == [idx \in Indices(shape) |-> RowMajor(shape, idx)]

\* The caller starts over with a new tensor.
Contiguous ==
    \E shape \in Shapes :
        /\ viewOps > 0
        /\ layout' = contiguous(shape)
        /\ elements' = RowMajorOrder(shape)
        /\ viewOps' = 0

LayoutInit ==
    /\ \E shape \in Shapes : layout = contiguous(shape) /\ elements = RowMajorOrder(shape)
    /\ viewOps = 0

LayoutNext == Contiguous \/ Transpose \/ Slice \/ Reshape \/ BroadcastTo \/ Squeeze \/ Unsqueeze

LayoutSpec == LayoutInit /\ [][LayoutNext]_layoutVars

-----------------------------------------------------------------------------
(* Properties *)

Address(v, idx) == v.offset + Total([d \in DOMAIN v.shape |-> idx[d] * v.strides[d]])

\* Through any chain of views DenseTensorLayout addresses, for every index, the
\* element that the meaning of the operations puts there; in particular it
\* never leaves the storage of the tensor the chain started from.
ViewsKeepElements ==
    \A idx \in Indices(layout.shape) : Address(layout, idx) = elements[idx]
=============================================================================
