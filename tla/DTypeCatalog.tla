---------------------------- MODULE DTypeCatalog ----------------------------
(***************************************************************************)
(* gen_dtypes: from configs/dtype/dtypes.yml to dtype.def and              *)
(* dtype_tables.h, and the queries of dtype.h on these tables.             *)
(*                                                                         *)
(* A document is a record of YAML values.  A key that is absent has the    *)
(* value Missing; a node of the wrong kind (a mapping where a scalar       *)
(* belongs, a scalar where a sequence belongs, a text that is no integer)  *)
(* has the value Malformed.  Every check of the generator throws and main  *)
(* then exits with 1 before it has written anything, so that the order of  *)
(* the checks cannot be observed: a document is accepted when it passes    *)
(* all of them.  A 64-bit mask is the set of its bits.                     *)
(***************************************************************************)
EXTENDS Integers, Sequences, Functions, SequencesExt

CONSTANTS
    Missing,     \* the value of an absent key
    Malformed,   \* a node of the wrong kind
    MaskBits     \* bits of a mask: std::uint64_t, 64 in the code

ASSUME MaskBitsAssumption == MaskBits \in Nat \ {0}

ASSUME MissingAssumption == Missing \notin Int

\* A key's value where a sequence belongs, and where a number belongs: absent,
\* of the wrong kind, or as it should be.
SequenceNode(v) == v \in {Missing, Malformed} \/ v \in Seq(Range(v))

NumberNode(v) == v \in {Missing, Malformed} \/ v \in Int

\* What is always true of a dtype document.
DTypeDocument(doc) ==
    /\ SequenceNode(doc.dtypes)
    /\ doc.dtypes \notin {Missing, Malformed} => \A i \in DOMAIN doc.dtypes :
        doc.dtypes[i] # Malformed => NumberNode(doc.dtypes[i].promotion_priority)

-----------------------------------------------------------------------------
(* Readers *)

\* ReadString: an absent key is an error only when it is required.
ReadString(v, required) == IF v = Missing THEN ~required ELSE v # Malformed

\* The text ReadString returns: empty when the key is absent.
Text(v) == IF v = Missing THEN "" ELSE v

\* A string read and found to be empty takes its default.
OrElse(v, default) == IF Text(v) = "" THEN default ELSE v

\* ReadStringList: an absent key is the empty list, every entry is a scalar.
ReadStringList(v) ==
    v # Missing => v # Malformed /\ \A i \in DOMAIN v : v[i] # Malformed

List(v) == IF v = Missing THEN <<>> ELSE v

ReadInt(v) == v # Malformed

\* A required sequence of mappings.
IsMappingSequence(v) ==
    /\ v \notin {Missing, Malformed}
    /\ \A i \in DOMAIN v : v[i] # Malformed

-----------------------------------------------------------------------------
(* The dtype document: ParseConfig, ResolveConfig *)

\* The position of an identifier in the document, the value of its
\* enumerator: identifiers are unique.
IndexOf(ids, id) == (CHOOSE i \in DOMAIN ids : ids[i] = id) - 1

DTypeIds(doc) == [i \in DOMAIN doc.dtypes |-> doc.dtypes[i].id]

ParseConfig(doc) ==
    /\ ReadString(doc.schema_version, TRUE)
    /\ IsMappingSequence(doc.dtypes)
    /\ \A i \in DOMAIN doc.dtypes : LET d == doc.dtypes[i] IN
        /\ ReadString(d.id, TRUE) /\ d.id # ""
        /\ ReadString(d.cpp_type, TRUE) /\ d.cpp_type # ""
        /\ ReadString(d.category, FALSE)
        /\ ReadInt(d.promotion_priority)
        /\ ReadString(d.compute_dtype, FALSE)
        /\ ReadStringList(d.implicit_cast_to)
        /\ ReadStringList(d.explicit_cast_to)
    /\ IsInjective(DTypeIds(doc))
    /\ IsInjective([i \in DOMAIN doc.dtypes |-> doc.dtypes[i].cpp_type])
    /\ doc.promotion_overrides # Missing =>
        /\ IsMappingSequence(doc.promotion_overrides)
        /\ \A i \in DOMAIN doc.promotion_overrides :
            \A key \in {"lhs", "rhs", "result"} :
                ReadString(doc.promotion_overrides[i][key], TRUE)

\* Every dtype that is referred to exists, and no cast target is listed twice.
ResolveConfig(doc) ==
    LET ids == Range(DTypeIds(doc)) IN
    /\ doc.schema_version = "1.0"
    /\ \A i \in DOMAIN doc.dtypes : LET d == doc.dtypes[i] IN
        /\ OrElse(d.compute_dtype, d.id) \in ids
        /\ \A targets \in {List(d.implicit_cast_to), List(d.explicit_cast_to)} :
            Range(targets) \subseteq ids /\ IsInjective(targets)
    /\ \A i \in DOMAIN List(doc.promotion_overrides) :
        \A key \in {"lhs", "rhs", "result"} :
            doc.promotion_overrides[i][key] \in ids

DTypesAccepted(doc) ==
    /\ ParseConfig(doc)
    /\ ResolveConfig(doc)
    /\ Len(doc.dtypes) \in 1..MaskBits

-----------------------------------------------------------------------------
(* The tables: GenerateOutputs.  Enumerators are the numbers 0, 1, ... in  *)
(* the order of the document.                                              *)

PriorityOf(doc, i) ==
    LET p == doc.dtypes[i + 1].promotion_priority IN IF p = Missing THEN 0 ELSE p

ByPriority(doc, i, j) ==
    IF PriorityOf(doc, i) >= PriorityOf(doc, j) THEN i ELSE j

\* The overrides are written into the table in their order; each one changes
\* the entry of its operands in the order given, not the mirrored one.
PromotionTable(doc) ==
    LET ids == DTypeIds(doc)
        n == Len(ids)
        overrides == List(doc.promotion_overrides)
        For(i, j) == {k \in DOMAIN overrides :
                        /\ IndexOf(ids, overrides[k].lhs) = i
                        /\ IndexOf(ids, overrides[k].rhs) = j}
    IN [i \in 0..(n - 1) |-> [j \in 0..(n - 1) |->
            IF For(i, j) = {} THEN ByPriority(doc, i, j)
            ELSE IndexOf(ids, overrides[Max(For(i, j))].result)]]

\* Fault: an implicit cast is not entered as an explicit one.
CastMasksApart(doc) ==
    LET ids == DTypeIds(doc)
        Bits(targets) == {IndexOf(ids, targets[k]) : k \in DOMAIN targets}
    IN [i \in 0..(Len(ids) - 1) |->
        LET d == doc.dtypes[i + 1] IN
        [implicit |-> {i} \cup Bits(List(d.implicit_cast_to)),
         explicit |-> {i} \cup Bits(List(d.explicit_cast_to))]]

\* A dtype casts to itself, and explicitly to whatever it casts to implicitly.
CastMasks(doc) ==
    LET ids == DTypeIds(doc)
        Bits(targets) == {IndexOf(ids, targets[k]) : k \in DOMAIN targets}
    IN [i \in 0..(Len(ids) - 1) |->
        LET d == doc.dtypes[i + 1]
            implicit == {i} \cup Bits(List(d.implicit_cast_to))
        IN [implicit |-> implicit,
            explicit |-> implicit \cup Bits(List(d.explicit_cast_to))]]

DTypeDef(doc) == DTypeIds(doc)

DTypeTables(doc) ==
    LET ids == DTypeIds(doc) IN
    [count |-> Len(ids),
     category |-> [i \in DOMAIN ids |-> OrElse(doc.dtypes[i].category, "unknown")],
     priority |-> [i \in DOMAIN ids |-> PriorityOf(doc, i - 1)],
     computeType |-> [i \in DOMAIN ids |->
        IndexOf(ids, OrElse(doc.dtypes[i].compute_dtype, ids[i]))],
     promotion |-> PromotionTable(doc),
     casts |-> CastMasks(doc)]

-----------------------------------------------------------------------------
(* Queries of dtype.h; a dtype is the number of its enumerator *)

promote(tables, lhs, rhs) == tables.promotion[lhs][rhs]

canCast(tables, from, to, mode) == to \in tables.casts[from][mode]

-----------------------------------------------------------------------------
(* What the tables promise about the document they were generated from *)

\* Promotion never loses precision unless an override says so: the result is
\* one of the operands, of a priority no lower than either; the operands'
\* order matters only between dtypes of equal priority or under an override.
PromotionWidens(doc, tables) ==
    LET ids == DTypeIds(doc)
        Overridden(i, j) == \E k \in DOMAIN List(doc.promotion_overrides) :
            LET o == doc.promotion_overrides[k] IN
            o.lhs = ids[i + 1] /\ o.rhs = ids[j + 1]
        enum == 0..(tables.count - 1)
    IN \A i, j \in enum : ~Overridden(i, j) =>
        LET r == promote(tables, i, j) IN
        /\ r \in {i, j}
        /\ tables.priority[r + 1] >= tables.priority[i + 1]
        /\ tables.priority[r + 1] >= tables.priority[j + 1]
        /\ r # promote(tables, j, i) =>
            Overridden(j, i) \/ tables.priority[i + 1] = tables.priority[j + 1]

\* An implicit cast is always an explicit one as well.
ImplicitIsExplicit(tables) ==
    \A i, j \in 0..(tables.count - 1) :
        canCast(tables, i, j, "implicit") => canCast(tables, i, j, "explicit")
=============================================================================
