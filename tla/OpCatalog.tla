------------------------------ MODULE OpCatalog ------------------------------
(***************************************************************************)
(* gen_ops: from configs/ops/ops.yml, read with the dtype document, to     *)
(* ops.def and ops_tables.h, and the queries of ops.h on these tables.     *)
(* The conventions for documents are those of DTypeCatalog.  Descriptions  *)
(* and display names are left out; the names of functions and handlers     *)
(* are texts the tables repeat.                                            *)
(***************************************************************************)
EXTENDS DTypeCatalog

CONSTANTS
    InvalidIndex,   \* kInvalidIndex, std::numeric_limits<uint32_t>::max()
    Unknown,        \* a key that no mapping of the schema has
    IntegerTexts,   \* texts with the form of an integer ...
    FloatTexts,     \* ... of a decimal number ...
    BooleanTexts    \* ... of a boolean: true, false, True, False

\* What is always true of a document of ops.
OpDocument(doc) ==
    /\ SequenceNode(doc.ops)
    /\ doc.ops \notin {Missing, Malformed} => \A i \in DOMAIN doc.ops :
        LET op == doc.ops[i] IN op # Malformed =>
            /\ SequenceNode(op.inputs) /\ SequenceNode(op.outputs) /\ SequenceNode(op.attributes)
            /\ op.metadata \notin {Missing, Malformed} =>
                SequenceNode(op.metadata.tags) /\ SequenceNode(op.metadata.aliases)

-----------------------------------------------------------------------------
(* Readers *)

\* ExpectKeys: a mapping with a key outside its schema is an error.  A
\* mapping of the model has such a key when its field "extra" says so.
ExpectKeys(node) == node.extra # Unknown

ReadOptionalString(v) == v # Malformed

ReadRequiredString(v) == v \notin {Missing, Malformed, ""}

ReadRequiredInt(v) == v \notin {Missing, Malformed}

\* ReadBool: an absent key is FALSE for every key that is read.
ReadBool(v) == v # Malformed

Flag(v) == v = TRUE

-----------------------------------------------------------------------------
(* The dtype document as gen_ops reads it *)

LoadDTypeCatalog(doc) ==
    /\ IsMappingSequence(doc.dtypes)
    /\ \A i \in DOMAIN doc.dtypes :
        /\ ReadRequiredString(doc.dtypes[i].id)
        /\ ReadOptionalString(doc.dtypes[i].category)
    /\ IsInjective(DTypeIds(doc))
    /\ Len(doc.dtypes) \in 1..MaskBits

AllMask(doc) == 0..(Len(doc.dtypes) - 1)

CategoryMask(doc, category) ==
    {i \in AllMask(doc) : OrElse(doc.dtypes[i + 1].category, "unknown") = category}

-----------------------------------------------------------------------------
(* ParseOpsFile *)

\* The three vocabularies of the file, each optional.
ParseCatalogs(c) == c # Missing =>
    /\ c # Malformed
    /\ Malformed \notin {c.categories, c.dtype_categories, c.shape_kinds}

ParseInput(input) ==
    /\ input # Malformed /\ ExpectKeys(input)
    /\ ReadRequiredString(input.name)
    /\ ReadBool(input.optional)
    /\ input.dtype_constraints \notin {Missing, Malformed}
    /\ LET c == input.dtype_constraints IN
       /\ ExpectKeys(c)
       /\ ReadRequiredString(c.mode)
       /\ ReadStringList(c.dtypes) /\ ReadStringList(c.categories)
       /\ ReadOptionalString(c.reference)
       /\ ReadBool(c.allow_promotion) /\ ReadBool(c.require_same_shape)

ParseRule(r) ==
    /\ r \notin {Missing, Malformed} /\ ExpectKeys(r)
    /\ ReadRequiredString(r.kind)
    /\ ReadStringList(r.inputs)
    /\ \A v \in {r.input, r.dtype, r.function} : ReadOptionalString(v)

ParseOutput(output) ==
    /\ output # Malformed /\ ExpectKeys(output)
    /\ ReadRequiredString(output.name)
    /\ ParseRule(output.dtype_rule)

ParseAttribute(attribute) ==
    /\ attribute # Malformed /\ ExpectKeys(attribute)
    /\ ReadRequiredString(attribute.name) /\ ReadRequiredString(attribute.type)
    /\ ReadOptionalString(attribute.default)
    /\ ReadBool(attribute.required)

ParseComputePolicy(policy) ==
    ParseRule(policy) /\ ReadOptionalString(policy.handler)

ParseShapeInference(shape) ==
    /\ shape \notin {Missing, Malformed} /\ ExpectKeys(shape)
    /\ ReadRequiredString(shape.kind)
    /\ ReadOptionalString(shape.function)

ParseMetadata(metadata) == metadata # Missing =>
    /\ metadata # Malformed /\ ExpectKeys(metadata)
    /\ ReadStringList(metadata.tags) /\ ReadStringList(metadata.aliases)
    /\ ReadBool(metadata.commutative) /\ ReadBool(metadata.differentiable)

ParseOpsFile(doc) ==
    /\ ReadRequiredString(doc.schema_version)
    /\ ParseCatalogs(doc.catalogs)
    /\ IsMappingSequence(doc.ops)
    /\ \A i \in DOMAIN doc.ops : LET op == doc.ops[i] IN
        /\ ExpectKeys(op)
        /\ ReadRequiredString(op.id) /\ ReadRequiredString(op.category)
        /\ ReadRequiredInt(op.arity)
        /\ Missing \notin {op.inputs, op.outputs}
        /\ Malformed \notin {op.inputs, op.outputs, op.attributes}
        /\ \A j \in DOMAIN op.inputs : ParseInput(op.inputs[j])
        /\ \A j \in DOMAIN op.outputs : ParseOutput(op.outputs[j])
        /\ \A j \in DOMAIN List(op.attributes) : ParseAttribute(op.attributes[j])
        /\ ParseComputePolicy(op.compute_policy)
        /\ ParseShapeInference(op.shape_inference)
        /\ ParseMetadata(op.metadata)

-----------------------------------------------------------------------------
(* ResolveOps *)

NamesOf(ports) == [i \in DOMAIN ports |-> ports[i].name]

RequiredInputs(op) == {i \in DOMAIN op.inputs : ~Flag(op.inputs[i].optional)}

ConstraintModes == {"allow", "deny", "match"}

DTypeRuleKinds == {"promote", "same_as", "fixed", "custom"}

ComputePolicyKinds == DTypeRuleKinds \cup {"derived_compute_type"}

KnownDTypes(dtypes, names) == Range(List(names)) \subseteq Range(DTypeIds(dtypes))

KnownCategories(dtypes, names) ==
    \A name \in Range(List(names)) : CategoryMask(dtypes, name) # {}

KnownInputs(op, names) == Range(List(names)) \subseteq Range(NamesOf(op.inputs))

MaskForDTypes(dtypes, names) ==
    {IndexOf(DTypeIds(dtypes), name) : name \in Range(List(names))}

MaskForCategories(dtypes, names) ==
    UNION {CategoryMask(dtypes, name) : name \in Range(List(names))}

InputMask(op, names) ==
    {IndexOf(NamesOf(op.inputs), name) : name \in Range(List(names))}

ConstraintAccepted(dtypes, op, c) ==
    /\ c.mode \in ConstraintModes
    /\ KnownDTypes(dtypes, c.dtypes) /\ KnownCategories(dtypes, c.categories)
    /\ c.mode = "match" => c.reference \in Range(NamesOf(op.inputs))

-----------------------------------------------------------------------------
(* Rules of outputs and of the compute policy *)

\* The list of a promotion must name an input, and only inputs of the op.
RuleAccepted(dtypes, op, r) ==
    /\ r.kind \in DTypeRuleKinds
    /\ r.kind = "promote" => List(r.inputs) # <<>> /\ KnownInputs(op, r.inputs)
    /\ r.kind = "same_as" => r.input \in Range(NamesOf(op.inputs))
    /\ r.kind = "fixed" => r.dtype \in Range(DTypeIds(dtypes))
    /\ r.kind = "custom" => Text(r.function) # ""

\* A policy with a function or a handler of its own may list inputs too.
PolicyAccepted(dtypes, op, r) ==
    IF r.kind \in {"derived_compute_type", "custom"}
    THEN /\ KnownInputs(op, r.inputs)
         /\ r.kind = "derived_compute_type" => Text(r.function) # ""
         /\ r.kind = "custom" => Text(r.handler) # ""
    ELSE RuleAccepted(dtypes, op, r)

IsInteger(value) == value \in IntegerTexts

IsFloatingPoint(value) == value \in IntegerTexts \cup FloatTexts

\* The default must have the form of its type; a type the generator does not
\* know is not checked.
ValidateAttributeDefault(a) == a.default # Missing =>
    /\ a.type = "int" => IsInteger(a.default)
    /\ a.type = "float" => IsInteger(a.default) \/ IsFloatingPoint(a.default)
    /\ a.type = "bool" => a.default \in BooleanTexts

\* An empty vocabulary admits every word.
InVocabulary(catalogs, key, word) ==
    catalogs # Missing =>
        LET words == catalogs[key] IN words \notin {Missing, {}} => word \in words

OpAccepted(dtypes, catalogs, op) ==
    /\ InVocabulary(catalogs, "categories", op.category)
    /\ Len(op.inputs) <= MaskBits
    /\ IsInjective(NamesOf(op.inputs))
    /\ op.arity = Cardinality(RequiredInputs(op))
    /\ \A i \in DOMAIN op.inputs :
        ConstraintAccepted(dtypes, op, op.inputs[i].dtype_constraints)
    /\ op.outputs # <<>> /\ IsInjective(NamesOf(op.outputs))
    /\ \A i \in DOMAIN op.outputs : RuleAccepted(dtypes, op, op.outputs[i].dtype_rule)
    /\ IsInjective(NamesOf(List(op.attributes)))
    /\ \A i \in DOMAIN List(op.attributes) : ValidateAttributeDefault(op.attributes[i])
    /\ PolicyAccepted(dtypes, op, op.compute_policy)
    /\ InVocabulary(catalogs, "shape_kinds", op.shape_inference.kind)

OpsAccepted(doc, dtypes) ==
    /\ ParseOpsFile(doc)
    /\ LoadDTypeCatalog(dtypes)
    /\ doc.schema_version = "1.0"
    /\ IsInjective([i \in DOMAIN doc.ops |-> doc.ops[i].id])
    /\ \A i \in DOMAIN doc.ops : OpAccepted(dtypes, doc.catalogs, doc.ops[i])

-----------------------------------------------------------------------------
(* The resolved specifications *)

\* Only "match" keeps a reference and the flags; an "allow" that lists nothing
\* allows everything; "deny" allows what it does not deny.
InputSpec(dtypes, op, input) ==
    LET c == input.dtype_constraints
        listed == MaskForDTypes(dtypes, c.dtypes)
                    \cup MaskForCategories(dtypes, c.categories)
        match == c.mode = "match"
    IN [name |-> input.name, mode |-> c.mode, optional |-> Flag(input.optional),
        allow_mask |->
            CASE c.mode = "allow" -> IF listed = {} THEN AllMask(dtypes) ELSE listed
              [] c.mode = "deny" -> AllMask(dtypes) \ listed
              [] match -> AllMask(dtypes),
        deny_mask |-> IF c.mode = "deny" THEN listed ELSE {},
        reference_input |->
            IF match THEN IndexOf(NamesOf(op.inputs), c.reference) ELSE InvalidIndex,
        allow_promotion |-> match /\ Flag(c.allow_promotion),
        require_same_shape |-> match /\ Flag(c.require_same_shape)]

\* The fields a rule's kind does not use hold zero or kInvalidIndex.
RuleSpec(dtypes, op, r) ==
    [kind |-> r.kind,
     input_mask |-> IF r.kind = "promote" THEN InputMask(op, r.inputs) ELSE {},
     reference_input |->
        IF r.kind = "same_as" THEN IndexOf(NamesOf(op.inputs), r.input) ELSE InvalidIndex,
     fixed_dtype |->
        IF r.kind = "fixed" THEN IndexOf(DTypeIds(dtypes), r.dtype) ELSE InvalidIndex,
     function |-> IF r.kind = "custom" THEN Text(r.function) ELSE ""]

OutputSpec(dtypes, op, output) ==
    [name |-> output.name, rule |-> RuleSpec(dtypes, op, output.dtype_rule)]

AttributeSpec(a) ==
    [name |-> a.name, type |-> a.type, default_value |-> Text(a.default),
     has_default |-> a.default # Missing, required |-> Flag(a.required)]

\* As for outputs, with the inputs, the function and the handler of the
\* policies that have them.
ComputePolicySpec(dtypes, op) ==
    LET r == op.compute_policy
        rule == RuleSpec(dtypes, op, r)
        own == r.kind \in {"derived_compute_type", "custom"}
    IN [kind |-> r.kind,
        input_mask |-> IF own THEN InputMask(op, r.inputs) ELSE rule.input_mask,
        reference_input |-> rule.reference_input,
        fixed_dtype |-> rule.fixed_dtype,
        function |-> IF own THEN Text(r.function) ELSE "",
        handler |-> IF r.kind = "custom" THEN Text(r.handler) ELSE ""]

-----------------------------------------------------------------------------
(* GenerateOutputs: one flat array per kind of entry, and for each op the  *)
(* offset and the number of its entries                                    *)

\* Fault: the offset is not advanced by the entries of each op.
RangesStuck(lists) ==
    [i \in DOMAIN lists |-> [offset |-> i - 1, count |-> Len(lists[i])]]

Ranges(lists) ==
    [i \in DOMAIN lists |->
        [offset |-> Len(FlattenSeq(SubSeq(lists, 1, i - 1))), count |-> Len(lists[i])]]

OpDef(doc) == [i \in DOMAIN doc.ops |-> doc.ops[i].id]

InputLists(doc, dtypes) ==
    [i \in DOMAIN doc.ops |-> [j \in DOMAIN doc.ops[i].inputs |->
        InputSpec(dtypes, doc.ops[i], doc.ops[i].inputs[j])]]

OutputLists(doc, dtypes) ==
    [i \in DOMAIN doc.ops |-> [j \in DOMAIN doc.ops[i].outputs |->
        OutputSpec(dtypes, doc.ops[i], doc.ops[i].outputs[j])]]

AttributeLists(doc) ==
    [i \in DOMAIN doc.ops |-> [j \in DOMAIN List(doc.ops[i].attributes) |->
        AttributeSpec(doc.ops[i].attributes[j])]]

MetadataList(doc, key) ==
    [i \in DOMAIN doc.ops |->
        IF doc.ops[i].metadata = Missing THEN <<>> ELSE List(doc.ops[i].metadata[key])]

MetadataFlags(op) ==
    [commutative |-> op.metadata # Missing /\ Flag(op.metadata.commutative),
     differentiable |-> op.metadata # Missing /\ Flag(op.metadata.differentiable)]

OpTables(doc, dtypes) ==
    [count |-> Len(doc.ops),
     category |-> [i \in DOMAIN doc.ops |-> doc.ops[i].category],
     arity |-> [i \in DOMAIN doc.ops |-> doc.ops[i].arity],
     inputRanges |-> Ranges(InputLists(doc, dtypes)),
     inputs |-> FlattenSeq(InputLists(doc, dtypes)),
     outputRanges |-> Ranges(OutputLists(doc, dtypes)),
     outputs |-> FlattenSeq(OutputLists(doc, dtypes)),
     attributeRanges |-> Ranges(AttributeLists(doc)),
     attributes |-> FlattenSeq(AttributeLists(doc)),
     computePolicies |-> [i \in DOMAIN doc.ops |-> ComputePolicySpec(dtypes, doc.ops[i])],
     shapeInference |-> [i \in DOMAIN doc.ops |->
        [kind |-> doc.ops[i].shape_inference.kind,
         function |-> Text(doc.ops[i].shape_inference.function)]],
     metadata |-> [i \in DOMAIN doc.ops |-> MetadataFlags(doc.ops[i])],
     tagRanges |-> Ranges(MetadataList(doc, "tags")),
     tags |-> FlattenSeq(MetadataList(doc, "tags")),
     aliasRanges |-> Ranges(MetadataList(doc, "aliases")),
     aliases |-> FlattenSeq(MetadataList(doc, "aliases"))]

-----------------------------------------------------------------------------
(* Queries of ops.h; an op is its position in ops.def *)

slice(data, range) == SubSeq(data, range.offset + 1, range.offset + range.count)

inputsOf(tables, op) == slice(tables.inputs, tables.inputRanges[op])
outputsOf(tables, op) == slice(tables.outputs, tables.outputRanges[op])
attributesOf(tables, op) == slice(tables.attributes, tables.attributeRanges[op])
tagsOf(tables, op) == slice(tables.tags, tables.tagRanges[op])
aliasesOf(tables, op) == slice(tables.aliases, tables.aliasRanges[op])

-----------------------------------------------------------------------------
(* What the tables promise about the document they were generated from *)

\* The names of the dtypes a mask of gen_ops stands for, under the numbers
\* that gen_dtypes gave to the enumerators.
DTypesOfMask(def, mask) == {def[bit + 1] : bit \in mask}

\* An input admits exactly the dtypes its constraint describes, in the terms
\* of the document: the listed dtypes and categories, or all but these.
InputAdmits(dtypes, c, names) ==
    LET listed == Range(List(c.dtypes)) \cup
            {dtypes.dtypes[i].id : i \in {k \in DOMAIN dtypes.dtypes :
                OrElse(dtypes.dtypes[k].category, "unknown") \in Range(List(c.categories))}}
        all == Range(DTypeIds(dtypes))
    IN CASE c.mode = "deny" -> names = all \ listed
         [] c.mode = "allow" /\ listed # {} -> names = listed
         [] OTHER -> names = all

\* The slices of an op are the entries the document gives it, and whatever
\* an entry refers to by number is what the document refers to by name.
OpDescribesDocument(doc, dtypes, dtypeDef, tables, i) ==
    LET op == doc.ops[i]
        ins == inputsOf(tables, i)
        outs == outputsOf(tables, i)
        attrs == attributesOf(tables, i)
        policy == tables.computePolicies[i]
        Named(mask) == {ins[bit + 1].name : bit \in mask}
        RuleMeans(r, spec) ==
            /\ r.kind = "same_as" => ins[spec.reference_input + 1].name = r.input
            /\ r.kind = "promote" => Named(spec.input_mask) = Range(r.inputs)
            /\ r.kind = "fixed" => dtypeDef[spec.fixed_dtype + 1] = r.dtype
    IN /\ NamesOf(ins) = NamesOf(op.inputs)
       /\ NamesOf(outs) = NamesOf(op.outputs)
       /\ NamesOf(attrs) = NamesOf(List(op.attributes))
       /\ tables.arity[i] = Cardinality({j \in DOMAIN ins : ~ins[j].optional})
       /\ \A j \in DOMAIN ins : LET c == op.inputs[j].dtype_constraints IN
            /\ InputAdmits(dtypes, c, DTypesOfMask(dtypeDef, ins[j].allow_mask))
            /\ c.mode = "match" => ins[ins[j].reference_input + 1].name = c.reference
       /\ \A j \in DOMAIN outs : RuleMeans(op.outputs[j].dtype_rule, outs[j].rule)
       /\ RuleMeans(op.compute_policy, policy)
       /\ op.metadata # Missing => /\ tagsOf(tables, i) = List(op.metadata.tags)
                                   /\ aliasesOf(tables, i) = List(op.metadata.aliases)
=============================================================================
