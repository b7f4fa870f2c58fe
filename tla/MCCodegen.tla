------------------------------ MODULE MCCodegen ------------------------------
(***************************************************************************)
(* Small documents for the generators: one that every generator accepts,   *)
(* and edits of one place each, both legal ones and ones to be rejected.   *)
(***************************************************************************)
EXTENDS Codegen

-----------------------------------------------------------------------------
(* dtypes.yml *)

DType(id, category, priority, implicit, explicit) ==
    [id |-> id, cpp_type |-> id, category |-> category, promotion_priority |-> priority,
     compute_dtype |-> Missing, implicit_cast_to |-> implicit, explicit_cast_to |-> explicit]

I8 == DType("I8", "int", 1, <<"F32">>, Missing)
F16 == DType("F16", "float", 2, <<"F32">>, <<"I8">>)
F32 == DType("F32", "float", 3, Missing, <<"F16", "I8">>)

DTypesDoc(list, overrides) ==
    [schema_version |-> "1.0", dtypes |-> list, promotion_overrides |-> overrides]

Override(l, r, result) == [lhs |-> l, rhs |-> r, result |-> result]

BaseDTypes == DTypesDoc(<<I8, F16, F32>>, Missing)

DTypeVariants == {
    DTypesDoc(<<F32, F16, I8>>, Missing),
    DTypesDoc(<<I8, [F16 EXCEPT !.promotion_priority = 3], F32>>, Missing),
    DTypesDoc(<<I8, [F16 EXCEPT !.promotion_priority = Missing, !.category = Missing], F32>>, Missing),
    DTypesDoc(<<I8, [F16 EXCEPT !.compute_dtype = "F32"], F32>>,
              <<Override("I8", "F16", "F32"), Override("F16", "I8", "F16"), Override("I8", "F16", "I8")>>),
    DTypesDoc(<<I8, F16, F32>>, <<Override("I8", "F64", "F32")>>),
    DTypesDoc(<<I8, [F16 EXCEPT !.implicit_cast_to = <<"F32", "F32">>], F32>>, Missing),
    DTypesDoc(<<I8, [F16 EXCEPT !.compute_dtype = "F64"], F32>>, Missing),
    DTypesDoc(<<I8, [F16 EXCEPT !.id = "I8"], F32>>, Missing),
    DTypesDoc(<<I8, F16, F32, DType("F64", "float", 4, Missing, Missing)>>, Missing),
    DTypesDoc(<<I8, F16, F32, DType("F64", "float", 4, Missing, Missing),
                DType("U8", "int", 0, Missing, Missing)>>, Missing),
    DTypesDoc(<<>>, Missing), DTypesDoc(Malformed, Missing),
    [BaseDTypes EXCEPT !.schema_version = "2.0"] }

-----------------------------------------------------------------------------
(* ops.yml *)

Constraint(mode, dtypes, categories, reference) ==
    [extra |-> Missing, mode |-> mode, dtypes |-> dtypes, categories |-> categories,
     reference |-> reference, allow_promotion |-> TRUE, require_same_shape |-> Missing]

Input(name, c, optional) ==
    [extra |-> Missing, name |-> name, optional |-> optional, dtype_constraints |-> c]

Rule(kind, inputs, input, dtype, function) ==
    [extra |-> Missing, kind |-> kind, inputs |-> inputs, input |-> input,
     dtype |-> dtype, function |-> function, handler |-> Missing]

SameAs(input) == Rule("same_as", Missing, input, Missing, Missing)
Promote(inputs) == Rule("promote", inputs, Missing, Missing, Missing)
Fixed(dtype) == Rule("fixed", Missing, Missing, dtype, Missing)

Output(name, rule) == [extra |-> Missing, name |-> name, dtype_rule |-> rule]

Attribute(name, type, default) ==
    [extra |-> Missing, name |-> name, type |-> type, default |-> default, required |-> Missing]

Metadata(tags, aliases) ==
    [extra |-> Missing, tags |-> tags, aliases |-> aliases,
     commutative |-> TRUE, differentiable |-> Missing]

Op(id, arity, inputs, outputs, attributes, policy, metadata) ==
    [extra |-> Missing, id |-> id, category |-> "math", arity |-> arity, inputs |-> inputs,
     outputs |-> outputs, attributes |-> attributes, compute_policy |-> policy,
     shape_inference |-> [extra |-> Missing, kind |-> "same", function |-> Missing],
     metadata |-> metadata]

Add == Op("Add", 2,
    <<Input("a", Constraint("allow", <<"I8">>, <<"float">>, Missing), Missing),
      Input("b", Constraint("match", Missing, Missing, "a"), FALSE)>>,
    <<Output("y", Promote(<<"a", "b">>))>>, Missing, Promote(<<"b", "a">>),
    Metadata(<<"t1", "t2">>, <<"plus">>))

Clip == Op("Clip", 1,
    <<Input("x", Constraint("deny", <<"F16">>, Missing, Missing), Missing),
      Input("lo", Constraint("allow", Missing, Missing, Missing), TRUE)>>,
    <<Output("y", SameAs("x")), Output("mask", Fixed("I8"))>>,
    <<Attribute("k", "int", "12"), Attribute("mode", "word", Missing)>>, SameAs("lo"), Missing)

OpsDoc(list, catalogs) == [schema_version |-> "1.0", catalogs |-> catalogs, ops |-> list]

Catalogs(words) == [categories |-> words, dtype_categories |-> Missing, shape_kinds |-> {}]

BaseOps == OpsDoc(<<Add, Clip>>, Catalogs({"math"}))

OpVariants == {
    OpsDoc(<<Clip, Add>>, Missing), OpsDoc(<<Add>>, Missing), OpsDoc(<<>>, Missing),
    OpsDoc(<<Add, Clip>>, Catalogs({"nn"})), OpsDoc(<<Add, Add>>, Missing),
    OpsDoc(<<Add, Clip>>, Malformed)} \cup
    {OpsDoc(<<Clip, op>>, Catalogs(Missing)) : op \in {
        [Add EXCEPT !.arity = 1], [Add EXCEPT !.arity = -1],
        [Add EXCEPT !.extra = Unknown], [Add EXCEPT !.category = ""],
        [Add EXCEPT !.inputs[2].name = "a"],
        [Add EXCEPT !.inputs[1].dtype_constraints.mode = "only"],
        [Add EXCEPT !.inputs[1].dtype_constraints.categories = <<"bool">>],
        [Add EXCEPT !.inputs[1].dtype_constraints = Constraint("deny", <<"I8">>, <<"float">>, Missing)],
        [Add EXCEPT !.inputs[2].dtype_constraints.reference = "c"],
        [Add EXCEPT !.outputs = <<>>],
        [Add EXCEPT !.outputs[1].dtype_rule = Promote(<<>>)],
        [Add EXCEPT !.outputs[1].dtype_rule = SameAs("c")],
        [Add EXCEPT !.outputs[1].dtype_rule = Fixed("F64")],
        [Add EXCEPT !.outputs[1].dtype_rule = Rule("custom", Missing, Missing, Missing, "f")],
        [Add EXCEPT !.outputs[1].dtype_rule = Rule("custom", Missing, Missing, Missing, "")],
        [Add EXCEPT !.attributes = <<Attribute("k", "int", "1.5")>>],
        [Add EXCEPT !.attributes = <<Attribute("k", "float", "1.5"), Attribute("f", "bool", "true")>>],
        [Add EXCEPT !.compute_policy = Rule("derived_compute_type", <<"b">>, Missing, Missing, "f")],
        [Add EXCEPT !.compute_policy = Fixed("F16")],
        [Add EXCEPT !.compute_policy = [Rule("custom", <<"a">>, Missing, Missing, Missing)
                                            EXCEPT !.handler = "h"]],
        [Add EXCEPT !.compute_policy = Rule("derived_compute_type", Missing, Missing, Missing, Missing)],
        [Add EXCEPT !.metadata = Malformed], [Add EXCEPT !.shape_inference = Missing] }}

-----------------------------------------------------------------------------
(* executions.yml, architectures.yml, devices.yml *)

Execution(id) == [id |-> id, display_name |-> "d", module_path |-> "m", metadata |-> Missing]

ExecutionsDoc(list) == [schema_version |-> "1", executions |-> list]

BaseExecutions == ExecutionsDoc(<<Execution("Cpu"), Execution("Cuda"), Execution("Mps")>>)

ExecutionVariants == {
    ExecutionsDoc(<<Execution("Mps"), Execution("Cuda"), Execution("Cpu")>>),
    ExecutionsDoc(<<Execution("Cpu"), Execution("Cuda"), Execution("Mps"), Execution("Npu")>>),
    ExecutionsDoc(<<Execution("Cpu"), Execution("Cpu")>>), ExecutionsDoc(<<>>),
    ExecutionsDoc(<<Execution("9x")>>), ExecutionsDoc(Missing),
    [BaseExecutions EXCEPT !.executions[1].display_name = Missing],
    [BaseExecutions EXCEPT !.executions[2].metadata = [extra |-> Unknown]] }

NoDetect == [extra |-> Missing, vendor |-> Missing, family |-> Missing, model |-> Missing,
    features |-> Missing, machine_ids |-> Missing, compute_capability |-> Missing,
    metal_family |-> Missing]

Architecture(id, execution, parent, detect) ==
    [id |-> id, execution |-> execution, display_name |-> "d",
     metadata |-> [extra |-> Missing, parent |-> parent, detect |-> detect]]

Zen4 == Architecture("Zen4", "Cpu", "CpuGeneric",
    [NoDetect EXCEPT !.vendor = "AMD", !.family = 25, !.features = <<"AVX512">>])
Skylake == Architecture("Skylake", "Cpu", "CpuGeneric",
    [NoDetect EXCEPT !.vendor = "intel", !.model = <<85, 86>>, !.features = <<"avx2", "AVX512">>])
Sm80 == Architecture("Sm80", "Cuda", "CudaGeneric", [NoDetect EXCEPT !.compute_capability = 80])
Sm90 == Architecture("Sm90", "Cuda", "Sm80", [NoDetect EXCEPT !.compute_capability = 90])
M3 == Architecture("M3", "Mps", "MpsGeneric", [NoDetect EXCEPT !.metal_family = "m3"])

ArchitecturesDoc(list) == [schema_version |-> "1", architectures |-> list]

BaseArchitectures == ArchitecturesDoc(<<Sm90, Zen4, Sm80, Skylake, M3>>)

ArchitectureVariants == {
    ArchitecturesDoc(<<>>), ArchitecturesDoc(<<M3, Skylake, Sm80, Zen4, Sm90>>),
    ArchitecturesDoc(<<Sm80, Sm90, Zen4, Skylake, M3, [M3 EXCEPT !.id = "M4"], [M3 EXCEPT !.id = "M5"]>>),
    ArchitecturesDoc(<<Sm80, Sm90, Zen4, Skylake, M3, [Sm80 EXCEPT !.id = "Zen4"]>>),
    ArchitecturesDoc(<<Sm80, Sm90, Zen4, [Skylake EXCEPT !.metadata.parent = "Sm80"], M3>>),
    ArchitecturesDoc(<<[Sm80 EXCEPT !.metadata.parent = "Sm90"], Sm90, Zen4, M3>>),
    ArchitecturesDoc(<<Sm80, Sm90, Zen4, [M3 EXCEPT !.metadata.parent = "M3"]>>),
    ArchitecturesDoc(<<Sm80, Sm90, Zen4, M3, [M3 EXCEPT !.metadata = Missing, !.id = "M4"]>>),
    ArchitecturesDoc(<<Sm80, Sm90, Zen4, M3, [Zen4 EXCEPT !.id = "CPUGENERIC"]>>),
    ArchitecturesDoc(<<Sm80, Sm90, Zen4, M3, [Zen4 EXCEPT !.id = "Generic"]>>),
    ArchitecturesDoc(<<Sm80, Sm90, Zen4, M3, [Zen4 EXCEPT !.id = "Zen5", !.metadata.detect = Missing]>>),
    ArchitecturesDoc(<<Sm80, Sm90, Zen4, M3,
        [Zen4 EXCEPT !.id = "Mac", !.metadata.detect = [NoDetect EXCEPT !.machine_ids = <<"mac14">>]],
        [Zen4 EXCEPT !.id = "Any", !.metadata.detect = NoDetect]>>),
    ArchitecturesDoc(<<Sm80, Sm90, M3, [Zen4 EXCEPT !.id = "Mac",
        !.metadata.detect = [NoDetect EXCEPT !.family = -2, !.machine_ids = <<"mac13", "mac14">>]]>>),
    ArchitecturesDoc(<<Sm80, Sm90, Zen4, [M3 EXCEPT !.execution = "Npu"]>>),
    ArchitecturesDoc(<<Sm80, Zen4, M3, [Sm90 EXCEPT !.metadata.detect.features = <<"">>]>>) }

Device(id, execution, architecture, dtypes, ops) ==
    [id |-> id, display_name |-> "d", execution |-> execution, architecture |-> architecture,
     memory |-> [extra |-> Missing, max_bytes |-> 8, shared_bytes |-> Missing],
     supported_dtypes |-> dtypes, supported_ops |-> ops,
     capabilities |-> <<<<"cores", id>>>>]

DevicesDoc(list) == [schema_version |-> "1", devices |-> list]

Gpu == Device("Gpu", "Cuda", "Sm80", <<"F32", "I8">>, <<"Add">>)
Host == Device("Host", "Cpu", "Generic", <<"F16">>, <<"Clip", "Add">>)

BaseDevices == DevicesDoc(<<Gpu, Host, Device("Mac", "Mps", "M3", <<"I8", "F16", "F32">>, <<"Add">>)>>)

DeviceVariants == {DevicesDoc(<<>>), DevicesDoc(<<Gpu, Gpu>>)} \cup
    {DevicesDoc(<<Host, d>>) : d \in {
        [Gpu EXCEPT !.architecture = "Zen4"], [Gpu EXCEPT !.architecture = "CudaGeneric"],
        [Gpu EXCEPT !.execution = "Npu"], [Gpu EXCEPT !.architecture = "Sm90"],
        [Gpu EXCEPT !.supported_dtypes = <<>>], [Gpu EXCEPT !.supported_dtypes = <<"I8", "I8">>],
        [Gpu EXCEPT !.supported_ops = <<"Mul">>], [Gpu EXCEPT !.memory.max_bytes = 0],
        [Gpu EXCEPT !.memory = Missing], [Gpu EXCEPT !.capabilities = Malformed],
        [Gpu EXCEPT !.memory.shared_bytes = 4, !.capabilities = Missing] }}

-----------------------------------------------------------------------------
(* param_ids.yml, operand_ids.yml, roles.yml *)

Id(id, cpp_type, access) ==
    [id |-> id, value |-> Missing, description |-> Missing, cpp_type |-> cpp_type, access |-> access]

IdsDoc(list) == [schema_version |-> "1.0", entries |-> list]

BaseIds == IdsDoc(<<Id("A", "float", "Read"), Id("B", "void*", "ReadWrite")>>)

IdVariants == {
    IdsDoc(<<>>), IdsDoc(<<Id("A", "float", "Read"), Id("A", "int", "Write")>>),
    IdsDoc(<<Id("A", "", "")>>), IdsDoc(<<[Id("A", "float", "Read") EXCEPT !.value = 3]>>),
    [BaseIds EXCEPT !.schema_version = "2.0"] }

-----------------------------------------------------------------------------

MCInitial == [dtypes |-> BaseDTypes, ops |-> BaseOps, executions |-> BaseExecutions,
    architectures |-> BaseArchitectures, devices |-> BaseDevices,
    params |-> BaseIds, operands |-> BaseIds, roles |-> BaseIds]

MCVariants == [dtypes |-> DTypeVariants, ops |-> OpVariants, executions |-> ExecutionVariants,
    architectures |-> ArchitectureVariants, devices |-> DeviceVariants,
    params |-> IdVariants, operands |-> IdVariants, roles |-> IdVariants]

Cpu(vendor, family, model, features, machine) ==
    [execution |-> "Cpu", vendor |-> vendor, family |-> family, model |-> model,
     features |-> features, machine_id |-> machine]

MCHosts == {
    Cpu("amd", 25, 1, {"avx2", "avx512"}, ""), Cpu("amd", 25, 1, {"avx2"}, ""),
    Cpu("intel", 6, 86, {"avx2", "avx512"}, ""), Cpu("intel", 6, 85, {}, ""),
    Cpu("apple", Missing, Missing, {}, "mac14"),
    [execution |-> "Cuda", vendor |-> "nvidia", compute_capability |-> 80],
    [execution |-> "Cuda", vendor |-> "nvidia", compute_capability |-> 90],
    [execution |-> "Cuda", vendor |-> "nvidia", compute_capability |-> 75],
    [execution |-> "Mps", vendor |-> "apple", metal_family |-> "m3"],
    [execution |-> "Mps", vendor |-> "apple", metal_family |-> "m1"] }

MCLowerCase == [t \in {"AMD", "AVX512", "CPUGENERIC", "CpuGeneric"} |->
    CASE t = "AMD" -> "amd" [] t = "AVX512" -> "avx512" [] OTHER -> "cpugeneric"]

=============================================================================
