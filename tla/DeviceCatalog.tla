---------------------------- MODULE DeviceCatalog ----------------------------
(***************************************************************************)
(* gen_executions, gen_architectures and gen_devices: the catalogs of      *)
(* execution backends, of their architectures with the parent each falls   *)
(* back to, and of devices; the queries of architecture.h and device.h on  *)
(* the tables; and the detection of a host's architecture.                 *)
(*                                                                         *)
(* Each generator reads the documents it needs by itself, so that the      *)
(* number of an architecture within its execution is worked out twice, by  *)
(* gen_architectures and by gen_devices.  A scalar where a list is also    *)
(* admitted is written as the list of that scalar.                         *)
(***************************************************************************)
EXTENDS OpCatalog

CONSTANTS
    NoParent,        \* kInvalidParent, 0xFFFF
    MaxIndex,        \* the largest std::uint16_t
    NotIdentifiers,  \* texts that are no C++ identifier
    LowerCase        \* the texts std::tolower changes, with what it makes of them

ASSUME MaxIndexAssumption == MaxIndex \in Nat \ {0}

ASSUME NoParentAssumption == NoParent \notin 0..(MaxIndex - 1)

\* What is always true of the documents of executions, architectures and
\* devices.
ExecutionDocument(doc) == SequenceNode(doc.executions)

DetectDocument(d) == d \notin {Missing, Malformed} =>
    /\ NumberNode(d.family) /\ NumberNode(d.compute_capability)
    /\ SequenceNode(d.model) /\ SequenceNode(d.features) /\ SequenceNode(d.machine_ids)

ArchitectureDocument(doc) ==
    /\ SequenceNode(doc.architectures)
    /\ doc.architectures \notin {Missing, Malformed} =>
        \A i \in DOMAIN doc.architectures : LET a == doc.architectures[i] IN
            a # Malformed /\ a.metadata \notin {Missing, Malformed} =>
                DetectDocument(a.metadata.detect)

DeviceDocument(doc) ==
    /\ SequenceNode(doc.devices)
    /\ doc.devices \notin {Missing, Malformed} => \A i \in DOMAIN doc.devices :
        LET d == doc.devices[i] IN d # Malformed =>
            /\ SequenceNode(d.supported_dtypes) /\ SequenceNode(d.supported_ops)
            /\ SequenceNode(d.capabilities)

-----------------------------------------------------------------------------
(* Readers *)

LooksLikeIdentifier(v) == v \notin NotIdentifiers

toLowerCopy(v) == IF v \in DOMAIN LowerCase THEN LowerCase[v] ELSE v

ReadRequiredId(v) == ReadRequiredString(v) /\ LooksLikeIdentifier(v)

\* ReadStringList of gen_devices: required, not empty, of texts not empty.
ReadRequiredList(v) ==
    /\ v \notin {Missing, Malformed} /\ v # <<>>
    /\ \A i \in DOMAIN v : v[i] \notin {Malformed, ""}

ReadOptionalInt(v) == v # Malformed

ReadOptionalIntList(v) ==
    v # Missing => v # Malformed /\ \A i \in DOMAIN v : v[i] # Malformed

ReadOptionalStringList(v) ==
    v # Missing => v # Malformed /\ \A i \in DOMAIN v : v[i] \notin {Malformed, ""}

ReadRequiredUint64(v) == v \notin {Missing, Malformed}

ReadOptionalUint64(v) == v # Malformed

-----------------------------------------------------------------------------
(* Executions *)

ExecutionIds(doc) == [i \in DOMAIN doc.executions |-> doc.executions[i].id]

\* ParseConfig of gen_executions; the version is required and not compared.
ExecutionsAccepted(doc) ==
    /\ doc.schema_version \notin {Missing, Malformed}
    /\ IsMappingSequence(doc.executions)
    /\ \A i \in DOMAIN doc.executions : LET e == doc.executions[i] IN
        /\ ReadRequiredId(e.id)
        /\ ReadRequiredString(e.display_name) /\ ReadRequiredString(e.module_path)
        /\ e.metadata # Missing => e.metadata # Malformed /\ ExpectKeys(e.metadata)
    /\ IsInjective(ExecutionIds(doc))

ExecutionDef(doc) == ExecutionIds(doc)

ExecutionTables(doc) ==
    [count |-> Len(doc.executions),
     modulePath |-> [i \in DOMAIN doc.executions |-> doc.executions[i].module_path]]

\* ParseExecutionConfig of gen_architectures.
ParseExecutionConfig(doc) ==
    /\ IsMappingSequence(doc.executions) /\ doc.executions # <<>>
    /\ \A i \in DOMAIN doc.executions :
        /\ ReadRequiredId(doc.executions[i].id)
        /\ ReadRequiredString(doc.executions[i].display_name)
    /\ IsInjective(ExecutionIds(doc))

\* ParseExecutionCatalog of gen_devices.
ParseExecutionCatalog(doc) ==
    /\ IsMappingSequence(doc.executions) /\ doc.executions # <<>>
    /\ \A i \in DOMAIN doc.executions : ReadRequiredId(doc.executions[i].id)
    /\ IsInjective(ExecutionIds(doc))

-----------------------------------------------------------------------------
(* Architectures *)

ParseDetectSpec(d) == d # Missing =>
    /\ d # Malformed /\ ExpectKeys(d)
    /\ ReadOptionalString(d.vendor) /\ ReadOptionalString(d.metal_family)
    /\ ReadOptionalInt(d.family) /\ ReadOptionalInt(d.compute_capability)
    /\ ReadOptionalIntList(d.model)
    /\ ReadOptionalStringList(d.features) /\ ReadOptionalStringList(d.machine_ids)

ParseMetadataBlock(m) == m # Missing =>
    /\ m # Malformed /\ ExpectKeys(m)
    /\ ReadOptionalString(m.parent)
    /\ ParseDetectSpec(m.detect)

UniquePerExecution(list) ==
    IsInjective([i \in DOMAIN list |-> <<list[i].execution, list[i].id>>])

ParseArchitectureConfig(doc, execs) ==
    /\ doc.schema_version \notin {Missing, Malformed}
    /\ IsMappingSequence(doc.architectures)
    /\ \A i \in DOMAIN doc.architectures : LET a == doc.architectures[i] IN
        /\ ReadRequiredId(a.id) /\ ReadRequiredString(a.display_name)
        /\ ReadRequiredString(a.execution)
        /\ a.execution \in Range(ExecutionIds(execs))
        /\ ParseMetadataBlock(a.metadata)
    /\ UniquePerExecution(doc.architectures)

MetadataOf(a, key) == IF a.metadata = Missing THEN Missing ELSE a.metadata[key]

GenericId(execution) == execution \o "Generic"

\* The architectures of an execution in the order of the document.
EntriesOf(doc, execution) ==
    LET at == {i \in DOMAIN doc.architectures : doc.architectures[i].execution = execution}
    IN [k \in 1..Cardinality(at) |->
            doc.architectures[CHOOSE i \in at : Cardinality({j \in at : j <= i}) = k]]

\* The architectures execution by execution: the generic one, which the
\* generator adds, and then those of the document in their order.
Resolved(doc, execs) ==
    FlattenSeq([e \in DOMAIN execs.executions |->
        LET name == execs.executions[e].id
            entries == EntriesOf(doc, name)
        IN <<[id |-> GenericId(name), execution |-> e - 1, local |-> 0,
              parent |-> Missing, detect |-> Missing]>>
           \o [k \in DOMAIN entries |->
                [id |-> entries[k].id, execution |-> e - 1, local |-> k,
                 parent |-> MetadataOf(entries[k], "parent"),
                 detect |-> MetadataOf(entries[k], "detect")]]])

\* The generic name is reserved whatever its case.
ReservedFree(doc, execs) ==
    \A e \in Range(ExecutionIds(execs)) : \A i \in DOMAIN EntriesOf(doc, e) :
        toLowerCopy(EntriesOf(doc, e)[i].id) # toLowerCopy(GenericId(e))

\* The positions of an architecture's parent: looked up by name among the
\* architectures of its own execution.
ParentCandidates(all, i) ==
    {p \in DOMAIN all : all[p].execution = all[i].execution /\ all[p].id = all[i].parent}

\* The last position with the name wins in the generator's map.
ParentIndices(all) ==
    [i \in DOMAIN all |->
        IF all[i].local = 0 THEN NoParent ELSE Max(ParentCandidates(all, i)) - 1]

\* Fault: only an architecture that is its own parent counts as a cycle.
AcyclicSelfOnly(parents) == \A i \in DOMAIN parents : parents[i] # i - 1

\* Every parent chain ends: the depth-first search meets no node it is still
\* visiting.
Acyclic(parents) ==
    LET n == Len(parents)
        Chain(i) == LET at[k \in 0..n] ==
                        IF k = 0 THEN i - 1
                        ELSE IF at[k - 1] = NoParent THEN NoParent
                        ELSE parents[at[k - 1] + 1]
                    IN at
    IN \A i \in 1..n : Chain(i)[n] = NoParent

ParentsAccepted(all) ==
    /\ \A i \in DOMAIN all : all[i].local # 0 =>
        all[i].parent # Missing /\ ParentCandidates(all, i) # {}
    /\ Acyclic(ParentIndices(all))

ArchitecturesAccepted(doc, execs) ==
    /\ ParseExecutionConfig(execs)
    /\ ParseArchitectureConfig(doc, execs)
    /\ ReservedFree(doc, execs)
    /\ LET all == Resolved(doc, execs) IN
       Len(all) <= MaxIndex /\ ParentsAccepted(all)

\* Fault: the offsets are those of the entries' ends.
OffsetsOfEnds(lists) ==
    [i \in 1..(Len(lists) + 1) |->
        Len(FlattenSeq(SubSeq(lists, 1, IF i > Len(lists) THEN Len(lists) ELSE i)))]

\* n lists as one flat array with n + 1 offsets.
OffsetsOf(lists) == [i \in 1..(Len(lists) + 1) |-> Len(FlattenSeq(SubSeq(lists, 1, i - 1)))]

DetectField(all, key, none) ==
    [i \in DOMAIN all |->
        IF all[i].detect = Missing \/ all[i].detect[key] = Missing THEN none
        ELSE all[i].detect[key]]

\* An absent text is empty and an absent number is -1; lists are flattened.
DetectTables(all) ==
    [vendor |-> DetectField(all, "vendor", ""),
     metalFamily |-> DetectField(all, "metal_family", ""),
     family |-> DetectField(all, "family", -1),
     computeCapability |-> DetectField(all, "compute_capability", -1),
     modelOffsets |-> OffsetsOf(DetectField(all, "model", <<>>)),
     models |-> FlattenSeq(DetectField(all, "model", <<>>)),
     featureOffsets |-> OffsetsOf(DetectField(all, "features", <<>>)),
     features |-> FlattenSeq(DetectField(all, "features", <<>>)),
     machineIdOffsets |-> OffsetsOf(DetectField(all, "machine_ids", <<>>)),
     machineIds |-> FlattenSeq(DetectField(all, "machine_ids", <<>>))]

ExecutionCounts(doc, execs) ==
    [e \in DOMAIN execs.executions |-> Len(EntriesOf(doc, execs.executions[e].id)) + 1]

ExecutionOffsets(all, execs) ==
    [e \in 1..(Len(execs.executions) + 1) |->
        Cardinality({i \in DOMAIN all : all[i].execution < e - 1})]

ArchitectureDef(doc, execs) ==
    LET all == Resolved(doc, execs) IN [i \in DOMAIN all |-> all[i].id]

ArchitectureTables(doc, execs) ==
    LET all == Resolved(doc, execs) IN
    [count |-> Len(all),
     execution |-> [i \in DOMAIN all |-> all[i].execution],
     local |-> [i \in DOMAIN all |-> all[i].local],
     id |-> [i \in DOMAIN all |-> all[i].id],
     parent |-> ParentIndices(all),
     counts |-> ExecutionCounts(doc, execs),
     offsets |-> ExecutionOffsets(all, execs),
     detect |-> DetectTables(all)]

-----------------------------------------------------------------------------
(* Queries of architecture.h; an architecture is the number of its         *)
(* enumerator                                                              *)

executionOf(t, arch) == t.execution[arch + 1]
localIndexOf(t, arch) == t.local[arch + 1]
fromExecutionAndLocalIndex(t, execution, local) == t.offsets[execution + 1] + local
architecturesOf(t, execution) ==
    {t.offsets[execution + 1] + k : k \in 0..(t.counts[execution + 1] - 1)}
hasParent(t, arch) == t.parent[arch + 1] # NoParent
parentOf(t, arch) == IF hasParent(t, arch) THEN t.parent[arch + 1] ELSE arch
genericOf(t, arch) == fromExecutionAndLocalIndex(t, executionOf(t, arch), 0)

\* forEachFallback: the architecture after k steps of the walk.
forEachFallback(t, arch) ==
    LET at[k \in 0..t.count] == IF k = 0 THEN arch ELSE parentOf(t, at[k - 1]) IN at

-----------------------------------------------------------------------------
(* Devices *)

\* ParseArchitectureCatalog: the numbers gen_devices gives the architectures
\* of an execution; "Generic" is 0 and may not be declared.
ParseArchitectureCatalog(doc, execs) ==
    /\ doc.schema_version \notin {Missing, Malformed}
    /\ IsMappingSequence(doc.architectures)
    /\ \A i \in DOMAIN doc.architectures : LET a == doc.architectures[i] IN
        /\ ReadRequiredId(a.id) /\ a.id # "Generic"
        /\ ReadRequiredString(a.execution)
        /\ a.execution \in Range(ExecutionIds(execs))
    /\ UniquePerExecution(doc.architectures)

LocalNames(doc, execution) ==
    [k \in 1..(Len(EntriesOf(doc, execution)) + 1) |->
        IF k = 1 THEN "Generic" ELSE EntriesOf(doc, execution)[k - 1].id]

LocalIndex(doc, execution, id) == IndexOf(LocalNames(doc, execution), id)

ParseDTypeCatalog(doc) ==
    /\ IsMappingSequence(doc.dtypes)
    /\ \A i \in DOMAIN doc.dtypes : ReadRequiredString(doc.dtypes[i].id)
    /\ IsInjective(DTypeIds(doc))

ParseOpCatalog(doc) ==
    /\ IsMappingSequence(doc.ops) /\ doc.ops # <<>>
    /\ \A i \in DOMAIN doc.ops : ReadRequiredString(doc.ops[i].id)
    /\ IsInjective(OpDef(doc))

\* Each listed name is known, listed once and has a 16-bit number.
ListAccepted(ids, names) ==
    /\ ReadRequiredList(names)
    /\ Range(names) \subseteq Range(ids) /\ IsInjective(names)
    /\ \A name \in Range(names) : IndexOf(ids, name) <= MaxIndex

DeviceAccepted(yaml, d) ==
    /\ ReadRequiredId(d.id) /\ ReadRequiredString(d.display_name)
    /\ ReadRequiredString(d.execution) /\ ReadRequiredString(d.architecture)
    /\ d.execution \in Range(ExecutionIds(yaml.executions))
    /\ d.architecture \in Range(LocalNames(yaml.architectures, d.execution))
    /\ d.memory \notin {Missing, Malformed} /\ ExpectKeys(d.memory)
    /\ ReadRequiredUint64(d.memory.max_bytes) /\ d.memory.max_bytes > 0
    /\ ReadOptionalUint64(d.memory.shared_bytes)
    /\ ListAccepted(DTypeIds(yaml.dtypes), d.supported_dtypes)
    /\ ListAccepted(OpDef(yaml.ops), d.supported_ops)
    /\ d.capabilities # Missing =>
        /\ d.capabilities # Malformed
        /\ \A i \in DOMAIN d.capabilities : d.capabilities[i] # Malformed

DevicesAccepted(yaml) ==
    LET doc == yaml.devices IN
    /\ ParseExecutionCatalog(yaml.executions)
    /\ ParseArchitectureCatalog(yaml.architectures, yaml.executions)
    /\ ParseDTypeCatalog(yaml.dtypes) /\ ParseOpCatalog(yaml.ops)
    /\ doc.schema_version \notin {Missing, Malformed}
    /\ IsMappingSequence(doc.devices) /\ doc.devices # <<>>
    /\ \A i \in DOMAIN doc.devices : DeviceAccepted(yaml, doc.devices[i])
    /\ IsInjective([i \in DOMAIN doc.devices |-> doc.devices[i].id])

DeviceDef(doc) == [i \in DOMAIN doc.devices |-> doc.devices[i].id]

Indices(ids, names) == [k \in DOMAIN names |-> IndexOf(ids, names[k])]

DeviceTables(yaml) ==
    LET list == yaml.devices.devices
        DTypeLists == [i \in DOMAIN list |-> Indices(DTypeIds(yaml.dtypes), list[i].supported_dtypes)]
        OpLists == [i \in DOMAIN list |-> Indices(OpDef(yaml.ops), list[i].supported_ops)]
        Capabilities == [i \in DOMAIN list |-> List(list[i].capabilities)]
    IN [count |-> Len(list),
        execution |-> [i \in DOMAIN list |->
            IndexOf(ExecutionIds(yaml.executions), list[i].execution)],
        local |-> [i \in DOMAIN list |->
            LocalIndex(yaml.architectures, list[i].execution, list[i].architecture)],
        memory |-> [i \in DOMAIN list |->
            [max |-> list[i].memory.max_bytes,
             shared |-> IF list[i].memory.shared_bytes = Missing THEN 0
                        ELSE list[i].memory.shared_bytes]],
        dtypeOffsets |-> OffsetsOf(DTypeLists), dtypes |-> FlattenSeq(DTypeLists),
        opOffsets |-> OffsetsOf(OpLists), ops |-> FlattenSeq(OpLists),
        capabilityOffsets |-> OffsetsOf(Capabilities),
        capabilities |-> FlattenSeq(Capabilities)]

-----------------------------------------------------------------------------
(* Queries of device.h; a device is its position in device.def *)

\* The entries between two offsets.
Between(entries, offsets, i) == SubSeq(entries, offsets[i] + 1, offsets[i + 1])

architectureOf(t, archs, device) ==
    fromExecutionAndLocalIndex(archs, t.execution[device], t.local[device])

supportedDTypes(t, device) == Between(t.dtypes, t.dtypeOffsets, device)
supportedOps(t, device) == Between(t.ops, t.opOffsets, device)
capabilitiesOf(t, device) == Between(t.capabilities, t.capabilityOffsets, device)

-----------------------------------------------------------------------------
(* Detection.  A host is what collectCpuInfo, or the wrapper of a GPU,     *)
(* reports, in lower case; what it could not find out is Missing, "" or {}. *)

matchesVendor(required, host) == required = "" \/ toLowerCopy(required) = host.vendor

hasAllFeatures(host, features) ==
    \A i \in DOMAIN features : toLowerCopy(features[i]) \in host.features

matchesMachineId(host, ids) ==
    ids = <<>> \/ \E i \in DOMAIN ids : toLowerCopy(ids[i]) = host.machine_id

matchesCpuModels(host, models) ==
    models = <<>> \/ \E i \in DOMAIN models : models[i] = host.model

\* What detectCpuArchitecture compares.
matchesDetectSpec(t, arch, host) ==
    LET d == t.detect IN
    /\ matchesVendor(d.vendor[arch + 1], host)
    /\ d.family[arch + 1] >= 0 => d.family[arch + 1] = host.family
    /\ matchesCpuModels(host, Between(d.models, d.modelOffsets, arch + 1))
    /\ hasAllFeatures(host, Between(d.features, d.featureOffsets, arch + 1))
    /\ matchesMachineId(host, Between(d.machineIds, d.machineIdOffsets, arch + 1))

\* What detectCudaArchitecture compares.
matchesCuda(t, arch, host) ==
    LET cc == t.detect.computeCapability[arch + 1] IN
    matchesVendor(t.detect.vendor[arch + 1], host) /\ (cc >= 0 => cc = host.compute_capability)

\* What detectMpsArchitecture compares.
matchesMps(t, arch, host) ==
    LET family == t.detect.metalFamily[arch + 1] IN
    /\ matchesVendor(t.detect.vendor[arch + 1], host)
    /\ family = "" \/ toLowerCopy(family) = host.metal_family

Matches(t, arch, host) ==
    CASE host.execution = "Cpu" -> matchesDetectSpec(t, arch, host)
      [] host.execution = "Cuda" -> matchesCuda(t, arch, host)
      [] host.execution = "Mps" -> matchesMps(t, arch, host)

\* The first architecture of the execution, in the order of the table, that
\* is not generic and matches; the generic one when none does.
Detect(t, execution, host) ==
    LET found == {a \in 0..(t.count - 1) :
            localIndexOf(t, a) # 0 /\ executionOf(t, a) = execution /\ Matches(t, a, host)}
    IN IF found = {} THEN fromExecutionAndLocalIndex(t, execution, 0) ELSE Min(found)
=============================================================================
