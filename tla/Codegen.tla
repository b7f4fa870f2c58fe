------------------------------- MODULE Codegen -------------------------------
(***************************************************************************)
(* The build runs the eight generators: each is a custom command with the  *)
(* documents it reads as its dependencies and two files as its outputs.    *)
(* A generator reads its documents, rejects them or computes both files in *)
(* memory, and then writes the .def file and the tables one after the      *)
(* other; each write may fail.  A command whose outputs are missing or     *)
(* older than a dependency is run again by the next build.  Between        *)
(* builds a document may be edited.  The commands share no output, so that *)
(* their order does not matter: the model runs them one after the other.   *)
(***************************************************************************)
EXTENDS DeviceCatalog, IdCatalog

CONSTANTS
    Initial,    \* the documents at the start: section |-> document
    Variants,   \* section |-> the documents an edit may put there
    Hosts,      \* the machines whose architecture is detected
    MaxEdits    \* bound on the number of edits

VARIABLES
    yaml,       \* section |-> document
    files,      \* generator |-> [def, tables], NoFile when not yet written
    stale,      \* the generators whose outputs the build holds to be out of date
    running,    \* the generator between its two writes, or NoFile
    failed,     \* the last command of the build exited with 1
    edits

vars == <<yaml, files, stale, running, failed, edits>>

NoFile == Missing

Order == <<"dtypes", "ops", "executions", "architectures", "devices",
           "params", "operands", "roles">>

Sections == Range(Order)

\* What is always true of a document, accepted or not.
Document(section, doc) ==
    CASE section = "dtypes" -> DTypeDocument(doc)
      [] section = "ops" -> OpDocument(doc)
      [] section = "executions" -> ExecutionDocument(doc)
      [] section = "architectures" -> ArchitectureDocument(doc)
      [] section = "devices" -> DeviceDocument(doc)
      [] OTHER -> TRUE

ASSUME SectionsAssumption == NoFile \notin Sections

ASSUME DocumentsAssumption ==
    /\ DOMAIN Initial = Sections /\ DOMAIN Variants = Sections
    /\ \A section \in Sections : \A doc \in {Initial[section]} \cup Variants[section] :
        Document(section, doc)

\* There is a detection for three kinds of execution.
ASSUME HostsAssumption == \A host \in Hosts : host.execution \in {"Cpu", "Cuda", "Mps"}

\* Fault: the devices are not generated again when the architectures change.
DependsMissing(g) ==
    {g} \cup (CASE g = "ops" -> {"dtypes"}
                [] g = "architectures" -> {"executions"}
                [] g = "devices" -> {"executions", "dtypes", "ops"}
                [] OTHER -> {})

\* The documents named under DEPENDS of each generator's command; a generator
\* has the name of its own document.
Depends(g) ==
    {g} \cup (CASE g = "ops" -> {"dtypes"}
                [] g = "architectures" -> {"executions"}
                [] g = "devices" -> {"executions", "architectures", "dtypes", "ops"}
                [] OTHER -> {})

Accepted(g) ==
    CASE g = "dtypes" -> DTypesAccepted(yaml.dtypes)
      [] g = "ops" -> OpsAccepted(yaml.ops, yaml.dtypes)
      [] g = "executions" -> ExecutionsAccepted(yaml.executions)
      [] g = "architectures" -> ArchitecturesAccepted(yaml.architectures, yaml.executions)
      [] g = "devices" -> DevicesAccepted(yaml)
      [] g = "params" -> ParamsAccepted(yaml.params)
      [] g = "operands" -> OperandsAccepted(yaml.operands)
      [] g = "roles" -> RolesAccepted(yaml.roles)

Def(g) ==
    CASE g = "dtypes" -> DTypeDef(yaml.dtypes)
      [] g = "ops" -> OpDef(yaml.ops)
      [] g = "executions" -> ExecutionDef(yaml.executions)
      [] g = "architectures" -> ArchitectureDef(yaml.architectures, yaml.executions)
      [] g = "devices" -> DeviceDef(yaml.devices)
      [] OTHER -> IdDef(yaml[g])

Tables(g) ==
    CASE g = "dtypes" -> DTypeTables(yaml.dtypes)
      [] g = "ops" -> OpTables(yaml.ops, yaml.dtypes)
      [] g = "executions" -> ExecutionTables(yaml.executions)
      [] g = "architectures" -> ArchitectureTables(yaml.architectures, yaml.executions)
      [] g = "devices" -> DeviceTables(yaml)
      [] g = "params" -> ParamTables(yaml.params)
      [] g = "operands" -> OperandTables(yaml.operands)
      [] g = "roles" -> RoleTables(yaml.roles)

-----------------------------------------------------------------------------

Init ==
    /\ yaml = Initial
    /\ files = [g \in Sections |-> [def |-> NoFile, tables |-> NoFile]]
    /\ stale = Sections
    /\ running = NoFile
    /\ failed = FALSE
    /\ edits = 0

\* The command the build runs next: the first whose outputs are out of date.
NextCommand(g) ==
    /\ running = NoFile /\ ~failed /\ g \in stale
    /\ \A i, j \in DOMAIN Order : j < i /\ Order[i] = g => Order[j] \notin stale

\* main up to the first WriteFile.
WriteDef(g) ==
    /\ NextCommand(g) /\ Accepted(g)
    /\ files' = [files EXCEPT ![g].def = Def(g)]
    /\ running' = g
    /\ UNCHANGED <<yaml, stale, failed, edits>>

\* The second WriteFile, after which the generator exits with 0.
WriteTables ==
    /\ running # NoFile
    /\ files' = [files EXCEPT ![running].tables = Tables(running)]
    /\ stale' = stale \ {running}
    /\ running' = NoFile
    /\ UNCHANGED <<yaml, failed, edits>>

\* The second file cannot be written: the generator exits with 1, the first
\* file is new and the second one as it was.
WriteFails ==
    /\ running # NoFile
    /\ running' = NoFile
    /\ failed' = TRUE
    /\ UNCHANGED <<yaml, files, stale, edits>>

\* The document is rejected: exit code 1, nothing is written.
Reject(g) ==
    /\ NextCommand(g) /\ ~Accepted(g)
    /\ failed' = TRUE
    /\ UNCHANGED <<yaml, files, stale, running, edits>>

\* The build is started again after a command has failed.
Rebuild ==
    /\ failed
    /\ failed' = FALSE
    /\ UNCHANGED <<yaml, files, stale, running, edits>>

\* A document is edited after a build, complete or failed, and the build
\* started again.
Edit(section, doc) ==
    /\ failed \/ stale = {}
    /\ edits < MaxEdits
    /\ doc # yaml[section]
    /\ yaml' = [yaml EXCEPT ![section] = doc]
    /\ stale' = stale \cup {g \in Sections : section \in Depends(g)}
    /\ failed' = FALSE
    /\ edits' = edits + 1
    /\ UNCHANGED <<files, running>>

Next ==
    \/ \E g \in Sections : WriteDef(g) \/ Reject(g)
    \/ WriteTables
    \/ WriteFails
    \/ Rebuild
    \/ \E section \in Sections : \E doc \in Variants[section] : Edit(section, doc)

Spec == Init /\ [][Next]_vars

-----------------------------------------------------------------------------
(* Properties: what a program compiled against the files relies on once    *)
(* every command of the build has succeeded.                               *)

Built == stale = {}

\* A complete build leaves what generating everything anew from the documents
\* as they are would leave, whatever failed and was edited on the way.
FilesMatchDocuments == Built => \A g \in Sections :
    Accepted(g) /\ files[g] = [def |-> Def(g), tables |-> Tables(g)]

\* Through the accessors of ops.h every op shows the inputs, outputs,
\* attributes and tags of its document, and each mask and number, decoded
\* with the dtypes that gen_dtypes enumerated, means what the document says.
OpsDescribeDocument == Built =>
    LET t == files.ops.tables IN
    /\ Len(files.ops.def) = t.count
    /\ \A i \in DOMAIN yaml.ops.ops :
        OpDescribesDocument(yaml.ops, yaml.dtypes, files.dtypes.def, t, i)

\* dtype.h: promotion keeps the higher priority, in both orders of its
\* operands, unless an override or a tie says otherwise; a cast that is
\* implicit is explicit too.
PromotionAndCastsConsistent == Built =>
    /\ PromotionWidens(yaml.dtypes, files.dtypes.tables)
    /\ ImplicitIsExplicit(files.dtypes.tables)

\* device.h with architecture.h: the local number gen_devices computed, added
\* to the offset gen_architectures computed, is the architecture the device
\* names, of the device's own execution; its dtypes and ops are those it
\* lists, under the numbers of gen_dtypes and gen_ops.
DevicesNameTheirArchitecture == Built =>
    LET t == files.devices.tables
        archs == files.architectures.tables
    IN \A i \in DOMAIN yaml.devices.devices :
        LET d == yaml.devices.devices[i]
            a == architectureOf(t, archs, i)
        IN /\ a < archs.count
           /\ archs.id[a + 1] = IF d.architecture = "Generic" THEN GenericId(d.execution)
                                ELSE d.architecture
           /\ files.executions.def[executionOf(archs, a) + 1] = d.execution
           /\ [k \in DOMAIN supportedDTypes(t, i) |->
                files.dtypes.def[supportedDTypes(t, i)[k] + 1]] = d.supported_dtypes
           /\ [k \in DOMAIN supportedOps(t, i) |->
                files.ops.def[supportedOps(t, i)[k] + 1]] = d.supported_ops
           /\ capabilitiesOf(t, i) = List(d.capabilities)

\* architecture.h: the walk of forEachFallback from any architecture ends at
\* the generic one of its own execution, and passes only through
\* architectures of that execution.
FallbackReachesGeneric == Built =>
    LET t == files.architectures.tables IN
    \A a \in 0..(t.count - 1) :
        LET walk == forEachFallback(t, a) IN
        /\ walk[t.count] = genericOf(t, a)
        /\ ~hasParent(t, walk[t.count])
        /\ Range(walk) \subseteq architecturesOf(t, executionOf(t, a))

\* The document's own criteria for a host, read without the tables; a
\* negative number is none.
DocumentMatches(a, host) ==
    LET d == MetadataOf(a, "detect") IN d = Missing \/
        /\ Text(d.vendor) # "" => toLowerCopy(d.vendor) = host.vendor
        /\ host.execution = "Cpu" =>
            /\ d.family \in Nat => d.family = host.family
            /\ List(d.model) # <<>> => host.model \in Range(d.model)
            /\ {toLowerCopy(f) : f \in Range(List(d.features))} \subseteq host.features
            /\ List(d.machine_ids) # <<>> =>
                host.machine_id \in {toLowerCopy(id) : id \in Range(d.machine_ids)}
        /\ host.execution = "Cuda" /\ d.compute_capability \in Nat =>
            d.compute_capability = host.compute_capability
        /\ host.execution = "Mps" =>
            Text(d.metal_family) = "" \/ toLowerCopy(d.metal_family) = host.metal_family

\* Detection returns an architecture whose criteria in the document the host
\* meets, and the generic one only when the host meets those of none.
DetectionFollowsDocument == Built =>
    LET t == files.architectures.tables IN
    \A host \in Hosts : host.execution \in Range(files.executions.def) =>
        LET found == Detect(t, IndexOf(files.executions.def, host.execution), host)
            entries == Range(EntriesOf(yaml.architectures, host.execution))
        IN IF localIndexOf(t, found) = 0
           THEN \A a \in entries : ~DocumentMatches(a, host)
           ELSE \E a \in entries : a.id = t.id[found + 1] /\ DocumentMatches(a, host)
=============================================================================
