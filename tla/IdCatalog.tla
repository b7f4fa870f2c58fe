------------------------------ MODULE IdCatalog ------------------------------
(***************************************************************************)
(* gen_param_ids, gen_operand_ids and gen_roles: the identifiers of kernel *)
(* parameters, operands and operand roles.  Their values are the positions *)
(* in the document; a document may not state one.                          *)
(***************************************************************************)
EXTENDS DTypeCatalog

\* The types gen_param_ids knows to store in a ParamValue ...
PrimitiveTypes ==
    {"float", "double", "int", "std::size_t", "std::uint32_t", "std::int64_t", "void*"}

\* ... and the views it always adds, named by their element type.
ArrayViews == {"ArrayView<int>", "ArrayView<std::size_t>", "ArrayView<std::int64_t>",
               "ArrayView<float>", "ArrayView<double>"}

Accesses == {"None", "Read", "Write", "ReadWrite"}

\* What the three generators ask of the entries of a document.
EntriesAccepted(doc) ==
    /\ doc.schema_version \notin {Missing, Malformed}
    /\ IsMappingSequence(doc.entries)
    /\ \A i \in DOMAIN doc.entries : LET e == doc.entries[i] IN
        /\ ReadString(e.id, TRUE) /\ e.id # ""
        /\ e.value = Missing
        /\ ReadString(e.description, FALSE)
    /\ IsInjective([i \in DOMAIN doc.entries |-> doc.entries[i].id])

ParseParam(e) == ReadString(e.cpp_type, TRUE) /\ e.cpp_type # ""

ParseAccess(e) == ReadString(e.access, TRUE) /\ e.access \in Accesses

ParamsAccepted(doc) ==
    /\ EntriesAccepted(doc)
    /\ \A i \in DOMAIN doc.entries : ParseParam(doc.entries[i])
    /\ doc.schema_version = "1.0" /\ doc.entries # <<>>

OperandsAccepted(doc) ==
    /\ EntriesAccepted(doc)
    /\ \A i \in DOMAIN doc.entries : ParseAccess(doc.entries[i])
    /\ doc.schema_version = "1.0" /\ doc.entries # <<>>

\* gen_roles does not compare the version and accepts an empty list.
RolesAccepted(doc) == EntriesAccepted(doc)

\* An identifier and its value per entry.
IdDef(doc) == [i \in DOMAIN doc.entries |-> <<doc.entries[i].id, i - 1>>]

\* Every accepted type is the type of its parameter; only the known ones
\* become alternatives of ParamValue, each once.
ParamTables(doc) ==
    LET types == {doc.entries[i].cpp_type : i \in DOMAIN doc.entries} IN
    [count |-> Len(doc.entries),
     types |-> [i \in DOMAIN doc.entries |-> doc.entries[i].cpp_type],
     variant |-> (types \cap PrimitiveTypes) \cup ArrayViews]

OperandTables(doc) ==
    [count |-> Len(doc.entries),
     access |-> [i \in DOMAIN doc.entries |-> doc.entries[i].access]]

RoleTables(doc) == [count |-> Len(doc.entries)]
=============================================================================
