------------------------------ MODULE KernelCall ------------------------------
(***************************************************************************)
(* From an operation to its kernel: the packed KernelKey, the resolver     *)
(* that falls back from the device's architecture to more general ones,    *)
(* the KernelArgs that tensors are bound into, and the schemas through     *)
(* which a kernel function takes its storages and parameters out again.    *)
(* Registered kernels are a table here; its tiers are in KernelRegistry.   *)
(* A KernelArgs object may be cleared and used again.                      *)
(***************************************************************************)
EXTENDS Integers, FiniteSets, Sequences, SequencesExt, FiniteSetsExt

CONSTANTS KernelDefs,    \* kernels: components of the key, base and execute
          CallRequests,  \* requests [op, dtype, arch]
          ParentOf,      \* architecture -> its parent, itself for a generic one
          Width,         \* bits of each field of a key
          CallTensors,   \* tensors, each with a storage and a layout
          Operands,      \* operand identifiers
          RequiredOperands, \* those the kernels' schemas do not mark optional
          MaxBindings,   \* bound on the tensors bound into one KernelArgs
          Nothing        \* null, nullopt

VARIABLES kernelTable,  \* registered kernels: key -> entry
          args,         \* KernelArgs: context_, storages_, params_
          seen,         \* history: the last call of a kernel and what it got
          firstBound,   \* history: operand -> the tensor first bound to it
          halfCleared   \* history: one of the two lists was cleared alone

callVars == <<kernelTable, args, seen, firstBound, halfCleared>>

Components == {"dtype", "op", "arch", "layout", "variant"}
Types == {"view", "int64", "float", "double"}

\* Identifiers fit the fields of a key: the generated tables number them from 0.
ASSUME WidthAssumption == DOMAIN Width = Components /\ \A f \in Components : Width[f] \in Nat
ASSUME KernelsFit == \A k \in KernelDefs : \A f \in Components : k[f] \in 0 .. 2^Width[f] - 1
ASSUME RequestsFit ==
    /\ \A r \in CallRequests : r.arch \in DOMAIN ParentOf
    /\ \A r \in CallRequests : \A f \in {"op", "dtype"} : r[f] \in 0 .. 2^Width[f] - 1
    /\ DOMAIN ParentOf \subseteq 0 .. 2^Width.arch - 1

\* The fallback from every architecture ends: each is further from its generic
\* one than its parent is.
ASSUME AncestryEnds ==
    /\ IsFiniteSet(DOMAIN ParentOf)
    /\ \A a \in DOMAIN ParentOf : ParentOf[a] \in DOMAIN ParentOf
    /\ \E distance \in [DOMAIN ParentOf -> 0 .. Cardinality(DOMAIN ParentOf)] :
         \A a \in DOMAIN ParentOf : ParentOf[a] # a => distance[ParentOf[a]] < distance[a]

ASSUME NothingAssumption ==
    /\ Nothing \notin Nat /\ Nothing \notin CallTensors
    /\ Nothing \notin [type : Types, of : CallTensors \cup {"user"}]

ASSUME RequiredAssumption == RequiredOperands \subseteq Operands

-----------------------------------------------------------------------------
(* kernel_key *)

Shift == [dtype |-> 0, op |-> Width.dtype, arch |-> Width.dtype + Width.op,
          layout |-> Width.dtype + Width.op + Width.arch,
          variant |-> Width.dtype + Width.op + Width.arch + Width.layout]

Field(c, f) == (c[f] % 2^Width[f]) * 2^Shift[f]

\* make: the version field, above the others, is always 0.
make(c) ==
    Field(c, "variant") + Field(c, "layout") + Field(c, "arch") + Field(c, "op") + Field(c, "dtype")

\* getOp, getArchitecture, getLayout, getDType, getVariant.
get(key, f) == (key \div 2^Shift[f]) % 2^Width[f]

-----------------------------------------------------------------------------
(* key_resolver *)

Generations == 0 .. Cardinality(DOMAIN ParentOf)

\* The n-th ancestor of each architecture; one without a parent is its own.
Ancestor[n \in Generations] ==
    [a \in DOMAIN ParentOf |-> IF n = 0 THEN a ELSE ParentOf[Ancestor[n - 1][a]]]

\* forEachFallback: the architecture, its parent, and so on to the one without.
Fallback(arch) ==
    LET last == Min({n \in Generations : ParentOf[Ancestor[n][arch]] = Ancestor[n][arch]})
    IN  [n \in 1 .. last + 1 |-> Ancestor[n - 1][arch]]

\* makeKey: the key of a request for one of its rules.
makeKey(request, rule) ==
    make([op |-> request.op, dtype |-> request.dtype, arch |-> rule.arch,
          layout |-> rule.layout, variant |-> rule.variant])

\* buildContext: one rule per architecture, of layout and variant 0, and without
\* a predicate, so that verify falls back to defaultVerify, which accepts all.
buildContext(request) ==
    LET chain == Fallback(request.arch)
    IN  [n \in DOMAIN chain |-> [arch |-> chain[n], layout |-> 0, variant |-> 0]]

\* resolve: the first rule whose key is registered.
resolve(request) ==
    LET rules == buildContext(request)
        found == {n \in DOMAIN rules : makeKey(request, rules[n]) \in DOMAIN kernelTable}
    IN  IF found = {} THEN Nothing ELSE makeKey(request, rules[Min(found)])

-----------------------------------------------------------------------------
(* KernelArgs, ParamList, StorageList *)

EmptyArgs == [context |-> "none", storages |-> <<>>, params |-> <<>>]

First(list, key) ==
    LET hits == {i \in DOMAIN list : list[i].key = key}
    IN  IF hits = {} THEN Nothing ELSE list[Min(hits)].value

\* Fault: a storage bound later takes the place of the first.
findStorageLast(a, operand) ==
    LET hits == {i \in DOMAIN a.storages : a.storages[i].key = operand}
    IN  IF hits = {} THEN Nothing ELSE a.storages[Max(hits)].value

\* Adding appends: an operand or a parameter added twice is found as it was first.
findStorage(a, operand) == First(a.storages, operand)
findParam(a, key) == First(a.params, key)

\* ParamKey::global and ParamKey::scoped.
Global(id) == <<id, Nothing>>
Scoped(id, operand) == <<id, operand>>

\* A layout's parameters, as shape and strides (views into the layout) and offset.
LayoutIds == {"Shape", "Strides", "Offset"}
TypeOf(id) == CASE id \in {"Shape", "Strides"} -> "view" [] id = "Offset" -> "int64" [] OTHER -> "float"

\* ParamSlot::bindScoped.
ScopedParam(t, operand, id) == [key |-> Scoped(id, operand), value |-> [type |-> TypeOf(id), of |-> t]]

\* addStorage.
AddStorage(a, operand, t) == [a EXCEPT !.storages = Append(@, [key |-> operand, value |-> t])]

\* StorageSlot::bind, of a const tensor, so that the lease is copied and the
\* tensor keeps its own, and DenseTensorLayout::bindParams.
bindAllArgs(t, operand) ==
    /\ Len(args.storages) < MaxBindings /\ Len(args.params) < 3 * MaxBindings
    /\ args' = [AddStorage(args, operand, t) EXCEPT
         !.params = @ \o << ScopedParam(t, operand, "Shape"), ScopedParam(t, operand, "Strides"),
                            ScopedParam(t, operand, "Offset") >>]
    /\ firstBound' = [firstBound EXCEPT ![operand] = IF @ = Nothing THEN t ELSE @]
    /\ seen' = Nothing
    /\ UNCHANGED <<kernelTable, halfCleared>>

\* addParam of a global parameter, with a value of either of two types.
addParam(type) ==
    /\ findParam(args, Global("Alpha")) = Nothing /\ Len(args.params) < 3 * MaxBindings
    /\ args' = [args EXCEPT !.params = Append(@, [key |-> Global("Alpha"), value |-> [type |-> type, of |-> "user"]])]
    /\ seen' = Nothing
    /\ UNCHANGED <<kernelTable, firstBound, halfCleared>>

clearStorages ==
    /\ args' = [args EXCEPT !.storages = <<>>]
    /\ firstBound' = [o \in Operands |-> Nothing]
    /\ halfCleared' = (args.params # <<>>)
    /\ seen' = Nothing
    /\ UNCHANGED kernelTable

clearParams ==
    /\ args' = [args EXCEPT !.params = <<>>]
    /\ halfCleared' = (args.storages # <<>>)
    /\ seen' = Nothing
    /\ UNCHANGED <<kernelTable, firstBound>>

\* KernelArgs(context): a new object for an execution.
newArgs(context) ==
    /\ args' = [EmptyArgs EXCEPT !.context = context]
    /\ firstBound' = [o \in Operands |-> Nothing]
    /\ halfCleared' = FALSE /\ seen' = Nothing
    /\ UNCHANGED kernelTable

-----------------------------------------------------------------------------
(* Schemas and KernelEntry *)

\* tryGet: the value, if it has the type declared for the parameter.
tryGet(value, id) == IF value # Nothing /\ value.type = TypeOf(id) THEN value ELSE Nothing

\* The fields of the kernels' schemas: the storage of each operand, the layout
\* of each operand, and Alpha, which is optional.
ParamFields == {Scoped(id, o) : id \in LayoutIds, o \in Operands} \cup {Global("Alpha")}
RequiredParam(key) == key[2] \in RequiredOperands

\* StorageField and OptionalStorageField: the binding of the operand.
extractStorages(a) == [o \in Operands |-> findStorage(a, o)]

\* Field, ScopedField and their optional forms: what is missing or of another
\* type is absent.
extractFields(a) == [key \in ParamFields |-> tryGet(findParam(a, key), key[1])]

\* A required field that is absent throws.
ExtractThrows(a) ==
    \/ \E o \in RequiredOperands : extractStorages(a)[o] = Nothing
    \/ \E key \in ParamFields : RequiredParam(key) /\ extractFields(a)[key] = Nothing

\* KernelEntry::run throws before the kernel function is reached: no base, a
\* context of another execution, pipelines that cannot be made, no function.
RunThrows(entry, ready) ==
    \/ entry.base = "none"
    \/ args.context # "mps"
    \/ ~ready
    \/ ~entry.execute

\* registerKernel: a key that is registered already keeps its kernel.
registerKernelDef(k) ==
    /\ kernelTable' = [key \in DOMAIN kernelTable \cup {make(k)} |->
                         IF key \in DOMAIN kernelTable THEN kernelTable[key] ELSE k]
    /\ seen' = Nothing
    /\ UNCHANGED <<args, firstBound, halfCleared>>

\* A call: the key is resolved, the entry looked up and run.
run(request, ready) ==
    /\ seen = Nothing
    /\ LET key == resolve(request)
       IN  seen' = [ request |-> request, key |-> key,
                     outcome |-> IF key = Nothing THEN "unresolved"
                                 ELSE IF RunThrows(kernelTable[key], ready) \/ ExtractThrows(args)
                                 THEN "throws" ELSE "runs",
                     storages |-> extractStorages(args), params |-> extractFields(args) ]
    /\ UNCHANGED <<kernelTable, args, firstBound, halfCleared>>

CallInit ==
    /\ kernelTable = [key \in {} |-> Nothing]
    /\ args = EmptyArgs
    /\ seen = Nothing
    /\ firstBound = [o \in Operands |-> Nothing]
    /\ halfCleared = FALSE

CallNext ==
    \/ \E k \in KernelDefs : registerKernelDef(k)
    \/ \E t \in CallTensors, o \in Operands : bindAllArgs(t, o)
    \/ \E type \in {"float", "double"} : addParam(type)
    \/ clearStorages
    \/ clearParams
    \/ \E c \in {"cpu", "mps"} : newArgs(c)
    \/ \E r \in CallRequests, ready \in BOOLEAN : run(r, ready)

CallSpec == CallInit /\ [][CallNext]_callVars

-----------------------------------------------------------------------------
(* Properties *)

\* Kernels of different components have different keys, whose fields are theirs:
\* no registration is skipped for a kernel of other components.
KeysUnpack ==
    \A key \in DOMAIN kernelTable : \A f \in DOMAIN Width : get(key, f) = kernelTable[key][f]

\* resolve finds a kernel of the operation and type asked for when one of layout
\* and variant 0 is registered for an architecture between the device's and its
\* generic one, and the one it finds is for the nearest such architecture.
MostSpecific ==
    seen # Nothing =>
      LET chain == Fallback(seen.request.arch)
          At(key) == {n \in DOMAIN chain :
                        [f \in DOMAIN Width |-> kernelTable[key][f]] =
                          [f \in DOMAIN Width |->
                             CASE f \in {"op", "dtype"} -> seen.request[f]
                               [] f = "arch" -> chain[n] [] OTHER -> 0]}
      IN  /\ seen.key = Nothing <=> \A key \in DOMAIN kernelTable : At(key) = {}
          /\ seen.key # Nothing =>
               \E n \in At(seen.key) : \A key \in DOMAIN kernelTable : \A i \in At(key) : n <= i

\* A kernel that runs gets, for each operand, the storage and the layout of one
\* tensor, the first that was bound to it, however often operands were bound,
\* unless only one of the two lists was cleared between two bindings.
OperandsTogether ==
    (seen # Nothing /\ seen.outcome = "runs") =>
      \A o \in Operands :
        /\ seen.storages[o] = firstBound[o]
        /\ o \in RequiredOperands => seen.storages[o] # Nothing
        /\ ~halfCleared /\ firstBound[o] # Nothing =>
             \A id \in LayoutIds : seen.params[Scoped(id, o)] = [type |-> TypeOf(id), of |-> firstBound[o]]

\* Across keys, resolver, argument lists and schemas: a call runs the most
\* specific kernel there is, with the operands it was given.
CallsConsistent == KeysUnpack /\ MostSpecific /\ OperandsTogether
=============================================================================
