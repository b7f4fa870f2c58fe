--------------------------- MODULE CodegenProofs ---------------------------
(***************************************************************************)
(* Proofs about the generators and the build that runs them, for any       *)
(* documents, any edits between builds, any writes that fail and any width *)
(* of the masks.                                                           *)
(*                                                                         *)
(* BuildInv says which files can be out of date: one whose command is due  *)
(* to run, or the half of one whose second write failed.  So a complete    *)
(* build leaves what the generators make of the documents as they are, and *)
(* the other theorems are about the generators alone: a document that is   *)
(* accepted gives tables whose lookups answer what the document says.  The *)
(* lemmas they rest on: names are found at the number they were given, a   *)
(* list written into one array with offsets is cut out again, entries of   *)
(* an execution are consecutive, a walk along parents without a cycle is   *)
(* no longer than the table, and detection examines all candidates.        *)
(***************************************************************************)
EXTENDS Codegen, FiniteSetTheorems, FunctionTheorems, SequenceTheorems, TLAPS

-----------------------------------------------------------------------------
(* Natural numbers and recursive functions *)

LEMMA LeastNat ==
    ASSUME NEW X \in SUBSET Nat, X # {}
    PROVE  \E m \in X : \A n \in X : m <= n
<1> DEFINE T == {1 .. n : n \in X}
           R == StrictSubsetOrdering(Nat)
<1>1. ASSUME NEW n \in X PROVE 1 .. n \in FiniteSubsetsOf(Nat)
  <2>1. n \in Int /\ 1 \in Int /\ 1 .. n \in SUBSET Nat
    OBVIOUS
  <2>2. IsFiniteSet(1 .. n)
    BY <2>1, FS_Interval
  <2> QED
    BY <2>1, <2>2 DEF FiniteSubsetsOf
<1>2. T \subseteq FiniteSubsetsOf(Nat) /\ T # {}
  BY <1>1
<1>3. IsWellFoundedOn(R, FiniteSubsetsOf(Nat))
  BY FS_StrictSubsetOrderingWellFounded
<1>4. PICK x \in T : \A y \in T : ~ (<< y, x >> \in R)
  <2> HIDE DEF T, R
  <2> QED
    BY <1>2, <1>3, WFMin
<1>5. PICK m \in X : x = 1 .. m
  OBVIOUS
<1>6. ASSUME NEW n \in X PROVE m <= n
  <2> SUFFICES ASSUME n < m PROVE FALSE
    OBVIOUS
  <2>1. 1 .. n \in SUBSET Nat /\ 1 .. m \in SUBSET Nat /\ 1 .. n \subseteq 1 .. m
    OBVIOUS
  <2>2. m \in 1 .. m /\ m \notin 1 .. n
    OBVIOUS
  <2>3. << 1 .. n, 1 .. m >> \in R
    BY <2>1, <2>2 DEF StrictSubsetOrdering
  <2>4. 1 .. n \in T
    OBVIOUS
  <2> QED
    BY <1>4, <1>5, <2>3, <2>4
<1> QED
  BY <1>6

LEMMA ListOf ==
    ASSUME NEW n \in Nat, NEW S, NEW f \in [1 .. n -> S]
    PROVE  f \in Seq(S) /\ Len(f) = n /\ DOMAIN f = 1 .. n
<1>1. f \in Seq(S)
  BY SeqDef
<1> QED
  BY <1>1, LenProperties

LEMMA Upward ==
    ASSUME NEW m \in Nat, NEW X, 0 \in X, \A n \in 1 .. m : n - 1 \in X => n \in X
    PROVE  \A n \in 0 .. m : n \in X
<1> DEFINE Y == {n \in 0 .. m : n \notin X}
<1> SUFFICES ASSUME Y # {} PROVE FALSE
  OBVIOUS
<1>1. Y \in SUBSET Nat
  OBVIOUS
<1>2. PICK k \in Y : \A n \in Y : k <= n
  BY <1>1, LeastNat
<1>3. k \in 0 .. m /\ k \notin X /\ k # 0
  OBVIOUS
<1> HIDE DEF Y
<1>4. k \in 1 .. m /\ k - 1 \in 0 .. m /\ ~ (k <= k - 1)
  BY <1>3
<1>5. k - 1 \notin Y
  BY <1>2, <1>4, Zenon
<1>6. k - 1 \in X
  BY <1>4, <1>5 DEF Y
<1> QED
  BY <1>3, <1>4, <1>6

\* f starts at x and makes one of m steps at a time.
IsRun(f, m, x, step) == f = [n \in 0 .. m |-> IF n = 0 THEN x ELSE step[n][f[n - 1]]]

LEMMA RunExists ==
    ASSUME NEW m \in Nat, NEW S, NEW x \in S, NEW step \in [1 .. m -> [S -> S]]
    PROVE  \E f \in [0 .. m -> S] : IsRun(f, m, x, step)
<1> DEFINE X == {k \in 0 .. m : \E f \in [0 .. k -> S] : IsRun(f, k, x, step)}
<1>1. 0 \in X
  <2> DEFINE f == [n \in 0 .. 0 |-> x]
  <2>1. f \in [0 .. 0 -> S] /\ \A n \in 0 .. 0 : n = 0
    OBVIOUS
  <2>2. IsRun(f, 0, x, step)
    BY <2>1 DEF IsRun
  <2> HIDE DEF f
  <2> QED
    BY <2>1, <2>2
<1>2. ASSUME NEW k \in 1 .. m, k - 1 \in X PROVE k \in X
  <2>1. PICK f \in [0 .. k - 1 -> S] : IsRun(f, k - 1, x, step)
    BY <1>2
  <2> HIDE DEF X
  <2>2. /\ k \in 0 .. m /\ k # 0 /\ k - 1 \in 0 .. k - 1
        /\ \A n \in 0 .. k : n # k => n \in 0 .. k - 1
        /\ \A n \in 0 .. k - 1 : n \in 0 .. k /\ n # k
        /\ \A n \in 0 .. k : n # 0 => n - 1 \in 0 .. k - 1
    OBVIOUS
  <2>3. \A n \in 0 .. k - 1 : f[n] = IF n = 0 THEN x ELSE step[n][f[n - 1]]
    <3> DEFINE F(n) == IF n = 0 THEN x ELSE step[n][f[n - 1]]
    <3>1. f = [n \in 0 .. k - 1 |-> F(n)]
      BY <2>1 DEF IsRun
    <3> HIDE DEF F
    <3>2. \A n \in 0 .. k - 1 : f[n] = F(n)
      BY <3>1
    <3> QED
      BY <3>2 DEF F
  <2>4. step[k] \in [S -> S] /\ f[k - 1] \in S
    BY <2>2
  <2> DEFINE g == [n \in 0 .. k |-> IF n = k THEN step[k][f[k - 1]] ELSE f[n]]
  <2>5. g \in [0 .. k -> S]
    BY <2>2, <2>4
  <2>6. \A n \in 0 .. k - 1 : g[n] = f[n]
    BY <2>2
  <2>7. g[k] = step[k][f[k - 1]]
    BY <2>2
  <2> HIDE DEF g
  <2>8. ASSUME NEW n \in 0 .. k PROVE g[n] = IF n = 0 THEN x ELSE step[n][g[n - 1]]
    <3>1. CASE n = k
      BY <2>2, <2>6, <2>7, <3>1
    <3>2. CASE n # k
      <4>1. n \in 0 .. k - 1 /\ (n # 0 => n - 1 \in 0 .. k - 1)
        BY <2>2, <3>2, Zenon
      <4>2. g[n] = f[n] /\ (n # 0 => g[n - 1] = f[n - 1])
        BY <2>6, <4>1, Zenon
      <4> QED
        BY <2>3, <4>1, <4>2
    <3> QED
      BY <3>1, <3>2
  <2>9. IsRun(g, k, x, step)
    <3>1. g = [n \in 0 .. k |-> g[n]]
      BY <2>5
    <3> QED
      BY <2>8, <3>1 DEF IsRun
  <2> QED
    BY <2>2, <2>5, <2>9 DEF X
<1>3. m \in X
  <2> HIDE DEF X
  <2>1. \A k \in 1 .. m : k - 1 \in X => k \in X
    BY <1>2
  <2>2. \A k \in 0 .. m : k \in X
    BY <1>1, <2>1, Upward
  <2> QED
    BY <2>2
<1> QED
  BY <1>3

LEMMA RunFacts ==
    ASSUME NEW m \in Nat, NEW x, NEW step, NEW f, IsRun(f, m, x, step)
    PROVE  f[0] = x /\ \A n \in 1 .. m : f[n] = step[n][f[n - 1]]
<1> DEFINE F(n) == IF n = 0 THEN x ELSE step[n][f[n - 1]]
<1>1. f = [n \in 0 .. m |-> F(n)]
  BY DEF IsRun
<1> HIDE DEF F
<1>2. \A n \in 0 .. m : f[n] = F(n)
  BY <1>1
<1>3. 0 \in 0 .. m /\ \A n \in 1 .. m : n \in 0 .. m /\ n # 0
  OBVIOUS
<1> QED
  BY <1>2, <1>3 DEF F

\* A loop of m steps over values of S.
IsLoop(f, m, x, step) == f[0] = x /\ \A n \in 1 .. m : f[n] = step[n][f[n - 1]]

LEMMA LoopExists ==
    ASSUME NEW m \in Nat, NEW S, NEW x \in S, NEW step \in [1 .. m -> [S -> S]]
    PROVE  \E f \in [0 .. m -> S] : IsLoop(f, m, x, step)
<1>1. PICK f \in [0 .. m -> S] : IsRun(f, m, x, step)
  BY RunExists
<1>2. f[0] = x /\ \A n \in 1 .. m : f[n] = step[n][f[n - 1]]
  <2>1. IsRun(f, m, x, step)
    BY <1>1
  <2> QED
    BY <2>1, RunFacts
<1> QED
  BY <1>2 DEF IsLoop

-----------------------------------------------------------------------------
(* The build *)

\* What the two files of a generator are when it has succeeded.
Current(g) == Accepted(g) /\ files[g] = [def |-> Def(g), tables |-> Tables(g)]

\* The documents are those a user may write, accepted or not.
DocumentsKnown ==
    /\ DOMAIN yaml = Sections
    /\ \A g \in Sections : Document(g, yaml[g])

\* Each generator has its two files, whatever is in them.
FilesWritten ==
    files = [g \in Sections |-> [def |-> files[g].def, tables |-> files[g].tables]]

\* One command runs, one that is due, and none once one has failed.
OneAtATime ==
    /\ stale \subseteq Sections
    /\ running \in stale \cup {NoFile}
    /\ running # NoFile => ~failed

\* Between its two writes a command has the first file as it should be.
HalfWritten == running # NoFile => Accepted(running) /\ files[running].def = Def(running)

\* A file that is not due is what its generator makes of the documents.
UpToDate == \A g \in Sections \ stale : Current(g)

\* The invariant of the build.
BuildInv ==
    /\ DocumentsKnown
    /\ FilesWritten
    /\ OneAtATime
    /\ HalfWritten
    /\ UpToDate

LEMMA SectionsAre ==
    Sections = {"dtypes", "ops", "executions", "architectures", "devices",
                "params", "operands", "roles"}
<1> DEFINE S == {"dtypes", "ops", "executions", "architectures", "devices",
                 "params", "operands", "roles"}
<1>1. Order \in [1 .. 8 -> S] /\ DOMAIN Order = 1 .. 8
  BY DEF Order
<1>2. Range(Order) \subseteq S
  BY <1>1 DEF Range
<1>3. /\ Order[1] = "dtypes" /\ Order[2] = "ops" /\ Order[3] = "executions"
      /\ Order[4] = "architectures" /\ Order[5] = "devices" /\ Order[6] = "params"
      /\ Order[7] = "operands" /\ Order[8] = "roles"
  BY DEF Order
<1>4. /\ 1 \in 1 .. 8 /\ 2 \in 1 .. 8 /\ 3 \in 1 .. 8 /\ 4 \in 1 .. 8
      /\ 5 \in 1 .. 8 /\ 6 \in 1 .. 8 /\ 7 \in 1 .. 8 /\ 8 \in 1 .. 8
  OBVIOUS
<1>5. S \subseteq Range(Order)
  BY <1>1, <1>3, <1>4 DEF Range
<1> QED
  BY <1>2, <1>5 DEF Sections

\* A generator reads the documents its command depends on and no other.
LEMMA OnlyDepends ==
    ASSUME BuildInv, NEW section \in Sections, NEW doc, NEW g \in Sections,
           yaml' = [yaml EXCEPT ![section] = doc], section \notin Depends(g)
    PROVE  Accepted(g)' = Accepted(g) /\ Def(g)' = Def(g) /\ Tables(g)' = Tables(g)
<1>1. \A s \in Sections : s # section => yaml'[s] = yaml[s]
  BY DEF BuildInv, DocumentsKnown
<1>2. CASE g = "dtypes"
  <2>1. yaml'.dtypes = yaml.dtypes
    BY <1>1, <1>2, SectionsAre DEF Depends
  <2> QED
    BY <1>2, <2>1 DEF Accepted, Def, Tables
<1>3. CASE g = "ops"
  <2>1. yaml'.ops = yaml.ops /\ yaml'.dtypes = yaml.dtypes
    BY <1>1, <1>3, SectionsAre DEF Depends
  <2> QED
    BY <1>3, <2>1 DEF Accepted, Def, Tables
<1>4. CASE g = "executions"
  <2>1. yaml'.executions = yaml.executions
    BY <1>1, <1>4, SectionsAre DEF Depends
  <2> QED
    BY <1>4, <2>1 DEF Accepted, Def, Tables
<1>5. CASE g = "architectures"
  <2>1. yaml'.architectures = yaml.architectures /\ yaml'.executions = yaml.executions
    BY <1>1, <1>5, SectionsAre DEF Depends
  <2> QED
    BY <1>5, <2>1 DEF Accepted, Def, Tables
<1>6. CASE g = "devices"
  <2>1. /\ yaml'.devices = yaml.devices /\ yaml'.executions = yaml.executions
        /\ yaml'.architectures = yaml.architectures /\ yaml'.dtypes = yaml.dtypes
        /\ yaml'.ops = yaml.ops
    BY <1>1, <1>6, SectionsAre DEF Depends
  <2>2. DevicesAccepted(yaml') = DevicesAccepted(yaml)
    BY <2>1 DEF DevicesAccepted, DeviceAccepted
  <2>3. DeviceTables(yaml') = DeviceTables(yaml)
    <3> DEFINE T(devices, executions, architectures, dtypes, ops) ==
          LET list == devices.devices
              DTypeLists == [i \in DOMAIN list |-> Indices(DTypeIds(dtypes), list[i].supported_dtypes)]
              OpLists == [i \in DOMAIN list |-> Indices(OpDef(ops), list[i].supported_ops)]
              Capabilities == [i \in DOMAIN list |-> List(list[i].capabilities)]
          IN [count |-> Len(list),
              execution |-> [i \in DOMAIN list |->
                  IndexOf(ExecutionIds(executions), list[i].execution)],
              local |-> [i \in DOMAIN list |->
                  LocalIndex(architectures, list[i].execution, list[i].architecture)],
              memory |-> [i \in DOMAIN list |->
                  [max |-> list[i].memory.max_bytes,
                   shared |-> IF list[i].memory.shared_bytes = Missing THEN 0
                              ELSE list[i].memory.shared_bytes]],
              dtypeOffsets |-> OffsetsOf(DTypeLists), dtypes |-> FlattenSeq(DTypeLists),
              opOffsets |-> OffsetsOf(OpLists), ops |-> FlattenSeq(OpLists),
              capabilityOffsets |-> OffsetsOf(Capabilities),
              capabilities |-> FlattenSeq(Capabilities)]
    <3>1. /\ DeviceTables(yaml) = T(yaml.devices, yaml.executions, yaml.architectures, yaml.dtypes, yaml.ops)
          /\ DeviceTables(yaml') = T(yaml'.devices, yaml'.executions, yaml'.architectures, yaml'.dtypes, yaml'.ops)
      BY Zenon DEF DeviceTables
    <3> HIDE DEF T
    <3> QED
      BY <2>1, <3>1
  <2> QED
    BY <1>6, <2>1, <2>2, <2>3 DEF Accepted, Def, Tables
<1>7. CASE g = "params"
  <2>1. yaml'.params = yaml.params /\ yaml'[g] = yaml[g]
    BY <1>1, <1>7, SectionsAre DEF Depends
  <2> QED
    BY <1>7, <2>1 DEF Accepted, Def, Tables
<1>8. CASE g = "operands"
  <2>1. yaml'.operands = yaml.operands /\ yaml'[g] = yaml[g]
    BY <1>1, <1>8, SectionsAre DEF Depends
  <2> QED
    BY <1>8, <2>1 DEF Accepted, Def, Tables
<1>9. CASE g = "roles"
  <2>1. yaml'.roles = yaml.roles /\ yaml'[g] = yaml[g]
    BY <1>1, <1>9, SectionsAre DEF Depends
  <2> QED
    BY <1>9, <2>1 DEF Accepted, Def, Tables
<1> QED
  BY <1>2, <1>3, <1>4, <1>5, <1>6, <1>7, <1>8, <1>9, SectionsAre

LEMMA InitBuild == Init => BuildInv
<1> SUFFICES ASSUME Init PROVE BuildInv
  OBVIOUS
<1>1. DocumentsKnown
  BY DocumentsAssumption DEF Init, DocumentsKnown
<1>2. FilesWritten /\ OneAtATime /\ HalfWritten /\ UpToDate
  BY SectionsAssumption DEF Init, FilesWritten, OneAtATime, HalfWritten, UpToDate
<1> QED
  BY <1>1, <1>2 DEF BuildInv

\* A step that edits no document reads every document as it was.
LEMMA SameDocuments ==
    ASSUME UNCHANGED yaml, NEW g
    PROVE  Accepted(g)' = Accepted(g) /\ Def(g)' = Def(g) /\ Tables(g)' = Tables(g)
BY DEF Accepted, Def, Tables

LEMMA WriteDefBuild ==
    ASSUME BuildInv, NEW g \in Sections, WriteDef(g)
    PROVE  BuildInv'
<1> USE DEF BuildInv, WriteDef, NextCommand
<1>1. DocumentsKnown'
  BY DEF DocumentsKnown
<1>2. files'[g] = [files[g] EXCEPT !.def = Def(g)] /\ \A h \in Sections : h # g => files'[h] = files[h]
  BY DEF FilesWritten
<1>3. files'[g] = [def |-> Def(g), tables |-> files[g].tables]
  BY <1>2 DEF FilesWritten
<1>4. FilesWritten'
  BY <1>2, <1>3 DEF FilesWritten
<1>5. OneAtATime'
  BY DEF OneAtATime
<1>6. HalfWritten'
  BY <1>3, SameDocuments DEF HalfWritten
<1>7. UpToDate'
  BY <1>2, SameDocuments DEF UpToDate, Current
<1> QED
  BY <1>1, <1>4, <1>5, <1>6, <1>7

LEMMA WriteTablesBuild ==
    ASSUME BuildInv, WriteTables
    PROVE  BuildInv'
<1> USE DEF BuildInv, WriteTables
<1> DEFINE g == running
<1>1. g \in stale /\ g \in Sections
  BY DEF OneAtATime
<1>2. DocumentsKnown'
  BY DEF DocumentsKnown
<1>3. files'[g] = [files[g] EXCEPT !.tables = Tables(g)] /\ \A h \in Sections : h # g => files'[h] = files[h]
  BY <1>1 DEF FilesWritten
<1>4. files'[g] = [def |-> Def(g), tables |-> Tables(g)]
  BY <1>1, <1>3 DEF FilesWritten, HalfWritten
<1>5. FilesWritten'
  BY <1>1, <1>3, <1>4 DEF FilesWritten
<1>6. OneAtATime' /\ HalfWritten'
  BY DEF OneAtATime, HalfWritten
<1>7. UpToDate'
  BY <1>1, <1>3, <1>4, SameDocuments DEF UpToDate, Current, HalfWritten
<1> QED
  BY <1>2, <1>5, <1>6, <1>7

LEMMA EditBuild ==
    ASSUME BuildInv, NEW section \in Sections, NEW doc \in Variants[section],
           Edit(section, doc)
    PROVE  BuildInv'
<1>1. DocumentsKnown'
  <2>1. Document(section, doc)
    BY DocumentsAssumption
  <2> QED
    BY <2>1 DEF BuildInv, DocumentsKnown, Edit
<1>2. running = NoFile
  BY DEF BuildInv, OneAtATime, Edit
<1>3. FilesWritten' /\ OneAtATime' /\ HalfWritten'
  BY <1>2 DEF BuildInv, FilesWritten, OneAtATime, HalfWritten, Edit
<1>4. ASSUME NEW g \in Sections, g \notin stale' PROVE Current(g)'
  <2>1. g \notin stale /\ section \notin Depends(g)
    BY <1>4 DEF Edit
  <2>2. Accepted(g)' = Accepted(g) /\ Def(g)' = Def(g) /\ Tables(g)' = Tables(g)
    BY <2>1, OnlyDepends DEF Edit
  <2> QED
    BY <2>1, <2>2 DEF BuildInv, UpToDate, Current, Edit
<1> QED
  BY <1>1, <1>3, <1>4 DEF BuildInv, UpToDate

LEMMA NextBuild == BuildInv /\ [Next]_vars => BuildInv'
<1> SUFFICES ASSUME BuildInv, [Next]_vars PROVE BuildInv'
  OBVIOUS
<1>1. ASSUME UNCHANGED <<yaml, files, stale>>, running' \in {running, NoFile},
             running' # NoFile => ~failed'
      PROVE  BuildInv'
  BY <1>1, SameDocuments DEF BuildInv, DocumentsKnown, FilesWritten, OneAtATime, HalfWritten,
     UpToDate, Current
<1>2. CASE WriteFails \/ Rebuild \/ UNCHANGED vars \/ \E g \in Sections : Reject(g)
  BY <1>1, <1>2 DEF WriteFails, Rebuild, vars, Reject, NextCommand, BuildInv, OneAtATime
<1> QED
  BY <1>2, WriteDefBuild, WriteTablesBuild, EditBuild DEF Next

\* The inductive invariant of the build: a document is one that was written or
\* edited in, a file holds what its generator once wrote, one command is between
\* its two writes, and a file that is not due is what its generator makes of the
\* documents as they are.
THEOREM BuildInvariant == Spec => []BuildInv
<1>1. Init => BuildInv
  BY InitBuild
<1>2. BuildInv /\ [Next]_vars => BuildInv'
  BY NextBuild
<1> QED
  BY <1>1, <1>2, PTL DEF Spec

LEMMA BuiltFiles ==
    ASSUME BuildInv, Built
    PROVE  \A g \in Sections : Accepted(g) /\ files[g] = [def |-> Def(g), tables |-> Tables(g)]
BY DEF BuildInv, Built, UpToDate, Current

\* A build that completes leaves both files of every generator as they would
\* be if all were made anew from the documents as they are: the dependencies of
\* src/CMakeLists.txt name every document a generator reads, and a command that
\* failed between its two writes is run again.
THEOREM BuildsMatchDocuments == Spec => []FilesMatchDocuments
<1>1. BuildInv => FilesMatchDocuments
  BY BuiltFiles DEF FilesMatchDocuments
<1> QED
  BY <1>1, BuildInvariant, PTL

-----------------------------------------------------------------------------
(* Names and numbers *)

LEMMA IndexOfFacts ==
    ASSUME NEW n \in Nat, NEW ids, DOMAIN ids = 1 .. n
    PROVE  /\ \A id \in Range(ids) : IndexOf(ids, id) \in 0 .. n - 1 /\ ids[IndexOf(ids, id) + 1] = id
           /\ IsInjective(ids) => \A i \in 1 .. n : IndexOf(ids, ids[i]) = i - 1
<1>1. ASSUME NEW id \in Range(ids)
      PROVE  \E i \in 1 .. n : ids[i] = id /\ IndexOf(ids, id) = i - 1
  <2> DEFINE c == CHOOSE i \in DOMAIN ids : ids[i] = id
  <2>1. c \in DOMAIN ids /\ ids[c] = id
    BY DEF Range
  <2> QED
    BY <2>1 DEF IndexOf
<1>2. \A i \in 1 .. n : i - 1 \in 0 .. n - 1 /\ i - 1 + 1 = i
  OBVIOUS
<1>3. \A i \in 1 .. n : ids[i] \in Range(ids)
  BY DEF Range
<1> QED
  BY <1>1, <1>2, <1>3 DEF IsInjective

LEMMA NodeIsSequence ==
    ASSUME NEW v, SequenceNode(v), v \notin {Missing, Malformed}
    PROVE  v \in Seq(Range(v)) /\ Len(v) \in Nat /\ DOMAIN v = 1 .. Len(v)
BY LenProperties DEF SequenceNode

LEMMA DTypesKnown ==
    ASSUME NEW doc, DTypeDocument(doc), DTypesAccepted(doc)
    PROVE  /\ Len(doc.dtypes) \in Nat /\ DOMAIN doc.dtypes = 1 .. Len(doc.dtypes)
           /\ DOMAIN DTypeIds(doc) = 1 .. Len(doc.dtypes)
           /\ Len(DTypeIds(doc)) = Len(doc.dtypes)
           /\ IsInjective(DTypeIds(doc))
           /\ \A i \in 0 .. Len(doc.dtypes) - 1 : PriorityOf(doc, i) \in Int
<1>1. doc.dtypes \notin {Missing, Malformed} /\ \A i \in DOMAIN doc.dtypes : doc.dtypes[i] # Malformed
  BY DEF DTypesAccepted, ParseConfig, IsMappingSequence
<1>2. Len(doc.dtypes) \in Nat /\ DOMAIN doc.dtypes = 1 .. Len(doc.dtypes)
  BY <1>1, NodeIsSequence DEF DTypeDocument
<1>3. DOMAIN DTypeIds(doc) = 1 .. Len(doc.dtypes)
  BY <1>2 DEF DTypeIds
<1>4. Len(DTypeIds(doc)) = Len(doc.dtypes)
  BY <1>2 DEF DTypeIds
<1>5. IsInjective(DTypeIds(doc))
  BY DEF DTypesAccepted, ParseConfig
<1>6. ASSUME NEW i \in 0 .. Len(doc.dtypes) - 1 PROVE PriorityOf(doc, i) \in Int
  <2>1. i + 1 \in DOMAIN doc.dtypes
    BY <1>2
  <2>2. NumberNode(doc.dtypes[i + 1].promotion_priority)
    BY <1>1, <2>1 DEF DTypeDocument
  <2>3. doc.dtypes[i + 1].promotion_priority # Malformed
    BY <2>1 DEF DTypesAccepted, ParseConfig, ReadInt
  <2> QED
    BY <2>2, <2>3 DEF PriorityOf, NumberNode
<1> QED
  BY <1>2, <1>3, <1>4, <1>5, <1>6

LEMMA PromotionKeeps ==
    ASSUME NEW doc, DTypeDocument(doc), DTypesAccepted(doc)
    PROVE  PromotionWidens(doc, DTypeTables(doc))
<1> DEFINE ids == DTypeIds(doc)
           n == Len(doc.dtypes)
           t == DTypeTables(doc)
           overrides == List(doc.promotion_overrides)
           Overridden(i, j) == \E k \in DOMAIN overrides :
              LET o == doc.promotion_overrides[k] IN o.lhs = ids[i + 1] /\ o.rhs = ids[j + 1]
           For(i, j) == {k \in DOMAIN overrides :
                           /\ IndexOf(ids, overrides[k].lhs) = i
                           /\ IndexOf(ids, overrides[k].rhs) = j}
<1>1. /\ n \in Nat /\ DOMAIN ids = 1 .. n /\ Len(ids) = n /\ IsInjective(ids)
      /\ \A i \in 0 .. n - 1 : PriorityOf(doc, i) \in Int
  BY DTypesKnown
<1>2. ASSUME NEW i \in 0 .. n - 1, NEW j \in 0 .. n - 1, ~ Overridden(i, j)
      PROVE  promote(t, i, j) = ByPriority(doc, i, j)
  <2>1. ASSUME NEW k \in DOMAIN overrides
        PROVE  overrides[k] = doc.promotion_overrides[k] /\ overrides[k].lhs \in Range(ids)
               /\ overrides[k].rhs \in Range(ids)
    <3>1. doc.promotion_overrides # Missing
      BY <2>1 DEF List
    <3> QED
      BY <2>1, <3>1 DEF List, DTypesAccepted, ResolveConfig
  <2>2. For(i, j) = {}
    <3>1. \A id \in Range(ids) : ids[IndexOf(ids, id) + 1] = id
      BY <1>1, IndexOfFacts
    <3>2. ASSUME NEW k \in For(i, j) PROVE FALSE
      <4>1. overrides[k].lhs = ids[i + 1] /\ overrides[k].rhs = ids[j + 1]
        <5> HIDE DEF ids, overrides
        <5> QED
          BY <2>1, <3>1
      <4> QED
        BY <1>2, <2>1, <4>1, Zenon
    <3> QED
      BY <3>2
  <2>3. t.promotion[i][j] = IF For(i, j) = {} THEN ByPriority(doc, i, j)
                            ELSE IndexOf(ids, overrides[Max(For(i, j))].result)
    BY <1>1, Zenon DEF DTypeTables, PromotionTable
  <2> QED
    BY <2>2, <2>3 DEF promote
<1>3. t.count = n /\ \A i \in 0 .. n - 1 : t.priority[i + 1] = PriorityOf(doc, i)
  BY <1>1 DEF DTypeTables
<1>5. PromotionWidens(doc, t) <=> \A i, j \in 0 .. (t.count - 1) : ~ Overridden(i, j) =>
         LET r == promote(t, i, j) IN
         /\ r \in {i, j}
         /\ t.priority[r + 1] >= t.priority[i + 1]
         /\ t.priority[r + 1] >= t.priority[j + 1]
         /\ r # promote(t, j, i) =>
             Overridden(j, i) \/ t.priority[i + 1] = t.priority[j + 1]
  BY Zenon DEF PromotionWidens
<1> HIDE DEF ids, n, t, overrides, Overridden, For
<1>4. ASSUME NEW i \in 0 .. n - 1, NEW j \in 0 .. n - 1, ~ Overridden(i, j)
      PROVE  LET r == promote(t, i, j) IN
             /\ r \in {i, j}
             /\ t.priority[r + 1] >= t.priority[i + 1]
             /\ t.priority[r + 1] >= t.priority[j + 1]
             /\ r # promote(t, j, i) =>
                 Overridden(j, i) \/ t.priority[i + 1] = t.priority[j + 1]
  BY <1>1, <1>2, <1>3, <1>4 DEF ByPriority
<1> QED
  BY <1>3, <1>4, <1>5 DEF t

LEMMA CastsContained ==
    ASSUME NEW doc, DTypeDocument(doc), DTypesAccepted(doc)
    PROVE  ImplicitIsExplicit(DTypeTables(doc))
<1> DEFINE n == Len(doc.dtypes)
           casts == CastMasks(doc)
<1>1. Len(DTypeIds(doc)) = n
  BY DTypesKnown
<1>2. \A i \in 0 .. n - 1 : casts[i].implicit \subseteq casts[i].explicit
  BY <1>1 DEF CastMasks
<1>3. DTypeTables(doc).count = n /\ DTypeTables(doc).casts = casts
  BY <1>1 DEF DTypeTables
<1> HIDE DEF n, casts
<1> QED
  BY <1>2, <1>3 DEF ImplicitIsExplicit, canCast

\* promote keeps the operand of higher priority, in both orders, where neither
\* an override nor a tie says otherwise, and what canCast allows implicitly it
\* allows explicitly: of the tables of every dtype document gen_dtypes accepts.
THEOREM PromotionAlwaysConsistent == Spec => []PromotionAndCastsConsistent
<1>1. ASSUME BuildInv, Built
      PROVE  PromotionWidens(yaml.dtypes, files.dtypes.tables) /\ ImplicitIsExplicit(files.dtypes.tables)
  <2>1. DTypesAccepted(yaml.dtypes) /\ files.dtypes.tables = DTypeTables(yaml.dtypes)
    BY <1>1, BuiltFiles, SectionsAre DEF Accepted, Tables
  <2>2. DTypeDocument(yaml.dtypes)
    BY <1>1, SectionsAre DEF BuildInv, DocumentsKnown, Document
  <2> QED
    BY <2>1, <2>2, PromotionKeeps, CastsContained
<1>2. BuildInv => PromotionAndCastsConsistent
  BY <1>1 DEF PromotionAndCastsConsistent
<1> QED
  BY <1>2, BuildInvariant, PTL

-----------------------------------------------------------------------------
(* Lists in one array *)

\* f joins the lists one after the other.
Joins(f, n, lists) ==
    /\ f[0] = <<>>
    /\ \A i \in 1 .. n : f[i] = f[i - 1] \o lists[i]

LEMMA FlattenIs ==
    ASSUME NEW n \in Nat, NEW S, NEW lists \in [1 .. n -> Seq(S)],
           NEW f \in [0 .. n -> Seq(S)], Joins(f, n, lists)
    PROVE  FlattenSeq(lists) = f[n]
<1>1. lists \in Seq(Seq(S)) /\ Len(lists) = n
  BY ListOf
<1>2. CASE n = 0
  <2>1. lists = <<>>
    BY <1>1, <1>2
  <2> QED
    BY <1>1, <1>2, <2>1 DEF FlattenSeq, Joins
<1>3. CASE n # 0
  <2> DEFINE IsLet(g) == g = [i \in 1 .. n |-> IF i = 1 THEN lists[i] ELSE g[i - 1] \o lists[i]]
             g == CHOOSE h : IsLet(h)
             r == [i \in 1 .. n |-> f[i]]
  <2>1. FlattenSeq(lists) = g[n]
    BY <1>1, <1>3 DEF FlattenSeq
  <2>2. f[1] = lists[1]
    <3>1. 1 \in 1 .. n /\ lists[1] \in Seq(S) /\ 1 - 1 = 0
      BY <1>3
    <3>2. f[1] = f[1 - 1] \o lists[1]
      BY <3>1 DEF Joins
    <3>3. f[1] = <<>> \o lists[1]
      BY <3>1, <3>2 DEF Joins
    <3> QED
      BY <3>1, <3>3, ConcatEmptySeq
  <2>3. \A i \in 1 .. n : i = 1 \/ i - 1 \in 1 .. n
    OBVIOUS
  <2>4. IsLet(r)
    <3>1. \A i \in 1 .. n : r[i] = IF i = 1 THEN lists[i] ELSE r[i - 1] \o lists[i]
      BY <2>2, <2>3 DEF Joins
    <3>2. r = [i \in 1 .. n |-> r[i]]
      OBVIOUS
    <3> HIDE DEF r
    <3> QED
      BY <3>1, <3>2
  <2>5. IsLet(g)
    <3> HIDE DEF IsLet, r
    <3> QED
      BY <2>4
  <2>6. \A i \in 1 .. n : g[i] = IF i = 1 THEN lists[i] ELSE g[i - 1] \o lists[i]
    <3> DEFINE F(i) == IF i = 1 THEN lists[i] ELSE g[i - 1] \o lists[i]
    <3>1. g = [i \in 1 .. n |-> F(i)]
      BY <2>5
    <3> HIDE DEF F, g
    <3>2. \A i \in 1 .. n : g[i] = F(i)
      BY <3>1
    <3> QED
      BY <3>2 DEF F
  <2> HIDE DEF g, IsLet, r
  <2>7. \A i \in 0 .. n : i # 0 => g[i] = f[i]
    <3> DEFINE X == {i \in 0 .. n : i # 0 => g[i] = f[i]}
    <3>1. 0 \in X
      OBVIOUS
    <3>2. ASSUME NEW i \in 1 .. n, i - 1 \in X PROVE i \in X
      <4>1. i \in 0 .. n /\ i # 0
        OBVIOUS
      <4>2. g[i] = f[i]
        <5>1. CASE i = 1
          BY <2>2, <2>6, <5>1
        <5>2. CASE i # 1
          <6>1. i - 1 # 0 /\ i - 1 \in 0 .. n
            BY <5>2
          <6>2. g[i - 1] = f[i - 1]
            BY <3>2, <6>1
          <6>3. f[i] = f[i - 1] \o lists[i]
            BY DEF Joins
          <6>4. g[i] = g[i - 1] \o lists[i]
            BY <2>6, <5>2
          <6> QED
            BY <6>2, <6>3, <6>4
        <5> QED
          BY <5>1, <5>2
      <4> QED
        BY <4>1, <4>2
    <3> HIDE DEF X
    <3>3. \A i \in 0 .. n : i \in X
      BY <3>1, <3>2, Upward
    <3> QED
      BY <3>3 DEF X
  <2> QED
    BY <1>3, <2>1, <2>7
<1> QED
  BY <1>2, <1>3

LEMMA JoinsExists ==
    ASSUME NEW n \in Nat, NEW S, NEW lists \in [1 .. n -> Seq(S)]
    PROVE  \E f \in [0 .. n -> Seq(S)] : Joins(f, n, lists)
<1> DEFINE step == [i \in 1 .. n |-> [x \in Seq(S) |-> x \o lists[i]]]
<1>1. step \in [1 .. n -> [Seq(S) -> Seq(S)]]
  OBVIOUS
<1>2. \A i \in 1 .. n, x \in Seq(S) : step[i][x] = x \o lists[i]
  OBVIOUS
<1> HIDE DEF step
<1>3. PICK f \in [0 .. n -> Seq(S)] : IsLoop(f, n, <<>>, step)
  <2>1. <<>> \in Seq(S)
    OBVIOUS
  <2> QED
    BY <1>1, <2>1, LoopExists, Zenon
<1>4. \A i \in 1 .. n : i - 1 \in 0 .. n
  OBVIOUS
<1>5. Joins(f, n, lists)
  BY <1>2, <1>3, <1>4 DEF Joins, IsLoop
<1> QED
  BY <1>5

\* off counts the entries of the first lists.
Counts(off, n, lists) ==
    /\ off[0] = 0
    /\ \A i \in 1 .. n : off[i] = off[i - 1] + Len(lists[i])

LEMMA CountsUp ==
    ASSUME NEW n \in Nat, NEW S, NEW lists \in [1 .. n -> Seq(S)],
           NEW off \in [0 .. n -> Nat], Counts(off, n, lists)
    PROVE  \A i, j \in 0 .. n : i <= j => off[i] <= off[j]
<1> SUFFICES ASSUME NEW i \in 0 .. n PROVE \A j \in 0 .. n : i <= j => off[i] <= off[j]
  OBVIOUS
<1> DEFINE X == {j \in 0 .. n : i <= j => off[i] <= off[j]}
<1>1. 0 \in X
  OBVIOUS
<1>2. ASSUME NEW j \in 1 .. n, j - 1 \in X PROVE j \in X
  <2>1. j \in 0 .. n /\ j - 1 \in 0 .. n /\ (i <= j => i = j \/ i <= j - 1)
    OBVIOUS
  <2>2. off[j] = off[j - 1] + Len(lists[j]) /\ Len(lists[j]) \in Nat /\ off[j - 1] \in Nat
        /\ off[i] \in Nat /\ off[j] \in Nat
    BY <2>1, LenProperties DEF Counts
  <2>3. i <= j - 1 => off[i] <= off[j - 1]
    BY <1>2
  <2>4. i <= j => off[i] <= off[j]
    BY <2>1, <2>2, <2>3
  <2> QED
    BY <2>1, <2>4
<1> HIDE DEF X
<1>3. \A j \in 0 .. n : j \in X
  BY <1>1, <1>2, Upward
<1> QED
  BY <1>3 DEF X

\* A position among the entries is in one of the lists.
LEMMA CountsCover ==
    ASSUME NEW n \in Nat, NEW S, NEW lists \in [1 .. n -> Seq(S)],
           NEW off \in [0 .. n -> Nat], Counts(off, n, lists)
    PROVE  \A p \in 1 .. off[n] : \E i \in 1 .. n : p - off[i - 1] \in 1 .. Len(lists[i])
<1> SUFFICES ASSUME NEW p \in 1 .. off[n]
             PROVE  \E i \in 1 .. n : p - off[i - 1] \in 1 .. Len(lists[i])
  OBVIOUS
<1> DEFINE X == {i \in 0 .. n : p <= off[i]}
<1>1. n \in X /\ X \in SUBSET Nat
  OBVIOUS
<1>2. PICK i \in X : \A j \in X : i <= j
  <2> HIDE DEF X
  <2> QED
    BY <1>1, LeastNat
<1>3. i \in 1 .. n /\ i - 1 \in 0 .. n
  BY DEF Counts
<1>4. i - 1 \notin X
  BY <1>2, <1>3
<1>5. off[i] = off[i - 1] + Len(lists[i]) /\ off[i - 1] \in Nat /\ Len(lists[i]) \in Nat
  BY <1>3, LenProperties DEF Counts
<1>6. p \in Int /\ p <= off[i] /\ ~(p <= off[i - 1])
  BY <1>3, <1>4
<1>7. \A a, l, b \in Nat, q \in Int : q <= b /\ b = a + l /\ ~(q <= a) => q - a \in 1 .. l
  OBVIOUS
<1>8. off[i] \in Nat /\ p - off[i - 1] \in 1 .. Len(lists[i])
  <2>1. off[i] \in Nat
    BY <1>3
  <2> QED
    BY <1>5, <1>6, <1>7, <2>1
<1> QED
  BY <1>3, <1>8

\* The entries of all lists stand in the array all in their order.
Flat(all, off, n, S, lists) ==
    /\ Counts(off, n, lists)
    /\ all \in Seq(S) /\ Len(all) = off[n]
    /\ \A i \in 0 .. n : Len(FlattenSeq(SubSeq(lists, 1, i))) = off[i]
    /\ \A i \in 1 .. n : \A k \in 1 .. Len(lists[i]) : all[off[i - 1] + k] = lists[i][k]

LEMMA FlattenFacts ==
    ASSUME NEW n \in Nat, NEW S, NEW lists \in [1 .. n -> Seq(S)]
    PROVE  \E off \in [0 .. n -> Nat] : Flat(FlattenSeq(lists), off, n, S, lists)
<1>1. PICK f \in [0 .. n -> Seq(S)] : Joins(f, n, lists)
  BY JoinsExists
<1> DEFINE off == [i \in 0 .. n |-> Len(f[i])]
<1>2. off \in [0 .. n -> Nat] /\ \A i \in 0 .. n : off[i] = Len(f[i])
  BY LenProperties
<1>3. \A i \in 1 .. n : i - 1 \in 0 .. n /\ i \in 0 .. n
  OBVIOUS
<1>4. Counts(off, n, lists)
  <2>1. off[0] = 0
    BY <1>1 DEF Joins
  <2>2. ASSUME NEW i \in 1 .. n PROVE off[i] = off[i - 1] + Len(lists[i])
    <3>1. f[i] = f[i - 1] \o lists[i] /\ f[i - 1] \in Seq(S) /\ lists[i] \in Seq(S)
      BY <1>1, <1>3 DEF Joins
    <3>2. Len(f[i - 1] \o lists[i]) = Len(f[i - 1]) + Len(lists[i])
      BY <3>1, ConcatProperties
    <3> QED
      BY <1>2, <1>3, <3>1, <3>2
  <2> HIDE DEF off
  <2> QED
    BY <2>1, <2>2 DEF Counts
<1> HIDE DEF off
<1>5. ASSUME NEW m \in 0 .. n PROVE FlattenSeq(SubSeq(lists, 1, m)) = f[m]
  <2> DEFINE part == SubSeq(lists, 1, m)
             r == [i \in 0 .. m |-> f[i]]
  <2>1. lists \in Seq(Seq(S)) /\ Len(lists) = n
    BY ListOf
  <2>2. part \in [1 .. m -> Seq(S)] /\ \A i \in 1 .. m : part[i] = lists[i]
    <3>1. \A i \in 1 .. m : i \in 1 .. n /\ 1 + i - 1 = i
      OBVIOUS
    <3>2. \A i \in 1 .. m : lists[i] \in Seq(S)
      BY <3>1
    <3>3. 1 \in Int /\ m \in Int /\ m - 1 + 1 = m /\ m \in Nat /\ (IF 1 <= m THEN m - 1 + 1 ELSE 0) = m
      OBVIOUS
    <3>4. part \in Seq(Seq(S)) /\ Len(part) = m /\ \A i \in 1 .. m : part[i] = lists[1 + i - 1]
      BY <3>2, <3>3, SubSeqProperties
    <3>5. part \in [1 .. m -> Seq(S)]
      <4> HIDE DEF part
      <4> QED
        BY <3>4, LenProperties
    <3> HIDE DEF part
    <3> QED
      BY <3>1, <3>4, <3>5
  <2>3. r \in [0 .. m -> Seq(S)] /\ \A i \in 0 .. m : r[i] = f[i]
    OBVIOUS
  <2>4. Joins(r, m, part)
    <3>1. \A i \in 1 .. m : i \in 1 .. n /\ i \in 0 .. m /\ i - 1 \in 0 .. m
      OBVIOUS
    <3>2. 0 \in 0 .. m
      OBVIOUS
    <3> HIDE DEF r, part
    <3> QED
      BY <1>1, <2>2, <2>3, <3>1, <3>2 DEF Joins
  <2>5. m \in 0 .. m /\ m \in Nat
    OBVIOUS
  <2> HIDE DEF r, part
  <2>6. FlattenSeq(part) = r[m]
    BY <2>2, <2>3, <2>4, <2>5, FlattenIs
  <2> QED
    BY <2>3, <2>5, <2>6 DEF part
<1>6. FlattenSeq(lists) = f[n]
  BY <1>1, FlattenIs
<1>7. ASSUME NEW i \in 1 .. n, NEW k \in 1 .. Len(lists[i])
      PROVE  f[n][off[i - 1] + k] = lists[i][k]
  <2> DEFINE X == {m \in 0 .. n : m >= i => off[i - 1] + k \in 1 .. Len(f[m]) /\ f[m][off[i - 1] + k] = lists[i][k]}
  <2>1. 0 \in X
    OBVIOUS
  <2>2. ASSUME NEW m \in 1 .. n, m - 1 \in X PROVE m \in X
    <3>1. f[m] = f[m - 1] \o lists[m] /\ f[m - 1] \in Seq(S) /\ lists[m] \in Seq(S)
      BY <1>1, <1>3 DEF Joins
    <3>2. off[i - 1] = Len(f[i - 1]) /\ Len(f[i - 1]) \in Nat /\ Len(f[m - 1]) \in Nat
          /\ Len(lists[m]) \in Nat /\ k \in Nat
      BY <1>2, <1>3, LenProperties
    <3>6. /\ Len(f[m]) = Len(f[m - 1]) + Len(lists[m])
          /\ \A j \in 1 .. Len(f[m - 1]) + Len(lists[m]) :
               f[m][j] = IF j <= Len(f[m - 1]) THEN f[m - 1][j] ELSE lists[m][j - Len(f[m - 1])]
      BY <3>1, ConcatProperties
    <3> DEFINE q == off[i - 1] + k
    <3>3. CASE m = i
      <4>1. q \in 1 .. Len(f[m - 1]) + Len(lists[m]) /\ ~(q <= Len(f[m - 1])) /\ q - Len(f[m - 1]) = k
        BY <3>2, <3>3
      <4> HIDE DEF q
      <4>2. q \in 1 .. Len(f[m]) /\ f[m][q] = lists[i][k]
        BY <3>3, <3>6, <4>1
      <4> QED
        BY <4>2 DEF q
    <3>4. CASE m > i
      <4>1. q \in 1 .. Len(f[m - 1]) /\ f[m - 1][q] = lists[i][k]
        BY <2>2, <3>4
      <4> HIDE DEF q
      <4>2. q \in 1 .. Len(f[m - 1]) + Len(lists[m]) /\ q <= Len(f[m - 1])
        BY <3>2, <4>1
      <4>3. q \in 1 .. Len(f[m]) /\ f[m][q] = lists[i][k]
        BY <3>6, <4>1, <4>2
      <4> QED
        BY <4>3 DEF q
    <3>5. CASE m < i
      BY <3>5
    <3> QED
      BY <3>3, <3>4, <3>5
  <2> HIDE DEF X
  <2>3. \A m \in 0 .. n : m \in X
    BY <2>1, <2>2, Upward
  <2> QED
    BY <2>3 DEF X
<1>8. f[n] \in Seq(S) /\ n \in 0 .. n
  OBVIOUS
<1>9. Flat(FlattenSeq(lists), off, n, S, lists)
  BY <1>2, <1>4, <1>5, <1>6, <1>7, <1>8 DEF Flat
<1> QED
  BY <1>2, <1>9

\* Between two offsets, or from an offset for a count, stands one list.
LEMMA SliceFacts ==
    ASSUME NEW n \in Nat, NEW S, NEW lists \in [1 .. n -> Seq(S)], NEW i \in 1 .. n
    PROVE  /\ Between(FlattenSeq(lists), OffsetsOf(lists), i) = lists[i]
           /\ slice(FlattenSeq(lists), Ranges(lists)[i]) = lists[i]
<1> DEFINE all == FlattenSeq(lists)
<1>0. PICK off \in [0 .. n -> Nat] : Flat(all, off, n, S, lists)
  BY FlattenFacts
<1>1. /\ Counts(off, n, lists)
      /\ all \in Seq(S) /\ Len(all) = off[n]
      /\ \A j \in 0 .. n : Len(FlattenSeq(SubSeq(lists, 1, j))) = off[j]
      /\ \A j \in 1 .. n : \A k \in 1 .. Len(lists[j]) : all[off[j - 1] + k] = lists[j][k]
  BY <1>0 DEF Flat
<1>2. Len(lists) = n /\ DOMAIN lists = 1 .. n
  BY ListOf
<1>3. i - 1 \in 0 .. n /\ i \in 0 .. n /\ n \in 0 .. n /\ i <= n
  OBVIOUS
<1>4. lists[i] \in Seq(S) /\ Len(lists[i]) \in Nat
  BY LenProperties
<1> DEFINE a == off[i - 1]
           l == Len(lists[i])
<1>5. a \in Nat /\ l \in Nat /\ off[i] = a + l /\ off[i] <= off[n] /\ off[n] \in Nat
  <2>1. \A j, k \in 0 .. n : j <= k => off[j] <= off[k]
    BY <1>1, CountsUp
  <2>2. off[i] = off[i - 1] + Len(lists[i])
    BY <1>1 DEF Counts
  <2> QED
    BY <1>1, <1>3, <1>4, <2>1, <2>2
<1>6. \A k \in 1 .. l : all[a + k] = lists[i][k]
  BY <1>1
<1>7. OffsetsOf(lists)[i] = a /\ OffsetsOf(lists)[i + 1] = a + l
  <2>1. i \in 1 .. Len(lists) + 1 /\ i + 1 \in 1 .. Len(lists) + 1 /\ i + 1 - 1 = i
    BY <1>2
  <2>2. /\ OffsetsOf(lists)[i] = Len(FlattenSeq(SubSeq(lists, 1, i - 1)))
        /\ OffsetsOf(lists)[i + 1] = Len(FlattenSeq(SubSeq(lists, 1, i + 1 - 1)))
    BY <2>1 DEF OffsetsOf
  <2> QED
    BY <1>1, <1>3, <1>5, <2>1, <2>2
<1>8. Ranges(lists)[i].offset = a /\ Ranges(lists)[i].count = l
  BY <1>1, <1>2, <1>3 DEF Ranges
<1>9. SubSeq(all, a + 1, a + l) = lists[i]
  <2>1. a + 1 \in Int /\ a + l \in Int
    BY <1>5
  <2>2. \A j \in a + 1 .. a + l : j \in 1 .. Len(all)
    BY <1>1, <1>5
  <2>3. \A j \in a + 1 .. a + l : all[j] \in S
    BY <1>1, <2>2, ElementOfSeq
  <2> DEFINE lo == a + 1
             hi == a + l
             part == SubSeq(all, lo, hi)
  <2>9. lo \in Int /\ hi \in Int /\ \A j \in lo .. hi : all[j] \in S
    BY <2>1, <2>3
  <2> HIDE DEF a, l, all, lo, hi
  <2>4. /\ part \in Seq(S) /\ Len(part) = IF lo <= hi THEN hi - lo + 1 ELSE 0
        /\ \A j \in 1 .. hi - lo + 1 : part[j] = all[lo + j - 1]
    BY <2>9, SubSeqProperties
  <2> HIDE DEF part, a, l, all
  <2>5. Len(part) = l /\ \A j \in 1 .. l : j \in 1 .. hi - lo + 1 /\ lo + j - 1 = a + j
    BY <1>5, <2>4 DEF lo, hi
  <2>6. \A j \in 1 .. Len(part) : part[j] = lists[i][j]
    BY <1>6, <2>4, <2>5
  <2>7. Len(part) = Len(lists[i])
    BY <2>5 DEF l
  <2>8. part = lists[i]
    BY <1>4, <2>4, <2>6, <2>7, SeqEqual
  <2> QED
    BY <2>8 DEF part, lo, hi
<1> HIDE DEF a, l, all
<1>10. Between(all, OffsetsOf(lists), i) = lists[i]
  BY <1>7, <1>9 DEF Between
<1>11. slice(all, Ranges(lists)[i]) = lists[i]
  BY <1>8, <1>9 DEF slice
<1> QED
  BY <1>10, <1>11 DEF all

\* Lists of whatever entries are lists over the set of all their entries.
LEMMA OverAll ==
    ASSUME NEW n \in Nat, NEW lists, lists = [i \in 1 .. n |-> lists[i]],
           \A i \in 1 .. n : lists[i] \in Seq(Range(lists[i]))
    PROVE  lists \in [1 .. n -> Seq(UNION {Range(lists[i]) : i \in 1 .. n})]
<1> DEFINE S == UNION {Range(lists[i]) : i \in 1 .. n}
<1>1. ASSUME NEW i \in 1 .. n PROVE lists[i] \in Seq(S)
  <2>1. Range(lists[i]) \subseteq S
    OBVIOUS
  <2> HIDE DEF S
  <2> QED
    BY <2>1, SeqMonotonic
<1> HIDE DEF S
<1>2. lists \in [1 .. n -> Seq(S)]
  BY <1>1
<1> QED
  BY <1>2 DEF S

LEMMA SliceOf ==
    ASSUME NEW n \in Nat, NEW lists, lists = [i \in 1 .. n |-> lists[i]],
           \A i \in 1 .. n : lists[i] \in Seq(Range(lists[i])), NEW i \in 1 .. n
    PROVE  /\ Between(FlattenSeq(lists), OffsetsOf(lists), i) = lists[i]
           /\ slice(FlattenSeq(lists), Ranges(lists)[i]) = lists[i]
BY OverAll, SliceFacts

\* A function on the first numbers is a sequence of its values.
LEMMA SequenceOf ==
    ASSUME NEW n \in Nat, NEW f, f = [k \in 1 .. n |-> f[k]]
    PROVE  f \in Seq(Range(f)) /\ Len(f) = n /\ DOMAIN f = 1 .. n
<1>1. \A k \in 1 .. n : f[k] \in Range(f)
  BY DEF Range
<1>2. f \in [1 .. n -> Range(f)]
  BY <1>1
<1> QED
  BY <1>2, ListOf

\* The elements of a set of numbers in their order.
InOrder(I) ==
    [k \in 1 .. Cardinality(I) |-> CHOOSE i \in I : Cardinality({j \in I : j <= i}) = k]

LEMMA InOrderFacts ==
    ASSUME NEW I \in SUBSET Int, IsFiniteSet(I)
    PROVE  /\ Cardinality(I) \in Nat
           /\ InOrder(I) \in [1 .. Cardinality(I) -> I]
           /\ \A j, k \in 1 .. Cardinality(I) : InOrder(I)[j] = InOrder(I)[k] => j = k
           /\ \A i \in I : \E k \in 1 .. Cardinality(I) : InOrder(I)[k] = i
<1> DEFINE n == Cardinality(I)
           upTo(i) == {j \in I : j <= i}
           r == [i \in I |-> Cardinality(upTo(i))]
           e == InOrder(I)
<1>1. n \in Nat
  BY FS_CardinalityType
<1>2. ASSUME NEW i \in I
      PROVE  IsFiniteSet(upTo(i)) /\ Cardinality(upTo(i)) \in 1 .. n
  <2>1. upTo(i) \in SUBSET I /\ i \in upTo(i)
    OBVIOUS
  <2>2. IsFiniteSet(upTo(i)) /\ Cardinality(upTo(i)) <= n
    BY <2>1, FS_Subset
  <2>3. Cardinality(upTo(i)) \in Nat /\ Cardinality(upTo(i)) # 0
    BY <2>1, <2>2, FS_EmptySet, FS_CardinalityType
  <2> HIDE DEF n, upTo
  <2> QED
    BY <1>1, <2>2, <2>3
<1>3. ASSUME NEW i \in I, NEW j \in I, i < j
      PROVE  Cardinality(upTo(i)) # Cardinality(upTo(j))
  <2>1. \A x \in I : x <= i => x <= j
    BY <1>3
  <2>2. j <= j /\ ~(j <= i)
    BY <1>3
  <2>3. upTo(i) \in SUBSET upTo(j) /\ j \in upTo(j) /\ j \notin upTo(i)
    BY <2>1, <2>2
  <2> QED
    BY <1>2, <2>3, FS_Subset
<1>4. \A i, j \in I : Cardinality(upTo(i)) = Cardinality(upTo(j)) => i = j
  <2>1. \A i, j \in I : i # j => i < j \/ j < i
    OBVIOUS
  <2> HIDE DEF upTo
  <2> QED
    BY <1>3, <2>1
<1>5. r \in Surjection(I, 1 .. n)
  <2>1. r \in Injection(I, 1 .. n)
    <3>1. r \in [I -> 1 .. n] /\ \A i, j \in I : r[i] = r[j] => i = j
      <4> HIDE DEF upTo, n
      <4> QED
        BY <1>2, <1>4
    <3> HIDE DEF r
    <3> QED
      BY <3>1, Fun_IsInj
  <2>2. IsFiniteSet(1 .. n) /\ Cardinality(1 .. n) = n
    <3>1. 1 \in Int /\ n \in Int /\ (IF 1 > n THEN 0 ELSE n - 1 + 1) = n
      BY <1>1
    <3> QED
      BY <3>1, FS_Interval
  <2> HIDE DEF r, n
  <2> QED
    BY <2>1, <2>2, FS_Injection DEF n
<1>6. \A k \in 1 .. n : \E i \in I : Cardinality(upTo(i)) = k
  <2>1. \A k \in 1 .. n : \E i \in I : r[i] = k
    BY <1>5 DEF Surjection
  <2> HIDE DEF upTo, n
  <2> QED
    BY <2>1
<1>7. \A k \in 1 .. n : e[k] \in I /\ Cardinality(upTo(e[k])) = k
  <2>1. e = [k \in 1 .. n |-> CHOOSE i \in I : Cardinality(upTo(i)) = k]
    BY DEF InOrder
  <2> HIDE DEF upTo, n, e
  <2> QED
    BY <1>6, <2>1
<1>8. e \in [1 .. n -> I]
  <2>1. e = [k \in 1 .. n |-> e[k]]
    <3>1. e = [k \in 1 .. n |-> CHOOSE i \in I : Cardinality(upTo(i)) = k]
      BY DEF InOrder
    <3> HIDE DEF upTo, n, e
    <3> QED
      BY <3>1
  <2> HIDE DEF n, e
  <2> QED
    BY <1>7, <2>1
<1> HIDE DEF upTo, n, e
<1>9. \A j, k \in 1 .. n : e[j] = e[k] => j = k
  BY <1>7
<1>10. \A i \in I : \E k \in 1 .. n : e[k] = i
  BY <1>2, <1>4, <1>7
<1> QED
  BY <1>1, <1>8, <1>9, <1>10 DEF n, e

-----------------------------------------------------------------------------
(* The architectures in the order of the tables *)

LEMMA EntriesFacts ==
    ASSUME NEW doc, ArchitectureDocument(doc), IsMappingSequence(doc.architectures), NEW x
    PROVE  LET s == EntriesOf(doc, x)
               archs == doc.architectures
           IN /\ Len(s) \in Nat /\ DOMAIN s = 1 .. Len(s) /\ s \in Seq(Range(s))
              /\ \A k \in 1 .. Len(s) : \E i \in DOMAIN archs : s[k] = archs[i] /\ archs[i].execution = x
              /\ \A i \in DOMAIN archs : archs[i].execution = x => \E k \in 1 .. Len(s) : s[k] = archs[i]
<1> DEFINE archs == doc.architectures
           at == {i \in DOMAIN archs : archs[i].execution = x}
           n == Cardinality(at)
           s == EntriesOf(doc, x)
<1>1. Len(archs) \in Nat /\ DOMAIN archs = 1 .. Len(archs)
  BY NodeIsSequence DEF ArchitectureDocument, IsMappingSequence
<1>2. at \in SUBSET Int /\ IsFiniteSet(at)
  <2>1. 1 \in Int /\ Len(archs) \in Int /\ at \in SUBSET (1 .. Len(archs))
    BY <1>1
  <2>2. IsFiniteSet(1 .. Len(archs))
    BY <2>1, FS_Interval
  <2>3. 1 .. Len(archs) \in SUBSET Int
    OBVIOUS
  <2> HIDE DEF at, archs
  <2>4. IsFiniteSet(at)
    BY <2>1, <2>2, FS_Subset
  <2> QED
    BY <2>1, <2>3, <2>4
<1>3. /\ n \in Nat /\ InOrder(at) \in [1 .. n -> at]
      /\ \A i \in at : \E k \in 1 .. n : InOrder(at)[k] = i
  <2> HIDE DEF at
  <2> QED
    BY <1>2, InOrderFacts
<1>4. s = [k \in 1 .. n |-> archs[InOrder(at)[k]]]
  <2> DEFINE c(k) == CHOOSE i \in at : Cardinality({j \in at : j <= i}) = k
  <2>1. s = [k \in 1 .. n |-> archs[c(k)]]
    BY Zenon DEF EntriesOf
  <2>2. \A k \in 1 .. n : InOrder(at)[k] = c(k)
    BY DEF InOrder
  <2> HIDE DEF at, n, s, archs, c
  <2> QED
    BY <2>1, <2>2
<1> HIDE DEF n, s
<1>5. s = [k \in 1 .. n |-> s[k]] /\ \A k \in 1 .. n : s[k] = archs[InOrder(at)[k]]
  <2> HIDE DEF at, archs
  <2> QED
    BY <1>4
<1>6. s \in Seq(Range(s)) /\ Len(s) = n /\ DOMAIN s = 1 .. n
  BY <1>3, <1>5, SequenceOf
<1>7. \A k \in 1 .. n : InOrder(at)[k] \in DOMAIN archs /\ archs[InOrder(at)[k]].execution = x
  BY <1>3
<1>8. \A i \in DOMAIN archs : archs[i].execution = x => i \in at
  OBVIOUS
<1> HIDE DEF at, archs
<1>9. /\ Len(s) \in Nat /\ DOMAIN s = 1 .. Len(s) /\ s \in Seq(Range(s))
      /\ \A k \in 1 .. Len(s) : \E i \in DOMAIN archs : s[k] = archs[i] /\ archs[i].execution = x
      /\ \A i \in DOMAIN archs : archs[i].execution = x => \E k \in 1 .. Len(s) : s[k] = archs[i]
  BY <1>3, <1>5, <1>6, <1>7, <1>8
<1> QED
  BY <1>9 DEF s, archs

\* The k-th architecture of the execution e, the generic one first.
ArchitectureAt(doc, execs, e, k) ==
    LET entries == EntriesOf(doc, execs.executions[e].id) IN
    IF k = 0
    THEN [id |-> GenericId(execs.executions[e].id), execution |-> e - 1, local |-> 0,
          parent |-> Missing, detect |-> Missing]
    ELSE [id |-> entries[k].id, execution |-> e - 1, local |-> k,
          parent |-> MetadataOf(entries[k], "parent"),
          detect |-> MetadataOf(entries[k], "detect")]

\* How many architectures of its own an execution has.
Own(doc, execs, e) == Len(EntriesOf(doc, execs.executions[e].id))

\* The architectures of execution e follow position off[e - 1].
Placed(off, doc, execs) ==
    LET n == Len(execs.executions)
        all == Resolved(doc, execs)
    IN /\ off[0] = 0
       /\ \A e \in 1 .. n : off[e] = off[e - 1] + Own(doc, execs, e) + 1 /\ Own(doc, execs, e) \in Nat
       /\ \A e, f \in 0 .. n : e <= f => off[e] <= off[f]
       /\ Len(all) = off[n] /\ DOMAIN all = 1 .. off[n]
       /\ \A e \in 1 .. n : \A k \in 0 .. Own(doc, execs, e) :
            /\ off[e - 1] + k + 1 \in 1 .. off[n]
            /\ all[off[e - 1] + k + 1] = ArchitectureAt(doc, execs, e, k)
       /\ \A p \in 1 .. off[n] : \E e \in 1 .. n : \E k \in 0 .. Own(doc, execs, e) :
            p = off[e - 1] + k + 1

LEMMA ResolvedFacts ==
    ASSUME NEW doc, NEW execs, ArchitectureDocument(doc), IsMappingSequence(doc.architectures),
           ExecutionDocument(execs), IsMappingSequence(execs.executions)
    PROVE  /\ Len(execs.executions) \in Nat
           /\ DOMAIN execs.executions = 1 .. Len(execs.executions)
           /\ \E off \in [0 .. Len(execs.executions) -> Nat] : Placed(off, doc, execs)
<1> DEFINE n == Len(execs.executions)
           name(e) == execs.executions[e].id
           generic(e) == [id |-> GenericId(name(e)), execution |-> e - 1, local |-> 0,
                          parent |-> Missing, detect |-> Missing]
           own(e) == LET entries == EntriesOf(doc, name(e)) IN
                     [k \in DOMAIN entries |->
                        [id |-> entries[k].id, execution |-> e - 1, local |-> k,
                         parent |-> MetadataOf(entries[k], "parent"),
                         detect |-> MetadataOf(entries[k], "detect")]]
           lists == [e \in 1 .. n |-> <<generic(e)>> \o own(e)]
           all == Resolved(doc, execs)
<1>1. n \in Nat /\ DOMAIN execs.executions = 1 .. n
  BY NodeIsSequence DEF ExecutionDocument, IsMappingSequence
<1>2. all = FlattenSeq(lists)
  BY <1>1, Zenon DEF Resolved
<1>3. ASSUME NEW e \in 1 .. n
      PROVE  /\ lists[e] \in Seq(Range(lists[e]))
             /\ Len(lists[e]) = Own(doc, execs, e) + 1 /\ Own(doc, execs, e) \in Nat
             /\ \A k \in 0 .. Own(doc, execs, e) : lists[e][k + 1] = ArchitectureAt(doc, execs, e, k)
  <2> DEFINE entries == EntriesOf(doc, name(e))
             m == Len(entries)
             g == generic(e)
             o == own(e)
             S == {g} \cup Range(o)
  <2>1. m \in Nat /\ DOMAIN entries = 1 .. m
    BY EntriesFacts
  <2>2. o = [k \in 1 .. m |-> o[k]] /\ \A k \in 1 .. m : k # 0 /\ o[k] = ArchitectureAt(doc, execs, e, k)
    <3> DEFINE F(k) == [id |-> entries[k].id, execution |-> e - 1, local |-> k,
                        parent |-> MetadataOf(entries[k], "parent"),
                        detect |-> MetadataOf(entries[k], "detect")]
    <3>1. o = [k \in 1 .. m |-> F(k)]
      BY <2>1
    <3>2. \A k \in 1 .. m : k # 0 /\ F(k) = ArchitectureAt(doc, execs, e, k)
      BY <2>1 DEF ArchitectureAt
    <3> HIDE DEF o, F, m
    <3> QED
      BY <3>1, <3>2
  <2>3. g = ArchitectureAt(doc, execs, e, 0)
    BY DEF ArchitectureAt
  <2>4. lists[e] = <<g>> \o o
    OBVIOUS
  <2> HIDE DEF entries, m, g, o, lists, name
  <2>5. o \in Seq(Range(o)) /\ Len(o) = m
    BY <2>1, <2>2, SequenceOf
  <2>6. o \in Seq(S) /\ <<g>> \in Seq(S)
    <3>1. Range(o) \subseteq S /\ g \in S
      OBVIOUS
    <3> HIDE DEF S
    <3> QED
      BY <2>5, <3>1, SeqMonotonic
  <2>7. Len(<<g>>) = 1 /\ <<g>>[1] = g
    OBVIOUS
  <2> HIDE DEF S
  <2>8. /\ lists[e] \in Seq(S) /\ Len(lists[e]) = 1 + m
        /\ \A i \in 1 .. 1 + m : lists[e][i] = IF i <= 1 THEN <<g>>[i] ELSE o[i - 1]
    BY <2>4, <2>5, <2>6, <2>7, ConcatProperties
  <2>9. \A k \in 0 .. m : lists[e][k + 1] = IF k = 0 THEN g ELSE o[k]
    <3> SUFFICES ASSUME NEW k \in 0 .. m PROVE lists[e][k + 1] = IF k = 0 THEN g ELSE o[k]
      OBVIOUS
    <3>1. k + 1 \in 1 .. 1 + m /\ k + 1 - 1 = k /\ (k + 1 <= 1 <=> k = 0)
      BY <2>1
    <3> QED
      BY <2>7, <2>8, <3>1
  <2>10. \A k \in 0 .. m : k # 0 => k \in 1 .. m
    BY <2>1
  <2>11. m = Own(doc, execs, e)
    BY DEF Own, m, entries, name
  <2>12. lists[e] \in Seq(Range(lists[e]))
    <3>1. lists[e] \in [1 .. Len(lists[e]) -> S] /\ Len(lists[e]) \in Nat
      BY <2>8, LenProperties
    <3>2. lists[e] = [i \in 1 .. Len(lists[e]) |-> lists[e][i]]
      BY <3>1
    <3> QED
      BY <3>1, <3>2, SequenceOf
  <2>13. Len(lists[e]) = m + 1
    BY <2>1, <2>8
  <2>14. \A k \in 0 .. m : lists[e][k + 1] = ArchitectureAt(doc, execs, e, k)
    BY <2>2, <2>3, <2>9, <2>10
  <2> QED
    BY <2>1, <2>11, <2>12, <2>13, <2>14
<1> DEFINE S == UNION {Range(lists[i]) : i \in 1 .. n}
<1>4. lists = [e \in 1 .. n |-> lists[e]]
  OBVIOUS
<1> HIDE DEF lists, all, name, generic, own, n
<1>5. lists \in [1 .. n -> Seq(S)]
  BY <1>1, <1>3, <1>4, OverAll
<1> HIDE DEF S
<1>6. PICK off \in [0 .. n -> Nat] : Flat(all, off, n, S, lists)
  BY <1>1, <1>2, <1>5, FlattenFacts
<1>14. \A e \in 1 .. n : Own(doc, execs, e) \in Nat /\ Len(lists[e]) = Own(doc, execs, e) + 1
  BY <1>3, Zenon
<1>7. \A e \in 1 .. n : e \in 0 .. n /\ e - 1 \in 0 .. n /\ e <= n
  BY <1>1
<1>8. off[0] = 0 /\ \A e \in 1 .. n : off[e] = off[e - 1] + Own(doc, execs, e) + 1
  <2>1. ASSUME NEW e \in 1 .. n PROVE off[e] = off[e - 1] + Own(doc, execs, e) + 1
    <3>2. \A a, b, c, l \in Nat : b = a + l /\ l = c + 1 => b = a + c + 1
      OBVIOUS
    <3>1. off[e] = off[e - 1] + Len(lists[e]) /\ off[e - 1] \in Nat /\ off[e] \in Nat
      BY <1>6, <1>7 DEF Flat, Counts
    <3>3. Own(doc, execs, e) \in Nat /\ Len(lists[e]) = Own(doc, execs, e) + 1
      BY <1>14
    <3> DEFINE a == off[e - 1]
               b == off[e]
               c == Own(doc, execs, e)
               l == Len(lists[e])
    <3>4. a \in Nat /\ b \in Nat /\ c \in Nat /\ l \in Nat /\ b = a + l /\ l = c + 1
      BY <3>1, <3>3
    <3> HIDE DEF a, b, c, l
    <3>5. b = a + c + 1
      BY <3>2, <3>4
    <3> QED
      BY <3>5 DEF a, b, c
  <2> QED
    BY <1>6, <2>1 DEF Flat, Counts
<1>9. \A e, f \in 0 .. n : e <= f => off[e] <= off[f]
  BY <1>1, <1>5, <1>6, CountsUp DEF Flat
<1>10. Len(all) = off[n] /\ DOMAIN all = 1 .. off[n]
  BY <1>6, LenProperties DEF Flat
<1>11. ASSUME NEW e \in 1 .. n, NEW k \in 0 .. Own(doc, execs, e)
       PROVE  off[e - 1] + k + 1 \in 1 .. off[n] /\ all[off[e - 1] + k + 1] = ArchitectureAt(doc, execs, e, k)
  <2>1. Own(doc, execs, e) \in Nat /\ off[e - 1] \in Nat /\ off[e] \in Nat /\ off[n] \in Nat
    BY <1>1, <1>7, <1>14
  <2>2. off[e] <= off[n] /\ off[e] = off[e - 1] + Own(doc, execs, e) + 1
    BY <1>1, <1>7, <1>8, <1>9
  <2>3. k + 1 \in 1 .. Len(lists[e]) /\ off[e - 1] + (k + 1) = off[e - 1] + k + 1
    BY <1>14, <2>1
  <2>4. all[off[e - 1] + (k + 1)] = lists[e][k + 1]
    BY <1>6, <2>3 DEF Flat
  <2>5. lists[e][k + 1] = ArchitectureAt(doc, execs, e, k)
    BY <1>3
  <2>6. off[e - 1] + k + 1 \in 1 .. off[n]
    <3> DEFINE a == off[e - 1]
               b == off[e]
               c == Own(doc, execs, e)
               d == off[n]
    <3>1. a \in Nat /\ b \in Nat /\ c \in Nat /\ d \in Nat /\ k \in 0 .. c /\ b <= d /\ b = a + c + 1
      BY <2>1, <2>2
    <3> HIDE DEF a, b, c, d
    <3>2. a + k + 1 \in 1 .. d
      BY <3>1
    <3> QED
      BY <3>2 DEF a, d
  <2> QED
    BY <2>3, <2>4, <2>5, <2>6
<1>12. ASSUME NEW p \in 1 .. off[n]
       PROVE  \E e \in 1 .. n : \E k \in 0 .. Own(doc, execs, e) : p = off[e - 1] + k + 1
  <2>1. PICK e \in 1 .. n : p - off[e - 1] \in 1 .. Len(lists[e])
    BY <1>1, <1>5, <1>6, CountsCover DEF Flat
  <2>2. off[e - 1] \in Nat /\ Own(doc, execs, e) \in Nat /\ off[n] \in Nat
    BY <1>1, <1>7, <1>14
  <2> DEFINE k == p - off[e - 1] - 1
  <2>3. k \in 0 .. Own(doc, execs, e) /\ p = off[e - 1] + k + 1
    <3> DEFINE a == off[e - 1]
               c == Own(doc, execs, e)
               l == Len(lists[e])
    <3>1. a \in Nat /\ c \in Nat /\ p \in Nat /\ l = c + 1 /\ p - a \in 1 .. l
      BY <1>14, <2>1, <2>2
    <3> HIDE DEF a, c, l
    <3>2. p - a - 1 \in 0 .. c /\ p = a + (p - a - 1) + 1
      BY <3>1
    <3> QED
      BY <3>2 DEF a, c
  <2> QED
    BY <2>3
<1>13. Placed(off, doc, execs)
  BY <1>3, <1>8, <1>9, <1>10, <1>11, <1>12 DEF Placed, n, all
<1> QED
  BY <1>1, <1>13 DEF n

-----------------------------------------------------------------------------
(* Devices *)

\* What the tables of architectures hold in the place of the k-th
\* architecture of the execution e.
LEMMA TableAt ==
    ASSUME NEW doc, NEW execs, NEW off, Placed(off, doc, execs),
           Len(execs.executions) \in Nat, DOMAIN execs.executions = 1 .. Len(execs.executions),
           off \in [0 .. Len(execs.executions) -> Nat],
           NEW e \in 1 .. Len(execs.executions), NEW k \in 0 .. Own(doc, execs, e)
    PROVE  LET t == ArchitectureTables(doc, execs)
               a == off[e - 1] + k
           IN /\ a \in 0 .. t.count - 1 /\ t.count = off[Len(execs.executions)] /\ a \in Nat
              /\ t.id[a + 1] = ArchitectureAt(doc, execs, e, k).id
              /\ t.execution[a + 1] = e - 1
              /\ t.local[a + 1] = k
              /\ t.offsets[e] = off[e - 1]
              /\ fromExecutionAndLocalIndex(t, e - 1, k) = a
<1> DEFINE n == Len(execs.executions)
           all == Resolved(doc, execs)
           t == ArchitectureTables(doc, execs)
           a == off[e - 1] + k
<1>1. /\ Len(all) = off[n] /\ DOMAIN all = 1 .. off[n] /\ off[n] \in Nat
      /\ a + 1 \in 1 .. off[n] /\ all[a + 1] = ArchitectureAt(doc, execs, e, k)
      /\ off[e - 1] \in Nat /\ Own(doc, execs, e) \in Nat /\ k \in Nat
  <2>1. n \in 0 .. n /\ e - 1 \in 0 .. n
    OBVIOUS
  <2>2. Own(doc, execs, e) \in Nat
    BY DEF Placed
  <2>3. Len(all) = off[n] /\ DOMAIN all = 1 .. off[n]
    BY DEF Placed
  <2>4. off[n] \in Nat /\ off[e - 1] \in Nat
    BY <2>1
  <2>5. off[e - 1] + k + 1 \in 1 .. off[n] /\ all[off[e - 1] + k + 1] = ArchitectureAt(doc, execs, e, k)
    BY DEF Placed
  <2>6. k \in Nat /\ a + 1 = off[e - 1] + k + 1
    BY <2>2, <2>4
  <2> QED
    BY <2>2, <2>3, <2>4, <2>5, <2>6
<1>2. t.count = off[n] /\ a \in 0 .. t.count - 1 /\ a \in Nat
  BY <1>1 DEF ArchitectureTables
<1>3. t.id[a + 1] = all[a + 1].id /\ t.execution[a + 1] = all[a + 1].execution
      /\ t.local[a + 1] = all[a + 1].local
  <2> HIDE DEF a
  <2> QED
    BY <1>1, Zenon DEF ArchitectureTables
<1>4. /\ ArchitectureAt(doc, execs, e, k).execution = e - 1
      /\ ArchitectureAt(doc, execs, e, k).local = k
  BY DEF ArchitectureAt
<1>5. t.offsets[e] = off[e - 1]
  <2> DEFINE I == {i \in DOMAIN all : all[i].execution < e - 1}
  <2>1. t.offsets[e] = Cardinality(I)
    <3>1. e \in 1 .. n + 1
      OBVIOUS
    <3> QED
      BY <3>1, Zenon DEF ArchitectureTables, ExecutionOffsets
  <2>2. ASSUME NEW p \in 1 .. off[n] PROVE p \in I <=> p <= off[e - 1]
    <3>1. PICK f \in 1 .. n : \E j \in 0 .. Own(doc, execs, f) : p = off[f - 1] + j + 1
      BY DEF Placed
    <3>2. PICK j \in 0 .. Own(doc, execs, f) : p = off[f - 1] + j + 1
      BY <3>1
    <3>3. all[p].execution = f - 1
      <4>1. all[p] = ArchitectureAt(doc, execs, f, j)
        BY <3>2 DEF Placed
      <4> QED
        BY <4>1 DEF ArchitectureAt
    <3>4. /\ off[f] = off[f - 1] + Own(doc, execs, f) + 1 /\ Own(doc, execs, f) \in Nat
          /\ off[f - 1] \in Nat /\ off[f] \in Nat /\ f \in 0 .. n /\ f - 1 \in 0 .. n
          /\ e - 1 \in 0 .. n
      <4>1. f \in 0 .. n /\ f - 1 \in 0 .. n /\ e - 1 \in 0 .. n
        OBVIOUS
      <4> QED
        BY <4>1 DEF Placed
    <3>5. f <= e - 1 => off[f] <= off[e - 1]
      BY <3>4 DEF Placed
    <3>6. e - 1 <= f - 1 => off[e - 1] <= off[f - 1]
      BY <3>4 DEF Placed
    <3>7. j \in Nat /\ j <= Own(doc, execs, f)
      BY <3>2, <3>4
    <3>8. p <= off[f] /\ off[f - 1] < p
      BY <3>2, <3>4, <3>7
    <3>9. (f - 1 < e - 1 <=> f <= e - 1) /\ (f <= e - 1 \/ e - 1 <= f - 1)
      OBVIOUS
    <3>10. f - 1 < e - 1 <=> p <= off[e - 1]
      <4>1. off[e - 1] \in Nat /\ p \in Nat
        BY <1>1
      <4> QED
        BY <3>4, <3>5, <3>6, <3>8, <3>9, <4>1
    <3> QED
      BY <1>1, <3>3, <3>10
  <2>3. off[e - 1] <= off[n]
    <3>1. n \in 0 .. n /\ e - 1 \in 0 .. n /\ e - 1 <= n
      OBVIOUS
    <3> QED
      BY <3>1 DEF Placed
  <2>4. I \subseteq 1 .. off[n]
    BY <1>1
  <2> HIDE DEF I, all, n, t
  <2>5. I = 1 .. off[e - 1]
    <3> DEFINE m == off[e - 1]
               u == off[n]
    <3>1. m \in Nat /\ u \in Nat /\ m <= u
      BY <1>1, <2>3
    <3>2. I \subseteq 1 .. u /\ \A p \in 1 .. u : p \in I <=> p <= m
      BY <2>2, <2>4
    <3> HIDE DEF m, u
    <3>3. \A p \in 1 .. u : p \in 1 .. m <=> p <= m
      BY <3>1
    <3>4. 1 .. m \subseteq 1 .. u
      BY <3>1
    <3>5. I = 1 .. m
      BY <3>2, <3>3, <3>4
    <3> QED
      BY <3>5 DEF m
  <2>6. Cardinality(1 .. off[e - 1]) = off[e - 1]
    <3>1. 1 \in Int /\ off[e - 1] \in Int /\ (IF 1 > off[e - 1] THEN 0 ELSE off[e - 1] - 1 + 1) = off[e - 1]
      BY <1>1
    <3> QED
      BY <3>1, FS_Interval
  <2> QED
    BY <2>1, <2>5, <2>6
<1>6. fromExecutionAndLocalIndex(t, e - 1, k) = a
  <2>1. e - 1 + 1 = e
    OBVIOUS
  <2> HIDE DEF t
  <2> QED
    BY <1>5, <2>1 DEF fromExecutionAndLocalIndex
<1> HIDE DEF a, t, all, n
<1>7. /\ a \in 0 .. t.count - 1 /\ t.count = off[n] /\ a \in Nat
      /\ t.id[a + 1] = ArchitectureAt(doc, execs, e, k).id
      /\ t.execution[a + 1] = e - 1
      /\ t.local[a + 1] = k
      /\ t.offsets[e] = off[e - 1]
      /\ fromExecutionAndLocalIndex(t, e - 1, k) = a
  BY <1>1, <1>2, <1>3, <1>4, <1>5, <1>6
<1> QED
  BY <1>7 DEF a, t, n

\* The names a list of numbers stands for are the names it was made of.
LEMMA IndicesNames ==
    ASSUME NEW m \in Nat, NEW ids, DOMAIN ids = 1 .. m,
           NEW names, names \in Seq(Range(names)), Range(names) \subseteq Range(ids)
    PROVE  /\ Indices(ids, names) \in Seq(Range(Indices(ids, names)))
           /\ [k \in DOMAIN Indices(ids, names) |-> ids[Indices(ids, names)[k] + 1]] = names
<1> DEFINE x == Indices(ids, names)
           l == Len(names)
<1>1. l \in Nat /\ DOMAIN names = 1 .. l /\ names = [k \in 1 .. l |-> names[k]]
  <2>1. names \in [1 .. l -> Range(names)]
    BY LenProperties
  <2> QED
    BY <2>1, LenProperties
<1>2. x = [k \in 1 .. l |-> x[k]] /\ \A k \in 1 .. l : x[k] = IndexOf(ids, names[k])
  BY <1>1 DEF Indices
<1>3. \A k \in 1 .. l : names[k] \in Range(ids)
  BY <1>1 DEF Range
<1>4. \A id \in Range(ids) : ids[IndexOf(ids, id) + 1] = id
  BY IndexOfFacts
<1> HIDE DEF x, l
<1>5. x \in Seq(Range(x)) /\ DOMAIN x = 1 .. l
  BY <1>1, <1>2, SequenceOf
<1>6. [k \in DOMAIN x |-> ids[x[k] + 1]] = names
  BY <1>1, <1>2, <1>3, <1>4, <1>5
<1> QED
  BY <1>5, <1>6 DEF x

\* What the parsers of documents have seen to.
LEMMA ListNode ==
    ASSUME NEW v, SequenceNode(v), v # Missing => v # Malformed
    PROVE  List(v) \in Seq(Range(List(v)))
<1>1. CASE v = Missing
  <2>1. List(v) = <<>> /\ Range(<<>>) = {}
    BY <1>1 DEF List, Range
  <2> QED
    BY <2>1
<1>2. CASE v # Missing
  BY <1>2 DEF List, SequenceNode
<1> QED
  BY <1>1, <1>2

LEMMA DeviceListsFacts ==
    ASSUME NEW y, DeviceDocument(y.devices), DTypeDocument(y.dtypes), OpDocument(y.ops),
           DevicesAccepted(y)
    PROVE  LET list == y.devices.devices
               t == DeviceTables(y)
           IN /\ Len(list) \in Nat /\ DOMAIN list = 1 .. Len(list)
              /\ \A i \in DOMAIN list :
                   /\ supportedDTypes(t, i) = Indices(DTypeIds(y.dtypes), list[i].supported_dtypes)
                   /\ [k \in DOMAIN supportedDTypes(t, i) |->
                        DTypeIds(y.dtypes)[supportedDTypes(t, i)[k] + 1]] = list[i].supported_dtypes
                   /\ [k \in DOMAIN supportedOps(t, i) |->
                        OpDef(y.ops)[supportedOps(t, i)[k] + 1]] = list[i].supported_ops
                   /\ capabilitiesOf(t, i) = List(list[i].capabilities)
<1> DEFINE list == y.devices.devices
           n == Len(list)
           t == DeviceTables(y)
           dtypeIds == DTypeIds(y.dtypes)
           opIds == OpDef(y.ops)
           DTypeLists == [i \in DOMAIN list |-> Indices(dtypeIds, list[i].supported_dtypes)]
           OpLists == [i \in DOMAIN list |-> Indices(opIds, list[i].supported_ops)]
           Capabilities == [i \in DOMAIN list |-> List(list[i].capabilities)]
<1>1. IsMappingSequence(list) /\ \A i \in DOMAIN list : DeviceAccepted(y, list[i])
  BY Zenon DEF DevicesAccepted
<1>2. n \in Nat /\ DOMAIN list = 1 .. n /\ \A i \in 1 .. n : list[i] # Malformed
  BY <1>1, NodeIsSequence DEF DeviceDocument, IsMappingSequence
<1>3. Len(y.dtypes.dtypes) \in Nat /\ DOMAIN dtypeIds = 1 .. Len(y.dtypes.dtypes)
  <2>1. IsMappingSequence(y.dtypes.dtypes)
    BY Zenon DEF DevicesAccepted, ParseDTypeCatalog
  <2> QED
    BY <2>1, NodeIsSequence DEF DTypeDocument, IsMappingSequence, DTypeIds
<1>4. Len(y.ops.ops) \in Nat /\ DOMAIN opIds = 1 .. Len(y.ops.ops)
  <2>1. IsMappingSequence(y.ops.ops)
    BY Zenon DEF DevicesAccepted, ParseOpCatalog
  <2> QED
    BY <2>1, NodeIsSequence DEF OpDocument, IsMappingSequence, OpDef
<1>5. ASSUME NEW i \in 1 .. n
      PROVE  /\ list[i].supported_dtypes \in Seq(Range(list[i].supported_dtypes))
             /\ Range(list[i].supported_dtypes) \subseteq Range(dtypeIds)
             /\ list[i].supported_ops \in Seq(Range(list[i].supported_ops))
             /\ Range(list[i].supported_ops) \subseteq Range(opIds)
             /\ List(list[i].capabilities) \in Seq(Range(List(list[i].capabilities)))
  <2> DEFINE d == list[i]
  <2>1. DeviceAccepted(y, d)
    BY <1>1, <1>2
  <2>2. SequenceNode(d.supported_dtypes) /\ SequenceNode(d.supported_ops) /\ SequenceNode(d.capabilities)
    BY <1>1, <1>2 DEF DeviceDocument, IsMappingSequence
  <2>3. ListAccepted(dtypeIds, d.supported_dtypes) /\ ListAccepted(opIds, d.supported_ops)
        /\ (d.capabilities # Missing => d.capabilities # Malformed)
    BY <2>1 DEF DeviceAccepted
  <2> HIDE DEF d, dtypeIds, opIds
  <2>4. d.supported_dtypes \notin {Missing, Malformed} /\ Range(d.supported_dtypes) \subseteq Range(dtypeIds)
        /\ d.supported_ops \notin {Missing, Malformed} /\ Range(d.supported_ops) \subseteq Range(opIds)
    BY <2>3 DEF ListAccepted, ReadRequiredList
  <2>5. List(d.capabilities) \in Seq(Range(List(d.capabilities)))
    BY <2>2, <2>3, ListNode
  <2>6. d.supported_dtypes \in Seq(Range(d.supported_dtypes))
        /\ d.supported_ops \in Seq(Range(d.supported_ops))
    BY <2>2, <2>4, NodeIsSequence
  <2> QED
    BY <2>4, <2>5, <2>6 DEF d
<1>6. /\ t.dtypes = FlattenSeq(DTypeLists) /\ t.dtypeOffsets = OffsetsOf(DTypeLists)
      /\ t.ops = FlattenSeq(OpLists) /\ t.opOffsets = OffsetsOf(OpLists)
      /\ t.capabilities = FlattenSeq(Capabilities) /\ t.capabilityOffsets = OffsetsOf(Capabilities)
  BY Zenon DEF DeviceTables
<1>7. /\ DTypeLists = [i \in 1 .. n |-> DTypeLists[i]] /\ OpLists = [i \in 1 .. n |-> OpLists[i]]
      /\ Capabilities = [i \in 1 .. n |-> Capabilities[i]]
      /\ \A i \in 1 .. n :
           /\ DTypeLists[i] = Indices(dtypeIds, list[i].supported_dtypes)
           /\ OpLists[i] = Indices(opIds, list[i].supported_ops)
           /\ Capabilities[i] = List(list[i].capabilities)
  BY <1>2
<1> HIDE DEF DTypeLists, OpLists, Capabilities, dtypeIds, opIds, t, n, list
<1>8. ASSUME NEW i \in 1 .. n
      PROVE  /\ DTypeLists[i] \in Seq(Range(DTypeLists[i]))
             /\ [k \in DOMAIN DTypeLists[i] |-> dtypeIds[DTypeLists[i][k] + 1]] = list[i].supported_dtypes
             /\ OpLists[i] \in Seq(Range(OpLists[i]))
             /\ [k \in DOMAIN OpLists[i] |-> opIds[OpLists[i][k] + 1]] = list[i].supported_ops
             /\ Capabilities[i] \in Seq(Range(Capabilities[i]))
  <2>1. /\ Indices(dtypeIds, list[i].supported_dtypes) \in Seq(Range(Indices(dtypeIds, list[i].supported_dtypes)))
        /\ [k \in DOMAIN Indices(dtypeIds, list[i].supported_dtypes) |->
              dtypeIds[Indices(dtypeIds, list[i].supported_dtypes)[k] + 1]] = list[i].supported_dtypes
    BY <1>3, <1>5, IndicesNames
  <2>2. /\ Indices(opIds, list[i].supported_ops) \in Seq(Range(Indices(opIds, list[i].supported_ops)))
        /\ [k \in DOMAIN Indices(opIds, list[i].supported_ops) |->
              opIds[Indices(opIds, list[i].supported_ops)[k] + 1]] = list[i].supported_ops
    BY <1>4, <1>5, IndicesNames
  <2>3. /\ DTypeLists[i] = Indices(dtypeIds, list[i].supported_dtypes)
        /\ OpLists[i] = Indices(opIds, list[i].supported_ops)
        /\ Capabilities[i] = List(list[i].capabilities)
    BY <1>7
  <2> QED
    BY <1>5, <2>1, <2>2, <2>3
<1>9. ASSUME NEW i \in 1 .. n
      PROVE  supportedDTypes(t, i) = DTypeLists[i] /\ supportedOps(t, i) = OpLists[i]
             /\ capabilitiesOf(t, i) = Capabilities[i]
  <2>1. Between(FlattenSeq(DTypeLists), OffsetsOf(DTypeLists), i) = DTypeLists[i]
    <3>1. DTypeLists = [j \in 1 .. n |-> DTypeLists[j]]
      BY <1>7
    <3>2. \A j \in 1 .. n : DTypeLists[j] \in Seq(Range(DTypeLists[j]))
      BY <1>8
    <3> QED
      BY <1>2, <3>1, <3>2, SliceOf
  <2>2. Between(FlattenSeq(OpLists), OffsetsOf(OpLists), i) = OpLists[i]
    <3>1. OpLists = [j \in 1 .. n |-> OpLists[j]]
      BY <1>7
    <3>2. \A j \in 1 .. n : OpLists[j] \in Seq(Range(OpLists[j]))
      BY <1>8
    <3> QED
      BY <1>2, <3>1, <3>2, SliceOf
  <2>3. Between(FlattenSeq(Capabilities), OffsetsOf(Capabilities), i) = Capabilities[i]
    <3>1. Capabilities = [j \in 1 .. n |-> Capabilities[j]]
      BY <1>7
    <3>2. \A j \in 1 .. n : Capabilities[j] \in Seq(Range(Capabilities[j]))
      BY <1>8
    <3> QED
      BY <1>2, <3>1, <3>2, SliceOf
  <2> QED
    BY <1>6, <2>1, <2>2, <2>3 DEF supportedDTypes, supportedOps, capabilitiesOf
<1>10. \A i \in DOMAIN list :
         /\ supportedDTypes(t, i) = Indices(dtypeIds, list[i].supported_dtypes)
         /\ [k \in DOMAIN supportedDTypes(t, i) |->
              dtypeIds[supportedDTypes(t, i)[k] + 1]] = list[i].supported_dtypes
         /\ [k \in DOMAIN supportedOps(t, i) |->
              opIds[supportedOps(t, i)[k] + 1]] = list[i].supported_ops
         /\ capabilitiesOf(t, i) = List(list[i].capabilities)
  BY <1>2, <1>7, <1>8, <1>9
<1> QED
  BY <1>2, <1>10 DEF list, n, t, dtypeIds, opIds

LEMMA ExecutionsKnown ==
    ASSUME NEW execs, ExecutionDocument(execs), IsMappingSequence(execs.executions)
    PROVE  /\ Len(execs.executions) \in Nat
           /\ DOMAIN execs.executions = 1 .. Len(execs.executions)
           /\ DOMAIN ExecutionIds(execs) = 1 .. Len(execs.executions)
           /\ \A e \in 1 .. Len(execs.executions) : ExecutionIds(execs)[e] = execs.executions[e].id
BY NodeIsSequence DEF ExecutionDocument, IsMappingSequence, ExecutionIds

\* The local number of a device's architecture is the place of the name.
LEMMA LocalIndexFacts ==
    ASSUME NEW doc, ArchitectureDocument(doc), NEW execs, ParseArchitectureCatalog(doc, execs),
           NEW x, NEW id \in Range(LocalNames(doc, x))
    PROVE  LET k == LocalIndex(doc, x, id)
               entries == EntriesOf(doc, x)
           IN /\ k \in 0 .. Len(entries)
              /\ id = "Generic" => k = 0
              /\ id # "Generic" => k # 0 /\ entries[k].id = id
<1> DEFINE entries == EntriesOf(doc, x)
           m == Len(entries)
           names == LocalNames(doc, x)
           k == LocalIndex(doc, x, id)
<1>1. IsMappingSequence(doc.architectures) /\ \A i \in DOMAIN doc.architectures : doc.architectures[i].id # "Generic"
  BY Zenon DEF ParseArchitectureCatalog
<1>2. m \in Nat /\ \A j \in 1 .. m : entries[j].id # "Generic"
  BY <1>1, EntriesFacts
<1>3. m + 1 \in Nat /\ DOMAIN names = 1 .. m + 1 /\ m + 1 - 1 = m
  BY <1>2 DEF LocalNames
<1>4. \A j \in 1 .. m + 1 : names[j] = IF j = 1 THEN "Generic" ELSE entries[j - 1].id
  BY DEF LocalNames
<1> HIDE DEF m, names, entries
<1>5. k \in 0 .. m + 1 - 1 /\ names[k + 1] = id
  <2>1. k = IndexOf(names, id) /\ id \in Range(names)
    BY DEF LocalIndex, names
  <2>2. PICK l \in Nat : l = m + 1 /\ DOMAIN names = 1 .. l
    BY <1>3
  <2> HIDE DEF k
  <2>3. k \in 0 .. l - 1 /\ names[k + 1] = id
    BY <2>1, <2>2, IndexOfFacts
  <2> QED
    BY <1>2, <2>2, <2>3
<1> HIDE DEF k
<1>6. k \in 0 .. m /\ k + 1 \in 1 .. m + 1 /\ k + 1 - 1 = k /\ (k + 1 = 1 <=> k = 0)
      /\ (k # 0 => k \in 1 .. m)
  BY <1>2, <1>3, <1>5
<1>7. k \in 0 .. m /\ (id = "Generic" => k = 0) /\ (id # "Generic" => k # 0 /\ entries[k].id = id)
  BY <1>2, <1>4, <1>5, <1>6
<1> QED
  BY <1>7 DEF k, m, entries

LEMMA DevicesNamed ==
    ASSUME NEW y, DeviceDocument(y.devices), ArchitectureDocument(y.architectures),
           ExecutionDocument(y.executions), DevicesAccepted(y),
           NEW i \in DOMAIN y.devices.devices
    PROVE  LET t == DeviceTables(y)
               archs == ArchitectureTables(y.architectures, y.executions)
               d == y.devices.devices[i]
               a == architectureOf(t, archs, i)
           IN /\ a < archs.count
              /\ archs.id[a + 1] = IF d.architecture = "Generic" THEN GenericId(d.execution)
                                   ELSE d.architecture
              /\ ExecutionIds(y.executions)[executionOf(archs, a) + 1] = d.execution
<1> DEFINE t == DeviceTables(y)
           doc == y.architectures
           execs == y.executions
           archs == ArchitectureTables(doc, execs)
           d == y.devices.devices[i]
           a == architectureOf(t, archs, i)
           n == Len(execs.executions)
           ids == ExecutionIds(execs)
           e == IndexOf(ids, d.execution) + 1
           k == LocalIndex(doc, d.execution, d.architecture)
<1>1. /\ IsMappingSequence(execs.executions) /\ ParseArchitectureCatalog(doc, execs)
      /\ IsMappingSequence(doc.architectures)
      /\ d.execution \in Range(ids) /\ d.architecture \in Range(LocalNames(doc, d.execution))
  <2>1. /\ ParseExecutionCatalog(execs) /\ ParseArchitectureCatalog(doc, execs)
        /\ DeviceAccepted(y, d)
    BY Zenon DEF DevicesAccepted
  <2> HIDE DEF d
  <2> QED
    BY <2>1, Zenon DEF ParseExecutionCatalog, ParseArchitectureCatalog, DeviceAccepted
<1>2. n \in Nat /\ DOMAIN ids = 1 .. n /\ \A f \in 1 .. n : ids[f] = execs.executions[f].id
      /\ DOMAIN execs.executions = 1 .. n
  BY <1>1, ExecutionsKnown
<1>3. t.execution[i] = e - 1 /\ t.local[i] = k
  <2>1. t.execution[i] = IndexOf(ids, d.execution) /\ t.local[i] = k
    BY Zenon DEF DeviceTables
  <2>2. IndexOf(ids, d.execution) \in 0 .. n - 1
    BY <1>1, <1>2, IndexOfFacts
  <2> QED
    BY <2>1, <2>2
<1>4. e \in 1 .. n /\ ids[e] = d.execution /\ execs.executions[e].id = d.execution
  <2>1. IndexOf(ids, d.execution) \in 0 .. n - 1 /\ ids[e] = d.execution
    <3> HIDE DEF d, ids, n
    <3> QED
      BY <1>1, <1>2, IndexOfFacts
  <2>2. e \in 1 .. n
    BY <1>2, <2>1
  <2> QED
    BY <1>2, <2>1, <2>2
<1>5. /\ k \in 0 .. Len(EntriesOf(doc, d.execution))
      /\ d.architecture = "Generic" => k = 0
      /\ d.architecture # "Generic" => k # 0 /\ EntriesOf(doc, d.execution)[k].id = d.architecture
  BY <1>1, LocalIndexFacts
<1>6. PICK off \in [0 .. n -> Nat] : Placed(off, doc, execs)
  BY <1>1, ResolvedFacts
<1> HIDE DEF t, archs, d, ids, e, k, n
<1>7. k \in 0 .. Own(doc, execs, e)
  BY <1>4, <1>5 DEF Own
<1>8. a = fromExecutionAndLocalIndex(archs, e - 1, k)
  BY <1>3 DEF architectureOf
<1> HIDE DEF a
<1>9. /\ off[e - 1] + k \in 0 .. archs.count - 1 /\ archs.count = off[n]
      /\ archs.id[off[e - 1] + k + 1] = ArchitectureAt(doc, execs, e, k).id
      /\ archs.execution[off[e - 1] + k + 1] = e - 1
      /\ fromExecutionAndLocalIndex(archs, e - 1, k) = off[e - 1] + k
  BY <1>2, <1>4, <1>6, <1>7, TableAt DEF archs, n
<1>10. n \in 0 .. n
  BY <1>2
<1>11. a < archs.count /\ archs.id[a + 1] = ArchitectureAt(doc, execs, e, k).id
       /\ executionOf(archs, a) + 1 = e
  <2>1. off[n] \in Nat /\ e - 1 + 1 = e
    BY <1>4, <1>10
  <2> QED
    BY <1>8, <1>9, <2>1 DEF executionOf
<1>12. ArchitectureAt(doc, execs, e, k).id =
         IF d.architecture = "Generic" THEN GenericId(d.execution) ELSE d.architecture
  BY <1>4, <1>5 DEF ArchitectureAt
<1>13. /\ a < archs.count
       /\ archs.id[a + 1] = IF d.architecture = "Generic" THEN GenericId(d.execution)
                            ELSE d.architecture
       /\ ids[executionOf(archs, a) + 1] = d.execution
  BY <1>4, <1>11, <1>12
<1> QED
  BY <1>13 DEF a, t, archs, d, ids

\* architectureOf of device.h and fromExecutionAndLocalIndex of architecture.h
\* lead from a device to the architecture its document names, of its execution,
\* and its dtypes, ops and capabilities are those it lists: three generators
\* that read the same documents each on their own number them alike.
THEOREM DevicesAlwaysNamed == Spec => []DevicesNameTheirArchitecture
<1>1. ASSUME BuildInv, Built PROVE DevicesNameTheirArchitecture
  <2>1. /\ DevicesAccepted(yaml) /\ files.devices.tables = DeviceTables(yaml)
        /\ files.architectures.tables = ArchitectureTables(yaml.architectures, yaml.executions)
        /\ files.executions.def = ExecutionIds(yaml.executions)
        /\ files.dtypes.def = DTypeIds(yaml.dtypes) /\ files.ops.def = OpDef(yaml.ops)
    BY <1>1, BuiltFiles, SectionsAre DEF Accepted, Def, Tables, ExecutionDef, DTypeDef
  <2>2. /\ DeviceDocument(yaml.devices) /\ ArchitectureDocument(yaml.architectures)
        /\ ExecutionDocument(yaml.executions) /\ DTypeDocument(yaml.dtypes) /\ OpDocument(yaml.ops)
    BY <1>1, SectionsAre DEF BuildInv, DocumentsKnown, Document
  <2>3. ASSUME NEW i \in DOMAIN yaml.devices.devices
        PROVE  LET t == files.devices.tables
                   archs == files.architectures.tables
                   d == yaml.devices.devices[i]
                   a == architectureOf(t, archs, i)
               IN /\ a < archs.count
                  /\ archs.id[a + 1] = IF d.architecture = "Generic" THEN GenericId(d.execution)
                                       ELSE d.architecture
                  /\ files.executions.def[executionOf(archs, a) + 1] = d.execution
                  /\ [k \in DOMAIN supportedDTypes(t, i) |->
                       files.dtypes.def[supportedDTypes(t, i)[k] + 1]] = d.supported_dtypes
                  /\ [k \in DOMAIN supportedOps(t, i) |->
                       files.ops.def[supportedOps(t, i)[k] + 1]] = d.supported_ops
                  /\ capabilitiesOf(t, i) = List(d.capabilities)
    BY <2>1, <2>2, DevicesNamed, DeviceListsFacts
  <2> QED
    BY <2>3, Zenon DEF DevicesNameTheirArchitecture
<1>2. BuildInv => DevicesNameTheirArchitecture
  BY <1>1 DEF DevicesNameTheirArchitecture
<1> QED
  BY <1>2, BuildInvariant, PTL

-----------------------------------------------------------------------------
(* Parents *)

LEMMA MaxOfPositions ==
    ASSUME NEW n \in Nat, NEW X \in SUBSET (1 .. n), X # {}
    PROVE  Max(X) \in X
<1> DEFINE Y == {n - x : x \in X}
<1>1. Y \in SUBSET Nat /\ Y # {}
  <2>1. \A x \in 1 .. n : n - x \in Nat
    OBVIOUS
  <2> QED
    BY <2>1
<1>2. PICK m \in Y : \A y \in Y : m <= y
  <2> HIDE DEF Y
  <2> QED
    BY <1>1, LeastNat
<1>3. PICK x \in X : m = n - x
  OBVIOUS
<1>4. ASSUME NEW y \in X PROVE x >= y
  <2>1. n - x <= n - y
    BY <1>2, <1>3
  <2>2. x \in Int /\ y \in Int
    OBVIOUS
  <2> QED
    BY <2>1, <2>2
<1>5. \E z \in X : \A y \in X : z >= y
  BY <1>4
<1> QED
  BY <1>5 DEF Max

\* The chain of parents from i - 1 on.
ChainFrom(parents, i, n) ==
    LET at[k \in 0 .. n] == IF k = 0 THEN i - 1
                            ELSE IF at[k - 1] = NoParent THEN NoParent
                            ELSE parents[at[k - 1] + 1]
    IN at

LEMMA ChainFacts ==
    ASSUME NEW n \in Nat, NEW parents \in [1 .. n -> 0 .. n - 1 \cup {NoParent}],
           NEW i \in 1 .. n
    PROVE  LET c == ChainFrom(parents, i, n) IN
           /\ c[0] = i - 1
           /\ \A k \in 1 .. n : c[k] = IF c[k - 1] = NoParent THEN NoParent ELSE parents[c[k - 1] + 1]
<1> DEFINE S == 0 .. n - 1 \cup {NoParent}
           F(x) == IF x = NoParent THEN NoParent ELSE parents[x + 1]
           step == [k \in 1 .. n |-> [x \in S |-> F(x)]]
           IsLet(f) == f = [k \in 0 .. n |-> IF k = 0 THEN i - 1
                                             ELSE IF f[k - 1] = NoParent THEN NoParent
                                             ELSE parents[f[k - 1] + 1]]
           g == CHOOSE f : IsLet(f)
<1>1. i - 1 \in S /\ \A x \in S : F(x) \in S
  OBVIOUS
<1>2. step \in [1 .. n -> [S -> S]] /\ \A k \in 1 .. n, x \in S : step[k][x] = F(x)
  <2> HIDE DEF S, F
  <2> QED
    BY <1>1
<1> HIDE DEF step
<1>3. PICK f \in [0 .. n -> S] : IsLoop(f, n, i - 1, step)
  <2> HIDE DEF S
  <2> QED
    BY <1>1, <1>2, LoopExists
<1>4. \A k \in 0 .. n : k # 0 => k \in 1 .. n /\ k - 1 \in 0 .. n
  OBVIOUS
<1>5. f[0] = i - 1 /\ \A k \in 1 .. n : f[k] = F(f[k - 1])
  <2> HIDE DEF S, F
  <2>1. \A k \in 1 .. n : f[k - 1] \in S
    <3>1. \A k \in 1 .. n : k - 1 \in 0 .. n
      OBVIOUS
    <3> QED
      BY <3>1
  <2> QED
    BY <1>2, <1>3, <2>1 DEF IsLoop
<1>6. IsLet(f)
  <2>1. \A k \in 0 .. n : f[k] = IF k = 0 THEN i - 1
                                 ELSE IF f[k - 1] = NoParent THEN NoParent
                                 ELSE parents[f[k - 1] + 1]
    BY <1>4, <1>5
  <2>2. f = [k \in 0 .. n |-> f[k]]
    OBVIOUS
  <2> QED
    BY <2>1, <2>2
<1>7. IsLet(g)
  <2> HIDE DEF IsLet
  <2> QED
    BY <1>6
<1>8. ChainFrom(parents, i, n) = g
  BY DEF ChainFrom
<1>9. g[0] = i - 1 /\ \A k \in 1 .. n : g[k] = IF g[k - 1] = NoParent THEN NoParent ELSE parents[g[k - 1] + 1]
  <2> DEFINE G(k) == IF k = 0 THEN i - 1
                     ELSE IF g[k - 1] = NoParent THEN NoParent
                     ELSE parents[g[k - 1] + 1]
  <2>1. g = [k \in 0 .. n |-> G(k)]
    BY <1>7
  <2> HIDE DEF G, g
  <2>2. \A k \in 0 .. n : g[k] = G(k)
    BY <2>1
  <2>3. 0 \in 0 .. n /\ \A k \in 1 .. n : k \in 0 .. n /\ k # 0
    OBVIOUS
  <2> QED
    BY <2>2, <2>3 DEF G
<1> HIDE DEF g
<1> QED
  BY <1>8, <1>9

LEMMA FallbackFacts ==
    ASSUME NEW t, t.count \in Nat, NEW a \in 0 .. t.count - 1,
           \A b \in 0 .. t.count - 1 : parentOf(t, b) \in 0 .. t.count - 1
    PROVE  LET w == forEachFallback(t, a) IN
           /\ w \in [0 .. t.count -> 0 .. t.count - 1]
           /\ w[0] = a
           /\ \A k \in 1 .. t.count : w[k] = parentOf(t, w[k - 1])
<1> DEFINE n == t.count
           S == 0 .. n - 1
           step == [k \in 1 .. n |-> [x \in S |-> parentOf(t, x)]]
           IsLet(f) == f = [k \in 0 .. n |-> IF k = 0 THEN a ELSE parentOf(t, f[k - 1])]
           g == CHOOSE f : IsLet(f)
<1>1. step \in [1 .. n -> [S -> S]] /\ \A k \in 1 .. n, x \in S : step[k][x] = parentOf(t, x)
  OBVIOUS
<1> HIDE DEF step
<1>2. PICK f \in [0 .. n -> S] : IsLoop(f, n, a, step)
  <2> HIDE DEF S
  <2>1. n \in Nat /\ a \in S
    BY DEF S
  <2> HIDE DEF n
  <2> QED
    BY <1>1, <2>1, LoopExists
<1>3. \A k \in 0 .. n : k # 0 => k \in 1 .. n /\ k - 1 \in 0 .. n
  OBVIOUS
<1>4. f[0] = a /\ \A k \in 1 .. n : f[k] = parentOf(t, f[k - 1])
  <2>1. \A k \in 1 .. n : f[k - 1] \in S
    <3>1. \A k \in 1 .. n : k - 1 \in 0 .. n
      OBVIOUS
    <3> HIDE DEF S
    <3> QED
      BY <3>1
  <2> HIDE DEF S
  <2> QED
    BY <1>1, <1>2, <2>1 DEF IsLoop
<1>5. IsLet(f)
  <2>1. \A k \in 0 .. n : f[k] = IF k = 0 THEN a ELSE parentOf(t, f[k - 1])
    BY <1>3, <1>4
  <2>2. f = [k \in 0 .. n |-> f[k]]
    OBVIOUS
  <2> QED
    BY <2>1, <2>2
<1>6. IsLet(g)
  <2> HIDE DEF IsLet
  <2> QED
    BY <1>5
<1>7. forEachFallback(t, a) = g
  BY DEF forEachFallback
<1>8. g[0] = a /\ \A k \in 1 .. n : g[k] = parentOf(t, g[k - 1])
  <2> DEFINE G(k) == IF k = 0 THEN a ELSE parentOf(t, g[k - 1])
  <2>1. g = [k \in 0 .. n |-> G(k)]
    BY <1>6
  <2> HIDE DEF G, g
  <2>2. \A k \in 0 .. n : g[k] = G(k)
    BY <2>1
  <2>3. 0 \in 0 .. n /\ \A k \in 1 .. n : k \in 0 .. n /\ k # 0
    OBVIOUS
  <2> QED
    BY <2>2, <2>3 DEF G
<1>9. g \in [0 .. n -> S]
  <2>1. g = [k \in 0 .. n |-> g[k]]
    <3> DEFINE G(k) == IF k = 0 THEN a ELSE parentOf(t, g[k - 1])
    <3>1. g = [k \in 0 .. n |-> G(k)]
      BY <1>6
    <3> HIDE DEF G, g
    <3> QED
      BY <3>1
  <2> HIDE DEF g
  <2> DEFINE X == {k \in 0 .. n : g[k] \in S}
  <2>2. 0 \in X
    BY <1>8
  <2>3. ASSUME NEW k \in 1 .. n, k - 1 \in X PROVE k \in X
    BY <1>8, <2>3
  <2> HIDE DEF X
  <2>4. \A k \in 0 .. n : k \in X
    BY <2>2, <2>3, Upward
  <2> HIDE DEF S
  <2>5. \A k \in 0 .. n : g[k] \in S
    BY <2>4 DEF X
  <2> QED
    BY <2>1, <2>5
<1> HIDE DEF g
<1> QED
  BY <1>7, <1>8, <1>9

\* What gen_architectures makes sure of before it writes the parents.
ParentsKnown(t) ==
    /\ t.count \in Nat /\ NoParent \notin 0 .. t.count - 1
    /\ t.parent \in [1 .. t.count -> 0 .. t.count - 1 \cup {NoParent}]
    /\ \A i \in 1 .. t.count :
        /\ t.parent[i] = NoParent <=> t.local[i] = 0
        /\ t.parent[i] # NoParent => t.execution[t.parent[i] + 1] = t.execution[i]
        /\ ChainFrom(t.parent, i, t.count)[t.count] = NoParent

LEMMA ParentsFacts ==
    ASSUME NEW doc, NEW execs, ArchitectureDocument(doc), ExecutionDocument(execs),
           ArchitecturesAccepted(doc, execs)
    PROVE  ParentsKnown(ArchitectureTables(doc, execs))
<1> DEFINE all == Resolved(doc, execs)
           n == Len(all)
           t == ArchitectureTables(doc, execs)
           parents == ParentIndices(all)
           S == 0 .. n - 1 \cup {NoParent}
<1>1. /\ IsMappingSequence(doc.architectures) /\ IsMappingSequence(execs.executions)
      /\ n <= MaxIndex /\ ParentsAccepted(all)
  BY Zenon DEF ArchitecturesAccepted, ParseExecutionConfig, ParseArchitectureConfig
<1>2. n \in Nat /\ DOMAIN all = 1 .. n
  <2>1. PICK off \in [0 .. Len(execs.executions) -> Nat] : Placed(off, doc, execs)
    BY <1>1, ResolvedFacts
  <2>2. Len(execs.executions) \in 0 .. Len(execs.executions)
    <3>1. Len(execs.executions) \in Nat
      BY <1>1, ResolvedFacts
    <3> QED
      BY <3>1
  <2> QED
    BY <2>1, <2>2 DEF Placed
<1>3. /\ t.count = n /\ t.parent = parents
      /\ \A i \in 1 .. n : t.local[i] = all[i].local /\ t.execution[i] = all[i].execution
  BY <1>2, Zenon DEF ArchitectureTables
<1>4. NoParent \notin 0 .. n - 1
  BY <1>1, <1>2, NoParentAssumption, MaxIndexAssumption
<1> HIDE DEF t, n
<1>5. ASSUME NEW i \in 1 .. n
      PROVE  /\ all[i].local = 0 => parents[i] = NoParent
             /\ all[i].local # 0 =>
                  /\ parents[i] \in 0 .. n - 1
                  /\ all[parents[i] + 1].execution = all[i].execution
  <2>1. parents[i] = IF all[i].local = 0 THEN NoParent ELSE Max(ParentCandidates(all, i)) - 1
    BY <1>2, Zenon DEF ParentIndices
  <2>2. all[i].local # 0 => ParentCandidates(all, i) # {}
    BY <1>1, <1>2 DEF ParentsAccepted
  <2>3. /\ ParentCandidates(all, i) \in SUBSET (1 .. n)
        /\ \A p \in ParentCandidates(all, i) : all[p].execution = all[i].execution
    BY <1>2 DEF ParentCandidates
  <2> DEFINE X == ParentCandidates(all, i)
             m == Max(X)
  <2> HIDE DEF X, parents, all
  <2>4. X # {} => m \in X
    BY <1>2, <2>3, MaxOfPositions DEF X
  <2>5. X # {} => m \in 1 .. n /\ all[m].execution = all[i].execution
    BY <2>3, <2>4 DEF X
  <2> HIDE DEF m
  <2>6. m \in 1 .. n => m - 1 \in 0 .. n - 1 /\ m - 1 + 1 = m
    BY <1>2
  <2> QED
    BY <2>1, <2>2, <2>5, <2>6 DEF X, m
<1>6. parents \in [1 .. n -> S] /\ Len(parents) = n
  <2>1. parents = [i \in 1 .. n |-> parents[i]]
    <3> DEFINE F(i) == IF all[i].local = 0 THEN NoParent ELSE Max(ParentCandidates(all, i)) - 1
    <3>1. parents = [i \in 1 .. n |-> F(i)]
      BY <1>2, Zenon DEF ParentIndices
    <3> HIDE DEF F, parents
    <3> QED
      BY <3>1
  <2> HIDE DEF parents, all
  <2>2. \A i \in 1 .. n : parents[i] \in S
    BY <1>5
  <2> HIDE DEF S
  <2>3. parents \in [1 .. n -> S]
    BY <2>1, <2>2
  <2> QED
    BY <1>2, <2>3, ListOf
<1>7. \A i \in 1 .. n : ChainFrom(parents, i, n)[n] = NoParent
  <2>1. Acyclic(parents)
    BY <1>1, Zenon DEF ParentsAccepted
  <2> HIDE DEF parents, all
  <2>2. \A i \in 1 .. Len(parents) : ChainFrom(parents, i, Len(parents))[Len(parents)] = NoParent
    BY <2>1, Zenon DEF Acyclic, ChainFrom
  <2> QED
    BY <1>6, <2>2
<1> HIDE DEF parents, all
<1>8. \A i \in 1 .. n : parents[i] = NoParent <=> all[i].local = 0
  BY <1>4, <1>5
<1>9. \A i \in 1 .. n : parents[i] # NoParent =>
         all[parents[i] + 1].execution = all[i].execution /\ parents[i] + 1 \in 1 .. n
  <2>1. \A x \in 0 .. n - 1 : x + 1 \in 1 .. n
    BY <1>2
  <2> QED
    BY <1>5, <2>1
<1>10. ParentsKnown(t)
  <2>1. t.count \in Nat /\ NoParent \notin 0 .. t.count - 1
        /\ t.parent \in [1 .. t.count -> 0 .. t.count - 1 \cup {NoParent}]
    BY <1>2, <1>3, <1>4, <1>6
  <2> HIDE DEF S
  <2>2. ASSUME NEW i \in 1 .. n
        PROVE  /\ t.parent[i] = NoParent <=> t.local[i] = 0
               /\ t.parent[i] # NoParent => t.execution[t.parent[i] + 1] = t.execution[i]
               /\ ChainFrom(t.parent, i, n)[n] = NoParent
    BY <1>3, <1>7, <1>8, <1>9
  <2> QED
    BY <1>3, <2>1, <2>2 DEF ParentsKnown
<1> QED
  BY <1>10 DEF t

\* The walk of forEachFallback stays in its execution and ends where there is
\* no parent.
LEMMA WalkEnds ==
    ASSUME NEW t, ParentsKnown(t), NEW a \in 0 .. t.count - 1
    PROVE  LET w == forEachFallback(t, a) IN
           /\ w \in [0 .. t.count -> 0 .. t.count - 1]
           /\ t.local[w[t.count] + 1] = 0 /\ ~ hasParent(t, w[t.count])
           /\ \A k \in 0 .. t.count : t.execution[w[k] + 1] = t.execution[a + 1]
<1> DEFINE n == t.count
           w == forEachFallback(t, a)
           c == ChainFrom(t.parent, a + 1, n)
<1>1. n \in Nat /\ a + 1 \in 1 .. n /\ a + 1 - 1 = a
  BY DEF ParentsKnown
<1>2. \A b \in 0 .. n - 1 : b + 1 \in 1 .. n
  BY <1>1
<1>3. \A b \in 0 .. n - 1 : /\ parentOf(t, b) \in 0 .. n - 1
                            /\ t.execution[parentOf(t, b) + 1] = t.execution[b + 1]
  BY <1>2 DEF ParentsKnown, parentOf, hasParent
<1>4. w \in [0 .. n -> 0 .. n - 1] /\ w[0] = a /\ \A k \in 1 .. n : w[k] = parentOf(t, w[k - 1])
  <2>1. \A b \in 0 .. t.count - 1 : parentOf(t, b) \in 0 .. t.count - 1
    BY <1>3
  <2> QED
    BY <1>1, <2>1, FallbackFacts
<1>5. c[0] = a /\ \A k \in 1 .. n : c[k] = IF c[k - 1] = NoParent THEN NoParent ELSE t.parent[c[k - 1] + 1]
  <2>1. t.parent \in [1 .. n -> 0 .. n - 1 \cup {NoParent}]
    BY DEF ParentsKnown
  <2> HIDE DEF n
  <2> QED
    BY <1>1, <2>1, ChainFacts
<1> HIDE DEF n, w, c
<1>6. 0 \in 0 .. n /\ \A k \in 1 .. n : k \in 0 .. n /\ k - 1 \in 0 .. n
  BY <1>1
<1>7. \A k \in 0 .. n : t.execution[w[k] + 1] = t.execution[a + 1]
  <2> DEFINE X == {k \in 0 .. n : t.execution[w[k] + 1] = t.execution[a + 1]}
  <2>1. 0 \in X
    BY <1>4, <1>6
  <2>2. ASSUME NEW k \in 1 .. n, k - 1 \in X PROVE k \in X
    <3>1. w[k - 1] \in 0 .. n - 1 /\ w[k] = parentOf(t, w[k - 1])
      BY <1>4, <1>6
    <3>2. t.execution[w[k - 1] + 1] = t.execution[a + 1]
      BY <2>2
    <3>3. t.execution[w[k] + 1] = t.execution[a + 1]
      BY <1>3, <3>1, <3>2
    <3> QED
      BY <1>6, <3>3
  <2> HIDE DEF X
  <2>3. \A k \in 0 .. n : k \in X
    BY <1>1, <2>1, <2>2, Upward
  <2> QED
    BY <2>3 DEF X
<1> DEFINE X == {k \in 0 .. n : IF c[k] = NoParent THEN ~ hasParent(t, w[k]) ELSE w[k] = c[k]}
<1>8. \A k \in 0 .. n : k \in X
  <2>1. a # NoParent
    BY DEF ParentsKnown, n
  <2>2. 0 \in X
    BY <1>1, <1>4, <1>5, <2>1
  <2>3. ASSUME NEW k \in 1 .. n, k - 1 \in X PROVE k \in X
    <3>1. /\ IF c[k - 1] = NoParent THEN ~ hasParent(t, w[k - 1]) ELSE w[k - 1] = c[k - 1]
          /\ k \in 0 .. n
      BY <1>6, <2>3
    <3>2. w[k] = parentOf(t, w[k - 1])
      BY <1>4
    <3>3. c[k] = IF c[k - 1] = NoParent THEN NoParent ELSE t.parent[c[k - 1] + 1]
      BY <1>5
    <3>4. IF c[k] = NoParent THEN ~ hasParent(t, w[k]) ELSE w[k] = c[k]
      BY <3>1, <3>2, <3>3 DEF parentOf, hasParent
    <3> QED
      BY <3>1, <3>4
  <2> HIDE DEF X
  <2> QED
    BY <1>1, <2>2, <2>3, Upward
<1>9. n \in 0 .. n
  BY <1>1
<1>10. c[n] = NoParent
  BY <1>1 DEF ParentsKnown, n, c
<1>11. ~ hasParent(t, w[n])
  BY <1>8, <1>9, <1>10
<1>12. t.local[w[n] + 1] = 0
  <2>1. w[n] + 1 \in 1 .. n
    BY <1>2, <1>4, <1>9
  <2> QED
    BY <1>11, <2>1 DEF ParentsKnown, hasParent, n
<1> QED
  BY <1>4, <1>7, <1>11, <1>12 DEF n, w

LEMMA FallbackReaches ==
    ASSUME NEW doc, NEW execs, ArchitectureDocument(doc), ExecutionDocument(execs),
           ArchitecturesAccepted(doc, execs),
           NEW a \in 0 .. ArchitectureTables(doc, execs).count - 1
    PROVE  LET t == ArchitectureTables(doc, execs)
               walk == forEachFallback(t, a)
           IN /\ walk[t.count] = genericOf(t, a)
              /\ ~ hasParent(t, walk[t.count])
              /\ Range(walk) \subseteq architecturesOf(t, executionOf(t, a))
<1> DEFINE t == ArchitectureTables(doc, execs)
           w == forEachFallback(t, a)
           n == Len(execs.executions)
<1>1. IsMappingSequence(doc.architectures) /\ IsMappingSequence(execs.executions)
  BY Zenon DEF ArchitecturesAccepted, ParseExecutionConfig, ParseArchitectureConfig
<1>2. n \in Nat /\ DOMAIN execs.executions = 1 .. n
  BY <1>1, ResolvedFacts
<1>3. PICK off \in [0 .. n -> Nat] : Placed(off, doc, execs)
  BY <1>1, ResolvedFacts
<1>4. /\ w \in [0 .. t.count -> 0 .. t.count - 1] /\ t.count \in Nat
      /\ t.local[w[t.count] + 1] = 0 /\ ~ hasParent(t, w[t.count])
      /\ \A k \in 0 .. t.count : t.execution[w[k] + 1] = t.execution[a + 1]
  <2>1. ParentsKnown(t)
    BY ParentsFacts
  <2> HIDE DEF t
  <2>2. a \in 0 .. t.count - 1
    BY DEF t
  <2> QED
    BY <2>1, <2>2, WalkEnds DEF ParentsKnown
<1>5. ASSUME NEW b \in 0 .. t.count - 1
      PROVE  \E e \in 1 .. n : \E k \in 0 .. Own(doc, execs, e) :
               /\ b = fromExecutionAndLocalIndex(t, e - 1, k)
               /\ t.execution[b + 1] = e - 1 /\ t.local[b + 1] = k
               /\ b \in architecturesOf(t, e - 1)
  <2>1. t.count = off[n] /\ off[n] \in Nat
    <3>1. n \in 0 .. n
      BY <1>2
    <3> QED
      BY <1>3, <3>1, Zenon DEF Placed, ArchitectureTables
  <2>2. b + 1 \in 1 .. off[n]
    BY <2>1
  <2>0. PICK e \in 1 .. n : \E k \in 0 .. Own(doc, execs, e) : b + 1 = off[e - 1] + k + 1
    BY <1>3, <2>2 DEF Placed
  <2>3. PICK k \in 0 .. Own(doc, execs, e) : b + 1 = off[e - 1] + k + 1
    BY <2>0
  <2>4. Own(doc, execs, e) \in Nat /\ off[e - 1] \in Nat /\ e - 1 + 1 = e
    <3>1. e - 1 \in 0 .. n /\ e - 1 + 1 = e
      BY <1>2
    <3>2. Own(doc, execs, e) \in Nat
      BY <1>3 DEF Placed
    <3> QED
      BY <3>1, <3>2
  <2>5. b = off[e - 1] + k
    BY <2>3, <2>4
  <2>6. /\ t.execution[b + 1] = e - 1 /\ t.local[b + 1] = k
        /\ t.offsets[e] = off[e - 1] /\ fromExecutionAndLocalIndex(t, e - 1, k) = b
    BY <1>2, <1>3, <2>5, TableAt
  <2>7. t.counts[e] = Own(doc, execs, e) + 1
    <3>1. e \in DOMAIN execs.executions
      BY <1>2
    <3> QED
      BY <3>1, Zenon DEF ArchitectureTables, ExecutionCounts, Own
  <2> HIDE DEF t
  <2>8. k \in 0 .. t.counts[e] - 1
    BY <2>4, <2>7
  <2>9. b \in architecturesOf(t, e - 1)
    BY <2>4, <2>5, <2>6, <2>8 DEF architecturesOf
  <2> QED
    BY <2>6, <2>9
<1> HIDE DEF t, w, n
<1>6. a \in 0 .. t.count - 1
  BY DEF t
<1>7. w[t.count] \in 0 .. t.count - 1 /\ t.execution[w[t.count] + 1] = t.execution[a + 1]
  <2>1. t.count \in 0 .. t.count
    BY <1>4
  <2> QED
    BY <1>4, <2>1
<1>8. w[t.count] = genericOf(t, a)
  <2>0. PICK e \in 1 .. n : \E k \in 0 .. Own(doc, execs, e) :
               /\ w[t.count] = fromExecutionAndLocalIndex(t, e - 1, k)
               /\ t.execution[w[t.count] + 1] = e - 1 /\ t.local[w[t.count] + 1] = k
    BY <1>5, <1>7
  <2>1. PICK k \in 0 .. Own(doc, execs, e) :
               /\ w[t.count] = fromExecutionAndLocalIndex(t, e - 1, k)
               /\ t.execution[w[t.count] + 1] = e - 1 /\ t.local[w[t.count] + 1] = k
    BY <2>0
  <2> QED
    BY <1>4, <1>7, <2>1 DEF genericOf, executionOf
<1>9. ASSUME NEW k \in 0 .. t.count PROVE w[k] \in architecturesOf(t, executionOf(t, a))
  <2>1. w[k] \in 0 .. t.count - 1 /\ t.execution[w[k] + 1] = t.execution[a + 1]
    BY <1>4
  <2>2. PICK e \in 1 .. n : t.execution[w[k] + 1] = e - 1 /\ w[k] \in architecturesOf(t, e - 1)
    BY <1>5, <2>1
  <2> QED
    BY <2>1, <2>2 DEF executionOf
<1>10. Range(w) \subseteq architecturesOf(t, executionOf(t, a))
  BY <1>4, <1>9 DEF Range
<1> QED
  BY <1>4, <1>8, <1>10 DEF w, t

\* The cycle check of gen_architectures is enough for forEachFallback: from any
\* architecture of any accepted document it ends at the generic one of its own
\* execution and leaves the execution nowhere.
THEOREM FallbackAlwaysReaches == Spec => []FallbackReachesGeneric
<1>1. ASSUME BuildInv, Built PROVE FallbackReachesGeneric
  <2>1. /\ ArchitecturesAccepted(yaml.architectures, yaml.executions)
        /\ files.architectures.tables = ArchitectureTables(yaml.architectures, yaml.executions)
    BY <1>1, BuiltFiles, SectionsAre DEF Accepted, Tables
  <2>2. ArchitectureDocument(yaml.architectures) /\ ExecutionDocument(yaml.executions)
    BY <1>1, SectionsAre DEF BuildInv, DocumentsKnown, Document
  <2> DEFINE t == files.architectures.tables
  <2>3. ASSUME NEW a \in 0 .. t.count - 1
        PROVE  LET walk == forEachFallback(t, a) IN
               /\ walk[t.count] = genericOf(t, a)
               /\ ~ hasParent(t, walk[t.count])
               /\ Range(walk) \subseteq architecturesOf(t, executionOf(t, a))
    BY <2>1, <2>2, FallbackReaches
  <2> QED
    BY <2>3, Zenon DEF FallbackReachesGeneric
<1>2. BuildInv => FallbackReachesGeneric
  BY <1>1 DEF FallbackReachesGeneric
<1> QED
  BY <1>2, BuildInvariant, PTL
-----------------------------------------------------------------------------
(* Detection *)

\* A detect block that gen_architectures has read.
DetectRead(d) == d # Missing =>
    /\ d.family = Missing \/ d.family \in Int
    /\ d.compute_capability = Missing \/ d.compute_capability \in Int
    /\ List(d.model) \in Seq(Range(List(d.model)))
    /\ List(d.features) \in Seq(Range(List(d.features)))
    /\ List(d.machine_ids) \in Seq(Range(List(d.machine_ids)))

LEMMA DetectKnown ==
    ASSUME NEW doc, NEW execs, ArchitectureDocument(doc), ParseArchitectureConfig(doc, execs),
           NEW i \in DOMAIN doc.architectures
    PROVE  DetectRead(MetadataOf(doc.architectures[i], "detect"))
<1> DEFINE a == doc.architectures[i]
           d == MetadataOf(a, "detect")
<1> SUFFICES ASSUME d # Missing PROVE DetectRead(d)
  BY DEF DetectRead
<1>1. IsMappingSequence(doc.architectures) /\ ParseMetadataBlock(a.metadata)
  BY Zenon DEF ParseArchitectureConfig
<1>2. a # Malformed /\ doc.architectures \notin {Missing, Malformed}
  BY <1>1 DEF IsMappingSequence
<1>3. a.metadata # Missing /\ d = a.metadata.detect
  BY DEF MetadataOf
<1>4. a.metadata # Malformed /\ ParseDetectSpec(d)
  BY <1>1, <1>3 DEF ParseMetadataBlock
<1>5. DetectDocument(d)
  BY <1>2, <1>3, <1>4 DEF ArchitectureDocument
<1> HIDE DEF d
<1>6. /\ d # Malformed /\ d.family # Malformed /\ d.compute_capability # Malformed
      /\ (d.model # Missing => d.model # Malformed)
      /\ (d.features # Missing => d.features # Malformed)
      /\ (d.machine_ids # Missing => d.machine_ids # Malformed)
  BY <1>4 DEF ParseDetectSpec, ReadOptionalInt, ReadOptionalIntList, ReadOptionalStringList
<1>7. /\ NumberNode(d.family) /\ NumberNode(d.compute_capability)
      /\ SequenceNode(d.model) /\ SequenceNode(d.features) /\ SequenceNode(d.machine_ids)
  BY <1>5, <1>6 DEF DetectDocument
<1>8. /\ d.family = Missing \/ d.family \in Int
      /\ d.compute_capability = Missing \/ d.compute_capability \in Int
  BY <1>6, <1>7 DEF NumberNode
<1>9. /\ List(d.model) \in Seq(Range(List(d.model)))
      /\ List(d.features) \in Seq(Range(List(d.features)))
      /\ List(d.machine_ids) \in Seq(Range(List(d.machine_ids)))
  BY <1>6, <1>7, ListNode
<1> QED
  BY <1>8, <1>9 DEF DetectRead

LEMMA FieldList ==
    ASSUME NEW n \in Nat, NEW all, DOMAIN all = 1 .. n, NEW key,
           \A p \in 1 .. n : all[p].detect # Missing =>
               List(all[p].detect[key]) \in Seq(Range(List(all[p].detect[key]))),
           NEW p \in 1 .. n
    PROVE  LET f == DetectField(all, key, <<>>) IN
           Between(FlattenSeq(f), OffsetsOf(f), p) =
             IF all[p].detect = Missing THEN <<>> ELSE List(all[p].detect[key])
<1> DEFINE f == DetectField(all, key, <<>>)
           F(i) == IF all[i].detect = Missing \/ all[i].detect[key] = Missing THEN <<>>
                   ELSE all[i].detect[key]
<1>1. f = [i \in 1 .. n |-> F(i)]
  BY Zenon DEF DetectField
<1>2. \A i \in 1 .. n : F(i) = IF all[i].detect = Missing THEN <<>> ELSE List(all[i].detect[key])
  BY DEF List
<1> HIDE DEF f, F
<1>3. f = [i \in 1 .. n |-> f[i]] /\ \A i \in 1 .. n : f[i] = F(i)
  BY <1>1
<1>4. <<>> \in Seq(Range(<<>>))
  BY EmptySeq
<1>5. ASSUME NEW i \in 1 .. n PROVE f[i] \in Seq(Range(f[i]))
  <2>1. CASE all[i].detect = Missing
    <3>1. f[i] = <<>>
      BY <1>2, <1>3, <2>1
    <3> QED
      BY <1>4, <3>1
  <2>2. CASE all[i].detect # Missing
    <3>1. f[i] = List(all[i].detect[key])
      BY <1>2, <1>3, <2>2
    <3> QED
      BY <2>2, <3>1
  <2> QED
    BY <2>1, <2>2
<1>6. Between(FlattenSeq(f), OffsetsOf(f), p) = f[p]
  BY <1>3, <1>5, SliceOf
<1> QED
  BY <1>2, <1>3, <1>6 DEF f

\* What the tables of an architecture's criteria hold.
LEMMA DetectFields ==
    ASSUME NEW n \in Nat, NEW all, DOMAIN all = 1 .. n,
           \A p \in 1 .. n : DetectRead(all[p].detect), NEW p \in 1 .. n
    PROVE  LET t == DetectTables(all)
               d == all[p].detect
           IN /\ t.vendor[p] = IF d = Missing THEN "" ELSE Text(d.vendor)
              /\ t.metalFamily[p] = IF d = Missing THEN "" ELSE Text(d.metal_family)
              /\ t.family[p] = IF d = Missing \/ d.family = Missing THEN -1 ELSE d.family
              /\ t.computeCapability[p] =
                   IF d = Missing \/ d.compute_capability = Missing THEN -1 ELSE d.compute_capability
              /\ Between(t.models, t.modelOffsets, p) = IF d = Missing THEN <<>> ELSE List(d.model)
              /\ Between(t.features, t.featureOffsets, p) =
                   IF d = Missing THEN <<>> ELSE List(d.features)
              /\ Between(t.machineIds, t.machineIdOffsets, p) =
                   IF d = Missing THEN <<>> ELSE List(d.machine_ids)
<1> DEFINE t == DetectTables(all)
           d == all[p].detect
<1>1. /\ t.vendor = DetectField(all, "vendor", "")
      /\ t.metalFamily = DetectField(all, "metal_family", "")
      /\ t.family = DetectField(all, "family", -1)
      /\ t.computeCapability = DetectField(all, "compute_capability", -1)
      /\ t.modelOffsets = OffsetsOf(DetectField(all, "model", <<>>))
      /\ t.models = FlattenSeq(DetectField(all, "model", <<>>))
      /\ t.featureOffsets = OffsetsOf(DetectField(all, "features", <<>>))
      /\ t.features = FlattenSeq(DetectField(all, "features", <<>>))
      /\ t.machineIdOffsets = OffsetsOf(DetectField(all, "machine_ids", <<>>))
      /\ t.machineIds = FlattenSeq(DetectField(all, "machine_ids", <<>>))
  BY Zenon DEF DetectTables
<1>2. \A key, none : DetectField(all, key, none)[p] =
        IF d = Missing \/ d[key] = Missing THEN none ELSE d[key]
  BY DEF DetectField
<1>3. \A i \in 1 .. n : all[i].detect # Missing =>
        /\ List(all[i].detect.model) \in Seq(Range(List(all[i].detect.model)))
        /\ List(all[i].detect.features) \in Seq(Range(List(all[i].detect.features)))
        /\ List(all[i].detect.machine_ids) \in Seq(Range(List(all[i].detect.machine_ids)))
  BY DEF DetectRead
<1>4. Between(t.models, t.modelOffsets, p) = IF d = Missing THEN <<>> ELSE List(d.model)
  <2>1. \A i \in 1 .. n : all[i].detect # Missing =>
          List(all[i].detect["model"]) \in Seq(Range(List(all[i].detect["model"])))
    BY <1>3
  <2> DEFINE f == DetectField(all, "model", <<>>)
  <2>2. Between(FlattenSeq(f), OffsetsOf(f), p) =
          IF all[p].detect = Missing THEN <<>> ELSE List(all[p].detect["model"])
    BY <2>1, FieldList
  <2>3. t.modelOffsets = OffsetsOf(f) /\ t.models = FlattenSeq(f)
    BY <1>1
  <2> HIDE DEF t, f
  <2> QED
    BY <2>2, <2>3
<1>5. Between(t.features, t.featureOffsets, p) = IF d = Missing THEN <<>> ELSE List(d.features)
  <2>1. \A i \in 1 .. n : all[i].detect # Missing =>
          List(all[i].detect["features"]) \in Seq(Range(List(all[i].detect["features"])))
    BY <1>3
  <2> DEFINE f == DetectField(all, "features", <<>>)
  <2>2. Between(FlattenSeq(f), OffsetsOf(f), p) =
          IF all[p].detect = Missing THEN <<>> ELSE List(all[p].detect["features"])
    BY <2>1, FieldList
  <2>3. t.featureOffsets = OffsetsOf(f) /\ t.features = FlattenSeq(f)
    BY <1>1
  <2> HIDE DEF t, f
  <2> QED
    BY <2>2, <2>3
<1>6. Between(t.machineIds, t.machineIdOffsets, p) = IF d = Missing THEN <<>> ELSE List(d.machine_ids)
  <2>1. \A i \in 1 .. n : all[i].detect # Missing =>
          List(all[i].detect["machine_ids"]) \in Seq(Range(List(all[i].detect["machine_ids"])))
    BY <1>3
  <2> DEFINE f == DetectField(all, "machine_ids", <<>>)
  <2>2. Between(FlattenSeq(f), OffsetsOf(f), p) =
          IF all[p].detect = Missing THEN <<>> ELSE List(all[p].detect["machine_ids"])
    BY <2>1, FieldList
  <2>3. t.machineIdOffsets = OffsetsOf(f) /\ t.machineIds = FlattenSeq(f)
    BY <1>1
  <2> HIDE DEF t, f
  <2> QED
    BY <2>2, <2>3
<1> HIDE DEF t
<1>7. /\ t.vendor[p] = IF d = Missing THEN "" ELSE Text(d.vendor)
      /\ t.metalFamily[p] = IF d = Missing THEN "" ELSE Text(d.metal_family)
  BY <1>1, <1>2 DEF Text
<1>8. /\ t.family[p] = IF d = Missing \/ d.family = Missing THEN -1 ELSE d.family
      /\ t.computeCapability[p] =
           IF d = Missing \/ d.compute_capability = Missing THEN -1 ELSE d.compute_capability
  BY <1>1, <1>2
<1> QED
  BY <1>4, <1>5, <1>6, <1>7, <1>8 DEF t

\* The tables decide as the document does.
LEMMA MatchesDocument ==
    ASSUME NEW n \in Nat, NEW all, DOMAIN all = 1 .. n,
           \A p \in 1 .. n : DetectRead(all[p].detect),
           NEW t, t.detect = DetectTables(all), NEW b \in 0 .. n - 1,
           NEW a, all[b + 1].detect = MetadataOf(a, "detect"),
           NEW host, host.execution \in {"Cpu", "Cuda", "Mps"}
    PROVE  Matches(t, b, host) <=> DocumentMatches(a, host)
<1> DEFINE p == b + 1
           d == MetadataOf(a, "detect")
           D == DetectTables(all)
           vendor == D.vendor[p]
           metal == D.metalFamily[p]
           family == D.family[p]
           cc == D.computeCapability[p]
           models == Between(D.models, D.modelOffsets, p)
           features == Between(D.features, D.featureOffsets, p)
           ids == Between(D.machineIds, D.machineIdOffsets, p)
<1>1. p \in 1 .. n
  OBVIOUS
<1>2. /\ vendor = IF d = Missing THEN "" ELSE Text(d.vendor)
      /\ metal = IF d = Missing THEN "" ELSE Text(d.metal_family)
      /\ family = IF d = Missing \/ d.family = Missing THEN -1 ELSE d.family
      /\ cc = IF d = Missing \/ d.compute_capability = Missing THEN -1 ELSE d.compute_capability
      /\ models = IF d = Missing THEN <<>> ELSE List(d.model)
      /\ features = IF d = Missing THEN <<>> ELSE List(d.features)
      /\ ids = IF d = Missing THEN <<>> ELSE List(d.machine_ids)
  <2> HIDE DEF p
  <2>1. /\ vendor = IF all[p].detect = Missing THEN "" ELSE Text(all[p].detect.vendor)
        /\ metal = IF all[p].detect = Missing THEN "" ELSE Text(all[p].detect.metal_family)
        /\ family = IF all[p].detect = Missing \/ all[p].detect.family = Missing THEN -1
                    ELSE all[p].detect.family
        /\ cc = IF all[p].detect = Missing \/ all[p].detect.compute_capability = Missing THEN -1
                ELSE all[p].detect.compute_capability
        /\ models = IF all[p].detect = Missing THEN <<>> ELSE List(all[p].detect.model)
        /\ features = IF all[p].detect = Missing THEN <<>> ELSE List(all[p].detect.features)
        /\ ids = IF all[p].detect = Missing THEN <<>> ELSE List(all[p].detect.machine_ids)
    BY <1>1, DetectFields
  <2>2. all[p].detect = d
    BY DEF p
  <2> HIDE DEF d, D, vendor, metal, family, cc, models, features, ids
  <2> QED
    BY <2>1, <2>2
<1>3. DetectRead(d)
  BY <1>1
<1> DEFINE cpu == /\ family >= 0 => family = host.family
                  /\ matchesCpuModels(host, models)
                  /\ hasAllFeatures(host, features)
                  /\ matchesMachineId(host, ids)
           cuda == cc >= 0 => cc = host.compute_capability
           mps == metal = "" \/ toLowerCopy(metal) = host.metal_family
<1>4. Matches(t, b, host) <=>
        /\ matchesVendor(vendor, host)
        /\ host.execution = "Cpu" => cpu
        /\ host.execution = "Cuda" => cuda
        /\ host.execution = "Mps" => mps
  <2>1. CASE host.execution = "Cpu"
    BY <2>1, Zenon DEF Matches, matchesDetectSpec
  <2>2. CASE host.execution = "Cuda"
    BY <2>2, Zenon DEF Matches, matchesCuda
  <2>3. CASE host.execution = "Mps"
    BY <2>3, Zenon DEF Matches, matchesMps
  <2> QED
    BY <2>1, <2>2, <2>3
<1> DEFINE docCpu == /\ d.family \in Nat => d.family = host.family
                     /\ List(d.model) # <<>> => host.model \in Range(d.model)
                     /\ {toLowerCopy(f) : f \in Range(List(d.features))} \subseteq host.features
                     /\ List(d.machine_ids) # <<>> =>
                          host.machine_id \in {toLowerCopy(id) : id \in Range(d.machine_ids)}
           docCuda == d.compute_capability \in Nat => d.compute_capability = host.compute_capability
           docMps == Text(d.metal_family) = "" \/ toLowerCopy(d.metal_family) = host.metal_family
           docVendor == Text(d.vendor) # "" => toLowerCopy(d.vendor) = host.vendor
<1>5. DocumentMatches(a, host) <=>
        \/ d = Missing
        \/ /\ docVendor
           /\ host.execution = "Cpu" => docCpu
           /\ host.execution = "Cuda" => docCuda
           /\ host.execution = "Mps" => docMps
  BY Zenon DEF DocumentMatches
<1> HIDE DEF d, vendor, metal, family, cc, models, features, ids, p, D
<1>6. CASE d = Missing
  <2>1. vendor = "" /\ metal = "" /\ family = -1 /\ cc = -1 /\ models = <<>> /\ features = <<>> /\ ids = <<>>
    BY <1>2, <1>6
  <2>4. ~ (cc >= 0) /\ ~ (family >= 0)
    <3>1. ~ (-1 >= 0)
      OBVIOUS
    <3> QED
      BY <2>1, <3>1, Zenon
  <2>2. matchesVendor(vendor, host) /\ mps /\ cuda
    BY <2>1, <2>4, Zenon DEF matchesVendor
  <2>5. \A i \in DOMAIN features : FALSE
    <3>1. DOMAIN <<>> = {}
      OBVIOUS
    <3> QED
      BY <2>1, <3>1, Zenon
  <2>6. hasAllFeatures(host, features)
    BY <2>5, Zenon DEF hasAllFeatures
  <2>7. matchesCpuModels(host, models) /\ matchesMachineId(host, ids)
    BY <2>1, Zenon DEF matchesCpuModels, matchesMachineId
  <2>3. cpu
    BY <2>4, <2>6, <2>7
  <2> HIDE DEF cpu, cuda, mps
  <2> QED
    BY <1>4, <1>5, <1>6, <2>2, <2>3
<1>7. CASE d # Missing
  <2>1. matchesVendor(vendor, host) <=> docVendor
    BY <1>2, <1>7 DEF matchesVendor, Text
  <2>2. mps <=> docMps
    BY <1>2, <1>7 DEF Text
  <2>3. cuda <=> docCuda
    BY <1>2, <1>3, <1>7, MissingAssumption DEF DetectRead
  <2>4. (family >= 0 => family = host.family) <=> (d.family \in Nat => d.family = host.family)
    BY <1>2, <1>3, <1>7, MissingAssumption DEF DetectRead
  <2>5. matchesCpuModels(host, models) <=> (List(d.model) # <<>> => host.model \in Range(d.model))
    BY <1>2, <1>7 DEF matchesCpuModels, List, Range
  <2>6. hasAllFeatures(host, features) <=>
          {toLowerCopy(f) : f \in Range(List(d.features))} \subseteq host.features
    BY <1>2, <1>7 DEF hasAllFeatures, Range
  <2>7. matchesMachineId(host, ids) <=>
          (List(d.machine_ids) # <<>> =>
             host.machine_id \in {toLowerCopy(id) : id \in Range(d.machine_ids)})
    BY <1>2, <1>7 DEF matchesMachineId, List, Range
  <2>8. cpu <=> docCpu
    BY <2>4, <2>5, <2>6, <2>7
  <2> HIDE DEF cpu, cuda, mps, docCpu, docCuda, docMps, docVendor
  <2> QED
    BY <1>4, <1>5, <1>7, <2>1, <2>2, <2>3, <2>8
<1> QED
  BY <1>6, <1>7

LEMMA DetectFollows ==
    ASSUME NEW doc, NEW execs, ArchitectureDocument(doc), ExecutionDocument(execs),
           ArchitecturesAccepted(doc, execs),
           NEW host, host.execution \in {"Cpu", "Cuda", "Mps"},
           host.execution \in Range(ExecutionIds(execs))
    PROVE  LET t == ArchitectureTables(doc, execs)
               found == Detect(t, IndexOf(ExecutionIds(execs), host.execution), host)
               entries == Range(EntriesOf(doc, host.execution))
           IN IF localIndexOf(t, found) = 0
              THEN \A a \in entries : ~ DocumentMatches(a, host)
              ELSE \E a \in entries : a.id = t.id[found + 1] /\ DocumentMatches(a, host)
<1> DEFINE t == ArchitectureTables(doc, execs)
           all == Resolved(doc, execs)
           n == Len(execs.executions)
           ids == ExecutionIds(execs)
           e == IndexOf(ids, host.execution) + 1
           s == EntriesOf(doc, host.execution)
           m == Len(s)
<1>1. /\ IsMappingSequence(doc.architectures) /\ IsMappingSequence(execs.executions)
      /\ ParseArchitectureConfig(doc, execs)
  BY Zenon DEF ArchitecturesAccepted, ParseExecutionConfig, ParseArchitectureConfig
<1>2. n \in Nat /\ DOMAIN execs.executions = 1 .. n /\ DOMAIN ids = 1 .. n
      /\ \A f \in 1 .. n : ids[f] = execs.executions[f].id
  BY <1>1, ExecutionsKnown
<1>3. PICK off \in [0 .. n -> Nat] : Placed(off, doc, execs)
  BY <1>1, ResolvedFacts
<1>4. e \in 1 .. n /\ ids[e] = host.execution /\ execs.executions[e].id = host.execution
      /\ IndexOf(ids, host.execution) = e - 1
  <2>1. IndexOf(ids, host.execution) \in 0 .. n - 1 /\ ids[e] = host.execution
    <3>1. host.execution \in Range(ids)
      OBVIOUS
    <3> HIDE DEF ids, n
    <3> QED
      BY <1>2, <3>1, IndexOfFacts
  <2>2. e \in 1 .. n /\ IndexOf(ids, host.execution) = e - 1
    BY <1>2, <2>1
  <2> QED
    BY <1>2, <2>1, <2>2
<1>5. /\ m \in Nat /\ DOMAIN s = 1 .. m
      /\ \A k \in 1 .. m : \E i \in DOMAIN doc.architectures : s[k] = doc.architectures[i]
  BY <1>1, EntriesFacts
<1>6. m = Own(doc, execs, e)
  BY <1>4 DEF Own
<1>7. n \in 0 .. n /\ off[n] \in Nat /\ DOMAIN all = 1 .. off[n] /\ t.count = off[n]
      /\ t.detect = DetectTables(all)
  <2>1. n \in 0 .. n
    BY <1>2
  <2>2. off[n] \in Nat /\ DOMAIN all = 1 .. off[n] /\ Len(all) = off[n]
    BY <1>3, <2>1 DEF Placed
  <2> QED
    BY <2>1, <2>2, Zenon DEF ArchitectureTables
<1>8. ASSUME NEW p \in 1 .. off[n] PROVE DetectRead(all[p].detect)
  <2>1. PICK f \in 1 .. n : \E k \in 0 .. Own(doc, execs, f) : p = off[f - 1] + k + 1
    BY <1>3 DEF Placed
  <2>2. PICK k \in 0 .. Own(doc, execs, f) : p = off[f - 1] + k + 1
    BY <2>1
  <2>3. all[p] = ArchitectureAt(doc, execs, f, k)
    BY <1>3, <2>2 DEF Placed
  <2>4. CASE k = 0
    BY <2>3, <2>4 DEF ArchitectureAt, DetectRead
  <2>5. CASE k # 0
    <3> DEFINE r == EntriesOf(doc, execs.executions[f].id)
    <3>1. Len(r) \in Nat /\ \A j \in 1 .. Len(r) : \E i \in DOMAIN doc.architectures : r[j] = doc.architectures[i]
      BY <1>1, EntriesFacts
    <3>2. k \in 1 .. Len(r)
      BY <2>5, <3>1 DEF Own
    <3>3. PICK i \in DOMAIN doc.architectures : r[k] = doc.architectures[i]
      BY <3>1, <3>2
    <3>4. all[p].detect = MetadataOf(r[k], "detect")
      BY <2>3, <2>5 DEF ArchitectureAt
    <3> QED
      BY <1>1, <3>3, <3>4, DetectKnown
  <2> QED
    BY <2>4, <2>5
\* The places of the execution's own architectures.
<1>9. ASSUME NEW k \in 1 .. m
      PROVE  LET b == off[e - 1] + k IN
             /\ b \in 0 .. t.count - 1 /\ localIndexOf(t, b) = k /\ executionOf(t, b) = e - 1
             /\ t.id[b + 1] = s[k].id
             /\ Matches(t, b, host) <=> DocumentMatches(s[k], host)
  <2> DEFINE b == off[e - 1] + k
  <2>1. k \in 0 .. Own(doc, execs, e) /\ k # 0
    BY <1>5, <1>6
  <2>2. /\ b \in 0 .. t.count - 1 /\ b \in Nat /\ t.id[b + 1] = ArchitectureAt(doc, execs, e, k).id
        /\ t.execution[b + 1] = e - 1 /\ t.local[b + 1] = k
    <3> HIDE DEF t, e, n, s, m, all, ids
    <3> QED
      BY <1>2, <1>3, <1>4, <2>1, TableAt DEF t, n
  <2>3. all[b + 1] = ArchitectureAt(doc, execs, e, k)
    BY <1>3, <1>4, <2>1 DEF Placed
  <2>4. ArchitectureAt(doc, execs, e, k).id = s[k].id
        /\ ArchitectureAt(doc, execs, e, k).detect = MetadataOf(s[k], "detect")
    BY <1>4, <2>1 DEF ArchitectureAt
  <2> HIDE DEF b, t, all, s, e, n
  <2>5. Matches(t, b, host) <=> DocumentMatches(s[k], host)
    <3>1. b \in 0 .. off[n] - 1 /\ all[b + 1].detect = MetadataOf(s[k], "detect")
      BY <1>7, <2>2, <2>3, <2>4
    <3> QED
      BY <1>7, <1>8, <3>1, MatchesDocument
  <2> QED
    BY <2>2, <2>4, <2>5 DEF b, localIndexOf, executionOf
<1>10. ASSUME NEW b \in 0 .. t.count - 1, localIndexOf(t, b) # 0, executionOf(t, b) = e - 1
       PROVE  \E k \in 1 .. m : b = off[e - 1] + k
  <2>1. b + 1 \in 1 .. off[n]
    BY <1>7
  <2>2. PICK f \in 1 .. n : \E k \in 0 .. Own(doc, execs, f) : b + 1 = off[f - 1] + k + 1
    BY <1>3, <2>1 DEF Placed
  <2>3. PICK k \in 0 .. Own(doc, execs, f) : b + 1 = off[f - 1] + k + 1
    BY <2>2
  <2>4. Own(doc, execs, f) \in Nat /\ off[f - 1] \in Nat
    <3>1. f - 1 \in 0 .. n
      BY <1>2
    <3>2. Own(doc, execs, f) \in Nat
      BY <1>3 DEF Placed
    <3> QED
      BY <3>1, <3>2
  <2>5. b = off[f - 1] + k
    BY <2>3, <2>4
  <2>6. t.execution[b + 1] = f - 1 /\ t.local[b + 1] = k
    BY <1>2, <1>3, <2>5, TableAt
  <2> HIDE DEF t, e, n, m
  <2>7. f = e /\ k # 0
    BY <1>4, <1>10, <2>6 DEF executionOf, localIndexOf
  <2>8. k \in 1 .. m
    BY <1>6, <2>4, <2>7
  <2> QED
    BY <2>5, <2>7, <2>8
<1>11. fromExecutionAndLocalIndex(t, e - 1, 0) = off[e - 1] /\ localIndexOf(t, off[e - 1]) = 0
  <2>1. 0 \in 0 .. Own(doc, execs, e)
    BY <1>5, <1>6
  <2>2. off[e - 1] \in Nat
    <3>1. e - 1 \in 0 .. n
      BY <1>2, <1>4
    <3> QED
      BY <3>1
  <2>3. off[e - 1] + 0 = off[e - 1]
    BY <2>2
  <2>4. fromExecutionAndLocalIndex(t, e - 1, 0) = off[e - 1] + 0 /\ t.local[off[e - 1] + 0 + 1] = 0
    BY <1>2, <1>3, <1>4, <2>1, TableAt
  <2> HIDE DEF t, e
  <2> QED
    BY <2>3, <2>4 DEF localIndexOf
<1> DEFINE found == {a \in 0 .. (t.count - 1) :
                       localIndexOf(t, a) # 0 /\ executionOf(t, a) = e - 1 /\ Matches(t, a, host)}
           r == Detect(t, e - 1, host)
<1>12. r = IF found = {} THEN fromExecutionAndLocalIndex(t, e - 1, 0) ELSE Min(found)
  BY Zenon DEF Detect
<1> HIDE DEF t, e, n, m, s, all, ids, r
<1>13. CASE found = {}
  <2>1. localIndexOf(t, r) = 0
    BY <1>11, <1>12, <1>13
  <2>2. ASSUME NEW a \in Range(s) PROVE ~ DocumentMatches(a, host)
    <3>1. PICK k \in 1 .. m : a = s[k]
      BY <1>5 DEF Range
    <3> DEFINE b == off[e - 1] + k
    <3>2. /\ b \in 0 .. t.count - 1 /\ localIndexOf(t, b) = k /\ executionOf(t, b) = e - 1
          /\ Matches(t, b, host) <=> DocumentMatches(s[k], host)
      BY <1>9
    <3>3. k # 0
      BY <1>5
    <3> HIDE DEF b
    <3>4. b \notin found
      BY <1>13
    <3> QED
      BY <3>1, <3>2, <3>3, <3>4
  <2> QED
    BY <1>4, <2>1, <2>2 DEF s, r, t, ids
<1>14. CASE found # {}
  <2>1. Min(found) \in found
    <3>1. found \in SUBSET Nat
      BY <1>7
    <3> HIDE DEF found
    <3>2. \E x \in found : \A y \in found : x <= y
      BY <1>14, <3>1, LeastNat
    <3> QED
      BY <3>2 DEF Min
  <2>2. r \in found
    BY <1>12, <1>14, <2>1
  <2>3. /\ r \in 0 .. t.count - 1 /\ localIndexOf(t, r) # 0 /\ executionOf(t, r) = e - 1
        /\ Matches(t, r, host)
    BY <2>2
  <2>4. PICK k \in 1 .. m : r = off[e - 1] + k
    BY <1>10, <2>3
  <2>5. t.id[r + 1] = s[k].id /\ DocumentMatches(s[k], host)
    BY <1>9, <2>3, <2>4
  <2>6. s[k] \in Range(s)
    BY <1>5 DEF Range
  <2> QED
    BY <1>4, <2>3, <2>5, <2>6 DEF s, r, t, ids
<1> QED
  BY <1>13, <1>14

\* Detection answers with an architecture whose criteria in the document the
\* host meets, and with the generic one only if the host meets none: the tables
\* of criteria and their offsets lose nothing, for every host and document.
THEOREM DetectionAlwaysFollows == Spec => []DetectionFollowsDocument
<1>1. ASSUME BuildInv, Built PROVE DetectionFollowsDocument
  <2>1. /\ ArchitecturesAccepted(yaml.architectures, yaml.executions)
        /\ files.architectures.tables = ArchitectureTables(yaml.architectures, yaml.executions)
        /\ files.executions.def = ExecutionIds(yaml.executions)
    BY <1>1, BuiltFiles, SectionsAre DEF Accepted, Tables, Def, ExecutionDef
  <2>2. ArchitectureDocument(yaml.architectures) /\ ExecutionDocument(yaml.executions)
    BY <1>1, SectionsAre DEF BuildInv, DocumentsKnown, Document
  <2>3. ASSUME NEW host \in Hosts, host.execution \in Range(files.executions.def)
        PROVE  LET t == files.architectures.tables
                   found == Detect(t, IndexOf(files.executions.def, host.execution), host)
                   entries == Range(EntriesOf(yaml.architectures, host.execution))
               IN IF localIndexOf(t, found) = 0
                  THEN \A a \in entries : ~ DocumentMatches(a, host)
                  ELSE \E a \in entries : a.id = t.id[found + 1] /\ DocumentMatches(a, host)
    <3>1. host.execution \in {"Cpu", "Cuda", "Mps"}
      BY HostsAssumption
    <3> QED
      BY <2>1, <2>2, <2>3, <3>1, DetectFollows
  <2> QED
    BY <2>3, Zenon DEF DetectionFollowsDocument
<1>2. BuildInv => DetectionFollowsDocument
  BY <1>1 DEF DetectionFollowsDocument
<1> QED
  BY <1>2, BuildInvariant, PTL
-----------------------------------------------------------------------------
(* Operators *)

LEMMA OpKnown ==
    ASSUME NEW doc, NEW dtypes, OpDocument(doc), OpsAccepted(doc, dtypes)
    PROVE  /\ Len(doc.ops) \in Nat /\ DOMAIN doc.ops = 1 .. Len(doc.ops)
           /\ \A i \in 1 .. Len(doc.ops) : LET op == doc.ops[i] IN
                /\ op.inputs \in Seq(Range(op.inputs)) /\ op.outputs \in Seq(Range(op.outputs))
                /\ List(op.attributes) \in Seq(Range(List(op.attributes)))
                /\ op.metadata # Missing =>
                     /\ List(op.metadata.tags) \in Seq(Range(List(op.metadata.tags)))
                     /\ List(op.metadata.aliases) \in Seq(Range(List(op.metadata.aliases)))
                /\ OpAccepted(dtypes, doc.catalogs, op)
<1> DEFINE n == Len(doc.ops)
<1>1. IsMappingSequence(doc.ops)
  BY Zenon DEF OpsAccepted, ParseOpsFile
<1>2. n \in Nat /\ DOMAIN doc.ops = 1 .. n /\ \A i \in 1 .. n : doc.ops[i] # Malformed
  BY <1>1, NodeIsSequence DEF OpDocument, IsMappingSequence
<1>3. ASSUME NEW i \in 1 .. n
      PROVE  LET op == doc.ops[i] IN
             /\ op.inputs \in Seq(Range(op.inputs)) /\ op.outputs \in Seq(Range(op.outputs))
             /\ List(op.attributes) \in Seq(Range(List(op.attributes)))
             /\ op.metadata # Missing =>
                  /\ List(op.metadata.tags) \in Seq(Range(List(op.metadata.tags)))
                  /\ List(op.metadata.aliases) \in Seq(Range(List(op.metadata.aliases)))
             /\ OpAccepted(dtypes, doc.catalogs, op)
  <2> DEFINE op == doc.ops[i]
  <2>1. /\ SequenceNode(op.inputs) /\ SequenceNode(op.outputs) /\ SequenceNode(op.attributes)
        /\ op.metadata \notin {Missing, Malformed} =>
             SequenceNode(op.metadata.tags) /\ SequenceNode(op.metadata.aliases)
    BY <1>1, <1>2 DEF OpDocument, IsMappingSequence
  <2>2. /\ Missing \notin {op.inputs, op.outputs}
        /\ Malformed \notin {op.inputs, op.outputs, op.attributes}
        /\ ParseMetadata(op.metadata)
    BY <1>2, Zenon DEF OpsAccepted, ParseOpsFile
  <2>3. OpAccepted(dtypes, doc.catalogs, op)
    BY <1>2, Zenon DEF OpsAccepted
  <2> HIDE DEF op
  <2>4. op.metadata # Missing =>
          /\ op.metadata # Malformed
          /\ op.metadata.tags # Missing => op.metadata.tags # Malformed
          /\ op.metadata.aliases # Missing => op.metadata.aliases # Malformed
    BY <2>2 DEF ParseMetadata, ReadStringList
  <2>5. op.inputs \in Seq(Range(op.inputs)) /\ op.outputs \in Seq(Range(op.outputs))
    BY <2>1, <2>2, NodeIsSequence
  <2>6. List(op.attributes) \in Seq(Range(List(op.attributes)))
    BY <2>1, <2>2, ListNode
  <2>7. op.metadata # Missing =>
          /\ List(op.metadata.tags) \in Seq(Range(List(op.metadata.tags)))
          /\ List(op.metadata.aliases) \in Seq(Range(List(op.metadata.aliases)))
    BY <2>1, <2>4, ListNode
  <2> QED
    BY <2>3, <2>5, <2>6, <2>7 DEF op
<1> QED
  BY <1>2, <1>3

\* The slices of an op are its own lists.
LEMMA OpSlices ==
    ASSUME NEW doc, NEW dtypes, OpDocument(doc), OpsAccepted(doc, dtypes), NEW i \in DOMAIN doc.ops
    PROVE  LET t == OpTables(doc, dtypes)
               op == doc.ops[i]
           IN /\ inputsOf(t, i) = [j \in DOMAIN op.inputs |-> InputSpec(dtypes, op, op.inputs[j])]
              /\ outputsOf(t, i) = [j \in DOMAIN op.outputs |-> OutputSpec(dtypes, op, op.outputs[j])]
              /\ attributesOf(t, i) = [j \in DOMAIN List(op.attributes) |-> AttributeSpec(op.attributes[j])]
              /\ op.metadata # Missing => /\ tagsOf(t, i) = List(op.metadata.tags)
                                          /\ aliasesOf(t, i) = List(op.metadata.aliases)
<1> DEFINE n == Len(doc.ops)
           t == OpTables(doc, dtypes)
           Ins == InputLists(doc, dtypes)
           Outs == OutputLists(doc, dtypes)
           Attrs == AttributeLists(doc)
           Tags == MetadataList(doc, "tags")
           Aliases == MetadataList(doc, "aliases")
           in(k) == [j \in DOMAIN doc.ops[k].inputs |->
                       InputSpec(dtypes, doc.ops[k], doc.ops[k].inputs[j])]
           out(k) == [j \in DOMAIN doc.ops[k].outputs |->
                       OutputSpec(dtypes, doc.ops[k], doc.ops[k].outputs[j])]
           attr(k) == [j \in DOMAIN List(doc.ops[k].attributes) |->
                       AttributeSpec(doc.ops[k].attributes[j])]
           meta(k, key) == IF doc.ops[k].metadata = Missing THEN <<>> ELSE List(doc.ops[k].metadata[key])
<1>1. n \in Nat /\ DOMAIN doc.ops = 1 .. n
  BY OpKnown
<1>2. ASSUME NEW k \in 1 .. n
      PROVE  in(k) \in Seq(Range(in(k))) /\ out(k) \in Seq(Range(out(k)))
             /\ attr(k) \in Seq(Range(attr(k)))
             /\ meta(k, "tags") \in Seq(Range(meta(k, "tags")))
             /\ meta(k, "aliases") \in Seq(Range(meta(k, "aliases")))
  <2> DEFINE op == doc.ops[k]
  <2>1. /\ op.inputs \in Seq(Range(op.inputs)) /\ op.outputs \in Seq(Range(op.outputs))
        /\ List(op.attributes) \in Seq(Range(List(op.attributes)))
        /\ op.metadata # Missing =>
             /\ List(op.metadata.tags) \in Seq(Range(List(op.metadata.tags)))
             /\ List(op.metadata.aliases) \in Seq(Range(List(op.metadata.aliases)))
    BY <1>1, OpKnown
  <2>2. ASSUME NEW s, s \in Seq(Range(s)), NEW f, DOMAIN f = DOMAIN s, f = [j \in DOMAIN f |-> f[j]]
        PROVE  f \in Seq(Range(f))
    <3>1. Len(s) \in Nat /\ DOMAIN s = 1 .. Len(s)
      BY <2>2, LenProperties
    <3> QED
      BY <2>2, <3>1, SequenceOf
  <2>3. in(k) \in Seq(Range(in(k)))
    <3>1. DOMAIN in(k) = DOMAIN op.inputs /\ in(k) = [j \in DOMAIN in(k) |-> in(k)[j]]
      OBVIOUS
    <3> HIDE DEF in
    <3> QED
      BY <2>1, <2>2, <3>1
  <2>4. out(k) \in Seq(Range(out(k)))
    <3>1. DOMAIN out(k) = DOMAIN op.outputs /\ out(k) = [j \in DOMAIN out(k) |-> out(k)[j]]
      OBVIOUS
    <3> HIDE DEF out
    <3> QED
      BY <2>1, <2>2, <3>1
  <2>5. attr(k) \in Seq(Range(attr(k)))
    <3>1. DOMAIN attr(k) = DOMAIN List(op.attributes) /\ attr(k) = [j \in DOMAIN attr(k) |-> attr(k)[j]]
      OBVIOUS
    <3> HIDE DEF attr
    <3> QED
      BY <2>1, <2>2, <3>1
  <2>6. <<>> \in Seq(Range(<<>>))
    BY EmptySeq
  <2>7. meta(k, "tags") \in Seq(Range(meta(k, "tags")))
    <3>1. CASE op.metadata = Missing
      BY <2>6, <3>1
    <3>2. CASE op.metadata # Missing
      BY <2>1, <3>2
    <3> QED
      BY <3>1, <3>2
  <2>8. meta(k, "aliases") \in Seq(Range(meta(k, "aliases")))
    <3>1. CASE op.metadata = Missing
      BY <2>6, <3>1
    <3>2. CASE op.metadata # Missing
      BY <2>1, <3>2
    <3> QED
      BY <3>1, <3>2
  <2> QED
    BY <2>3, <2>4, <2>5, <2>7, <2>8
<1>3. /\ Ins = [k \in 1 .. n |-> in(k)] /\ Outs = [k \in 1 .. n |-> out(k)]
      /\ Attrs = [k \in 1 .. n |-> attr(k)]
      /\ Tags = [k \in 1 .. n |-> meta(k, "tags")] /\ Aliases = [k \in 1 .. n |-> meta(k, "aliases")]
  BY <1>1, Zenon DEF InputLists, OutputLists, AttributeLists, MetadataList
<1>4. /\ t.inputRanges = Ranges(Ins) /\ t.inputs = FlattenSeq(Ins)
      /\ t.outputRanges = Ranges(Outs) /\ t.outputs = FlattenSeq(Outs)
      /\ t.attributeRanges = Ranges(Attrs) /\ t.attributes = FlattenSeq(Attrs)
      /\ t.tagRanges = Ranges(Tags) /\ t.tags = FlattenSeq(Tags)
      /\ t.aliasRanges = Ranges(Aliases) /\ t.aliases = FlattenSeq(Aliases)
  BY Zenon DEF OpTables
<1> HIDE DEF n, t, Ins, Outs, Attrs, Tags, Aliases, in, out, attr, meta
<1>5. /\ Ins = [k \in 1 .. n |-> Ins[k]] /\ Outs = [k \in 1 .. n |-> Outs[k]]
      /\ Attrs = [k \in 1 .. n |-> Attrs[k]]
      /\ Tags = [k \in 1 .. n |-> Tags[k]] /\ Aliases = [k \in 1 .. n |-> Aliases[k]]
      /\ \A k \in 1 .. n : /\ Ins[k] = in(k) /\ Outs[k] = out(k) /\ Attrs[k] = attr(k)
                           /\ Tags[k] = meta(k, "tags") /\ Aliases[k] = meta(k, "aliases")
  BY <1>3
<1>6. i \in 1 .. n
  BY <1>1
<1>7. inputsOf(t, i) = in(i)
  <2>1. Ins = [k \in 1 .. n |-> Ins[k]] /\ \A k \in 1 .. n : Ins[k] \in Seq(Range(Ins[k]))
    BY <1>2, <1>5
  <2>2. slice(FlattenSeq(Ins), Ranges(Ins)[i]) = Ins[i]
    BY <1>1, <1>6, <2>1, SliceOf
  <2> QED
    BY <1>4, <1>5, <1>6, <2>2 DEF inputsOf
<1>8. outputsOf(t, i) = out(i)
  <2>1. Outs = [k \in 1 .. n |-> Outs[k]] /\ \A k \in 1 .. n : Outs[k] \in Seq(Range(Outs[k]))
    BY <1>2, <1>5
  <2>2. slice(FlattenSeq(Outs), Ranges(Outs)[i]) = Outs[i]
    BY <1>1, <1>6, <2>1, SliceOf
  <2> QED
    BY <1>4, <1>5, <1>6, <2>2 DEF outputsOf
<1>9. attributesOf(t, i) = attr(i)
  <2>1. Attrs = [k \in 1 .. n |-> Attrs[k]] /\ \A k \in 1 .. n : Attrs[k] \in Seq(Range(Attrs[k]))
    BY <1>2, <1>5
  <2>2. slice(FlattenSeq(Attrs), Ranges(Attrs)[i]) = Attrs[i]
    BY <1>1, <1>6, <2>1, SliceOf
  <2> QED
    BY <1>4, <1>5, <1>6, <2>2 DEF attributesOf
<1>10. tagsOf(t, i) = meta(i, "tags")
  <2>1. Tags = [k \in 1 .. n |-> Tags[k]] /\ \A k \in 1 .. n : Tags[k] \in Seq(Range(Tags[k]))
    BY <1>2, <1>5
  <2>2. slice(FlattenSeq(Tags), Ranges(Tags)[i]) = Tags[i]
    BY <1>1, <1>6, <2>1, SliceOf
  <2> QED
    BY <1>4, <1>5, <1>6, <2>2 DEF tagsOf
<1>11. aliasesOf(t, i) = meta(i, "aliases")
  <2>1. Aliases = [k \in 1 .. n |-> Aliases[k]] /\ \A k \in 1 .. n : Aliases[k] \in Seq(Range(Aliases[k]))
    BY <1>2, <1>5
  <2>2. slice(FlattenSeq(Aliases), Ranges(Aliases)[i]) = Aliases[i]
    BY <1>1, <1>6, <2>1, SliceOf
  <2> QED
    BY <1>4, <1>5, <1>6, <2>2 DEF aliasesOf
<1> QED
  BY <1>7, <1>8, <1>9, <1>10, <1>11 DEF t, in, out, attr, meta

LEMMA CatalogLoaded ==
    ASSUME NEW dtypes, DTypeDocument(dtypes), LoadDTypeCatalog(dtypes)
    PROVE  /\ Len(dtypes.dtypes) \in Nat /\ DOMAIN dtypes.dtypes = 1 .. Len(dtypes.dtypes)
           /\ DOMAIN DTypeIds(dtypes) = 1 .. Len(dtypes.dtypes)
           /\ \A k \in 1 .. Len(dtypes.dtypes) : DTypeIds(dtypes)[k] = dtypes.dtypes[k].id
           /\ IsInjective(DTypeIds(dtypes))
<1>1. IsMappingSequence(dtypes.dtypes) /\ IsInjective(DTypeIds(dtypes))
  BY DEF LoadDTypeCatalog
<1>2. Len(dtypes.dtypes) \in Nat /\ DOMAIN dtypes.dtypes = 1 .. Len(dtypes.dtypes)
  BY <1>1, NodeIsSequence DEF DTypeDocument, IsMappingSequence
<1> QED
  BY <1>1, <1>2 DEF DTypeIds

\* The dtypes listed by name and by category are those of the mask.
LEMMA MaskMeans ==
    ASSUME NEW dtypes, DTypeDocument(dtypes), LoadDTypeCatalog(dtypes),
           NEW names, KnownDTypes(dtypes, names), NEW categories
    PROVE  LET mask == MaskForDTypes(dtypes, names) \cup MaskForCategories(dtypes, categories) IN
           /\ mask \in SUBSET AllMask(dtypes)
           /\ DTypesOfMask(DTypeIds(dtypes), mask) =
                Range(List(names)) \cup
                {dtypes.dtypes[i].id : i \in {k \in DOMAIN dtypes.dtypes :
                    OrElse(dtypes.dtypes[k].category, "unknown") \in Range(List(categories))}}
<1> DEFINE n == Len(dtypes.dtypes)
           ids == DTypeIds(dtypes)
           N == Range(List(names))
           C == Range(List(categories))
           cat(k) == OrElse(dtypes.dtypes[k].category, "unknown")
           M == MaskForDTypes(dtypes, names)
           K == MaskForCategories(dtypes, categories)
           I == {k \in DOMAIN dtypes.dtypes : cat(k) \in C}
<1>1. /\ n \in Nat /\ DOMAIN dtypes.dtypes = 1 .. n /\ DOMAIN ids = 1 .. n
      /\ \A k \in 1 .. n : ids[k] = dtypes.dtypes[k].id
      /\ \A id \in Range(ids) : IndexOf(ids, id) \in 0 .. n - 1 /\ ids[IndexOf(ids, id) + 1] = id
  <2>1. /\ n \in Nat /\ DOMAIN dtypes.dtypes = 1 .. n /\ DOMAIN ids = 1 .. n
        /\ \A k \in 1 .. n : ids[k] = dtypes.dtypes[k].id
    BY CatalogLoaded
  <2> HIDE DEF n, ids
  <2> QED
    BY <2>1, IndexOfFacts
<1>2. AllMask(dtypes) = 0 .. n - 1
  BY DEF AllMask
<1>3. N \subseteq Range(ids) /\ M = {IndexOf(ids, name) : name \in N}
  BY DEF KnownDTypes, MaskForDTypes
<1>4. K = UNION {CategoryMask(dtypes, name) : name \in C}
  BY DEF MaskForCategories
<1>5. \A name : CategoryMask(dtypes, name) = {b \in 0 .. n - 1 : cat(b + 1) = name}
  BY <1>2 DEF CategoryMask
<1> HIDE DEF n, ids, N, C, M, K, cat
<1>6. K = {b \in 0 .. n - 1 : cat(b + 1) \in C}
  BY <1>4, <1>5
<1>7. M \subseteq 0 .. n - 1 /\ {ids[b + 1] : b \in M} = N
  <2>1. M \subseteq 0 .. n - 1
    BY <1>1, <1>3
  <2>2. \A b \in M : ids[b + 1] \in N
    BY <1>1, <1>3
  <2>3. \A name \in N : \E b \in M : ids[b + 1] = name
    BY <1>1, <1>3
  <2> QED
    BY <2>1, <2>2, <2>3
<1>8. {ids[b + 1] : b \in K} = {dtypes.dtypes[k].id : k \in I}
  <2>1. \A b \in K : b + 1 \in I /\ ids[b + 1] = dtypes.dtypes[b + 1].id
    <3>1. \A b \in 0 .. n - 1 : b + 1 \in 1 .. n
      BY <1>1
    <3> QED
      BY <1>1, <1>6, <3>1
  <2>2. \A k \in I : k - 1 \in K /\ k - 1 + 1 = k
    <3>1. \A k \in 1 .. n : k - 1 \in 0 .. n - 1 /\ k - 1 + 1 = k
      BY <1>1
    <3> QED
      BY <1>1, <1>6, <3>1
  <2> HIDE DEF I
  <2>3. ASSUME NEW k \in I PROVE \E b \in K : ids[b + 1] = dtypes.dtypes[k].id
    <3>1. k - 1 \in K /\ ids[k - 1 + 1] = dtypes.dtypes[k].id
      BY <2>1, <2>2
    <3> QED
      BY <3>1
  <2> QED
    BY <2>1, <2>3
<1>9. {ids[b + 1] : b \in M \cup K} = N \cup {dtypes.dtypes[k].id : k \in I}
  <2> HIDE DEF I
  <2>1. {ids[b + 1] : b \in M \cup K} = {ids[b + 1] : b \in M} \cup {ids[b + 1] : b \in K}
    OBVIOUS
  <2> QED
    BY <1>7, <1>8, <2>1
<1>10. M \cup K \in SUBSET (0 .. n - 1)
  BY <1>6, <1>7
<1> QED
  BY <1>2, <1>9, <1>10 DEF DTypesOfMask, M, K, N, C, ids, cat

\* The mask of an input admits what its constraint describes.
LEMMA MaskAdmits ==
    ASSUME NEW dtypes, DTypeDocument(dtypes), LoadDTypeCatalog(dtypes),
           NEW op, NEW input, ConstraintAccepted(dtypes, op, input.dtype_constraints)
    PROVE  InputAdmits(dtypes, input.dtype_constraints,
               DTypesOfMask(DTypeIds(dtypes), InputSpec(dtypes, op, input).allow_mask))
<1> DEFINE c == input.dtype_constraints
           ids == DTypeIds(dtypes)
           all == AllMask(dtypes)
           mask == MaskForDTypes(dtypes, c.dtypes) \cup MaskForCategories(dtypes, c.categories)
           listed == Range(List(c.dtypes)) \cup
                {dtypes.dtypes[i].id : i \in {k \in DOMAIN dtypes.dtypes :
                    OrElse(dtypes.dtypes[k].category, "unknown") \in Range(List(c.categories))}}
           allow == InputSpec(dtypes, op, input).allow_mask
           names == DTypesOfMask(ids, allow)
<1>1. mask \in SUBSET all /\ {ids[b + 1] : b \in mask} = listed
  <2>1. KnownDTypes(dtypes, c.dtypes)
    BY DEF ConstraintAccepted
  <2>2. mask \in SUBSET all /\ DTypesOfMask(ids, mask) = listed
    BY <2>1, MaskMeans
  <2> HIDE DEF mask, listed, ids, all
  <2> QED
    BY <2>2 DEF DTypesOfMask
<1>2. {ids[b + 1] : b \in all} = Range(ids) /\ \A a, b \in all : ids[a + 1] = ids[b + 1] => a = b
  <2> DEFINE n == Len(dtypes.dtypes)
  <2>1. n \in Nat /\ DOMAIN ids = 1 .. n /\ IsInjective(ids)
    BY CatalogLoaded
  <2>2. all = 0 .. n - 1
    BY DEF AllMask
  <2> HIDE DEF ids, all, n
  <2>3. /\ \A b \in 0 .. n - 1 : b + 1 \in 1 .. n
        /\ \A k \in 1 .. n : k - 1 \in 0 .. n - 1 /\ k - 1 + 1 = k
        /\ \A a, b \in 0 .. n - 1 : a + 1 = b + 1 => a = b
    BY <2>1
  <2>4. \A a, b \in all : ids[a + 1] = ids[b + 1] => a = b
    BY <2>1, <2>2, <2>3 DEF IsInjective
  <2>5. \A k \in DOMAIN ids : \E b \in all : ids[b + 1] = ids[k]
    <3> SUFFICES ASSUME NEW k \in DOMAIN ids PROVE \E b \in all : ids[b + 1] = ids[k]
      OBVIOUS
    <3>1. k - 1 \in all /\ ids[k - 1 + 1] = ids[k]
      BY <2>1, <2>2, <2>3
    <3> QED
      BY <3>1
  <2>6. \A b \in all : b + 1 \in DOMAIN ids
    BY <2>1, <2>2, <2>3
  <2> QED
    BY <2>4, <2>5, <2>6 DEF Range
<1>3. names = {ids[b + 1] : b \in allow}
  BY DEF DTypesOfMask
<1>4. /\ c.mode = "allow" => allow = IF mask = {} THEN all ELSE mask
      /\ c.mode = "deny" => allow = all \ mask
      /\ c.mode = "match" => allow = all
  <2>1. CASE c.mode = "allow"
    BY <2>1, Zenon DEF InputSpec
  <2>2. CASE c.mode = "deny"
    BY <2>2, Zenon DEF InputSpec
  <2>3. CASE c.mode = "match"
    BY <2>3, Zenon DEF InputSpec
  <2>4. /\ c.mode = "allow" => c.mode # "deny" /\ c.mode # "match"
        /\ c.mode = "deny" => c.mode # "match"
    OBVIOUS
  <2> QED
    BY <2>1, <2>2, <2>3, <2>4, Zenon
<1>5. c.mode \in {"allow", "deny", "match"}
  BY DEF ConstraintAccepted, ConstraintModes
<1>6. InputAdmits(dtypes, c, names) <=>
        CASE c.mode = "deny" -> names = Range(ids) \ listed
          [] c.mode = "allow" /\ listed # {} -> names = listed
          [] OTHER -> names = Range(ids)
  BY Zenon DEF InputAdmits
<1> SUFFICES InputAdmits(dtypes, c, names)
  OBVIOUS
<1> HIDE DEF c, ids, all, mask, listed, allow, names
<1>7. CASE c.mode = "deny"
  <2>1. names = {ids[b + 1] : b \in all \ mask}
    BY <1>3, <1>4, <1>7
  <2>2. names = Range(ids) \ listed
    BY <1>1, <1>2, <2>1
  <2> QED
    BY <1>6, <1>7, <2>2
<1>8. CASE c.mode = "allow"
  <2>1. listed = {} <=> mask = {}
    BY <1>1
  <2>2. names = IF listed = {} THEN Range(ids) ELSE listed
    BY <1>1, <1>2, <1>3, <1>4, <1>8, <2>1
  <2> QED
    BY <1>6, <1>8, <2>2
<1>9. CASE c.mode = "match"
  <2>1. names = Range(ids)
    BY <1>2, <1>3, <1>4, <1>9
  <2> QED
    BY <1>6, <1>9, <2>1
<1> QED
  BY <1>5, <1>7, <1>8, <1>9

\* What the numbers of a rule refer to.
RuleRefers(dtypes, op, r, spec) ==
    /\ r.kind = "same_as" =>
         /\ spec.reference_input + 1 \in DOMAIN op.inputs
         /\ op.inputs[spec.reference_input + 1].name = r.input
    /\ r.kind = "promote" =>
         /\ \A bit \in spec.input_mask : bit + 1 \in DOMAIN op.inputs
         /\ {op.inputs[bit + 1].name : bit \in spec.input_mask} = Range(r.inputs)
    /\ r.kind = "fixed" => DTypeIds(dtypes)[spec.fixed_dtype + 1] = r.dtype

LEMMA RuleKnown ==
    ASSUME NEW dtypes, DTypeDocument(dtypes), LoadDTypeCatalog(dtypes),
           NEW op, op.inputs \in Seq(Range(op.inputs)), NEW r, RuleAccepted(dtypes, op, r),
           NEW spec,
           r.kind = "same_as" => spec.reference_input = RuleSpec(dtypes, op, r).reference_input,
           r.kind = "promote" => spec.input_mask = RuleSpec(dtypes, op, r).input_mask,
           r.kind = "fixed" => spec.fixed_dtype = RuleSpec(dtypes, op, r).fixed_dtype
    PROVE  RuleRefers(dtypes, op, r, spec)
<1> DEFINE names == NamesOf(op.inputs)
           ids == DTypeIds(dtypes)
           m == Len(op.inputs)
           n == Len(dtypes.dtypes)
<1>1. m \in Nat /\ DOMAIN op.inputs = 1 .. m /\ DOMAIN names = 1 .. m
      /\ \A j \in 1 .. m : names[j] = op.inputs[j].name
  BY LenProperties DEF NamesOf
<1>2. n \in Nat /\ DOMAIN ids = 1 .. n
  BY CatalogLoaded
<1>3. \A name \in Range(names) : /\ IndexOf(names, name) + 1 \in 1 .. m
                                 /\ op.inputs[IndexOf(names, name) + 1].name = name
  <2> HIDE DEF names, m
  <2>1. \A name \in Range(names) : IndexOf(names, name) \in 0 .. m - 1 /\ names[IndexOf(names, name) + 1] = name
    BY <1>1, IndexOfFacts
  <2>2. \A k \in 0 .. m - 1 : k + 1 \in 1 .. m
    BY <1>1
  <2> QED
    BY <1>1, <2>1, <2>2
<1>4. \A id \in Range(ids) : ids[IndexOf(ids, id) + 1] = id
  <2> HIDE DEF ids, n
  <2> QED
    BY <1>2, IndexOfFacts
<1>5. r.kind = "same_as" =>
         /\ spec.reference_input + 1 \in DOMAIN op.inputs
         /\ op.inputs[spec.reference_input + 1].name = r.input
  <2> SUFFICES ASSUME r.kind = "same_as"
               PROVE  /\ spec.reference_input + 1 \in DOMAIN op.inputs
                      /\ op.inputs[spec.reference_input + 1].name = r.input
    OBVIOUS
  <2>1. spec.reference_input = IndexOf(names, r.input) /\ r.input \in Range(names)
    BY DEF RuleSpec, RuleAccepted
  <2> QED
    BY <1>1, <1>3, <2>1
<1>6. r.kind = "promote" =>
         /\ \A bit \in spec.input_mask : bit + 1 \in DOMAIN op.inputs
         /\ {op.inputs[bit + 1].name : bit \in spec.input_mask} = Range(r.inputs)
  <2> SUFFICES ASSUME r.kind = "promote"
               PROVE  /\ \A bit \in spec.input_mask : bit + 1 \in DOMAIN op.inputs
                      /\ {op.inputs[bit + 1].name : bit \in spec.input_mask} = Range(r.inputs)
    OBVIOUS
  <2>1. spec.input_mask = InputMask(op, r.inputs)
    BY DEF RuleSpec
  <2>2. List(r.inputs) # <<>> /\ KnownInputs(op, r.inputs)
    BY DEF RuleAccepted
  <2>3. List(r.inputs) = r.inputs
    BY <2>2 DEF List
  <2>4. Range(r.inputs) \subseteq Range(names)
        /\ spec.input_mask = {IndexOf(names, name) : name \in Range(r.inputs)}
    BY <2>1, <2>2, <2>3 DEF KnownInputs, InputMask
  <2> DEFINE N == Range(r.inputs)
             mask == spec.input_mask
  <2> HIDE DEF names, N, mask, m
  <2>5. N \subseteq Range(names) /\ mask = {IndexOf(names, name) : name \in N}
    BY <2>4 DEF N, mask
  <2>6. \A bit \in mask : bit + 1 \in 1 .. m /\ op.inputs[bit + 1].name \in N
    BY <1>3, <2>5
  <2>7. \A name \in N : \E bit \in mask : op.inputs[bit + 1].name = name
    BY <1>3, <2>5
  <2>8. {op.inputs[bit + 1].name : bit \in mask} = N
    BY <2>6, <2>7
  <2> QED
    BY <1>1, <2>6, <2>8 DEF N, mask
<1>7. r.kind = "fixed" => DTypeIds(dtypes)[spec.fixed_dtype + 1] = r.dtype
  <2> SUFFICES ASSUME r.kind = "fixed" PROVE ids[spec.fixed_dtype + 1] = r.dtype
    OBVIOUS
  <2>1. spec.fixed_dtype = IndexOf(ids, r.dtype) /\ r.dtype \in Range(ids)
    BY DEF RuleSpec, RuleAccepted
  <2> QED
    BY <1>4, <2>1
<1> QED
  BY <1>5, <1>6, <1>7 DEF RuleRefers

LEMMA PolicyKnown ==
    ASSUME NEW dtypes, DTypeDocument(dtypes), LoadDTypeCatalog(dtypes),
           NEW op, op.inputs \in Seq(Range(op.inputs)),
           PolicyAccepted(dtypes, op, op.compute_policy)
    PROVE  RuleRefers(dtypes, op, op.compute_policy, ComputePolicySpec(dtypes, op))
<1> DEFINE r == op.compute_policy
           own == r.kind \in {"derived_compute_type", "custom"}
           spec == ComputePolicySpec(dtypes, op)
           rule == RuleSpec(dtypes, op, r)
<1>1. CASE own
  <2>1. r.kind # "same_as" /\ r.kind # "promote" /\ r.kind # "fixed"
    BY <1>1
  <2> QED
    BY <2>1 DEF RuleRefers
<1>2. CASE ~ own
  <2>1. RuleAccepted(dtypes, op, r)
    BY <1>2 DEF PolicyAccepted
  <2>2. /\ spec.reference_input = rule.reference_input /\ spec.fixed_dtype = rule.fixed_dtype
        /\ spec.input_mask = rule.input_mask
    <3> HIDE DEF rule
    <3> QED
      BY <1>2 DEF ComputePolicySpec, rule
  <2> HIDE DEF spec
  <2>3. RuleRefers(dtypes, op, r, spec)
    BY <2>1, <2>2, RuleKnown DEF rule
  <2> QED
    BY <2>3 DEF spec
<1> QED
  BY <1>1, <1>2

LEMMA OpDescribed ==
    ASSUME NEW doc, NEW dtypes, OpDocument(doc), DTypeDocument(dtypes), OpsAccepted(doc, dtypes),
           NEW i \in DOMAIN doc.ops
    PROVE  OpDescribesDocument(doc, dtypes, DTypeIds(dtypes), OpTables(doc, dtypes), i)
<1> DEFINE n == Len(doc.ops)
           def == DTypeIds(dtypes)
           tables == OpTables(doc, dtypes)
           op == doc.ops[i]
           ins == inputsOf(tables, i)
           outs == outputsOf(tables, i)
           attrs == attributesOf(tables, i)
           policy == tables.computePolicies[i]
           Named(mask) == {ins[bit + 1].name : bit \in mask}
           RuleMeans(r, spec) ==
             /\ r.kind = "same_as" => ins[spec.reference_input + 1].name = r.input
             /\ r.kind = "promote" => Named(spec.input_mask) = Range(r.inputs)
             /\ r.kind = "fixed" => def[spec.fixed_dtype + 1] = r.dtype
<1>1. /\ op.inputs \in Seq(Range(op.inputs)) /\ op.outputs \in Seq(Range(op.outputs))
      /\ OpAccepted(dtypes, doc.catalogs, op)
  BY OpKnown
<1>2. LoadDTypeCatalog(dtypes)
  BY DEF OpsAccepted
<1>3. /\ ins = [j \in DOMAIN op.inputs |-> InputSpec(dtypes, op, op.inputs[j])]
      /\ outs = [j \in DOMAIN op.outputs |-> OutputSpec(dtypes, op, op.outputs[j])]
      /\ attrs = [j \in DOMAIN List(op.attributes) |-> AttributeSpec(op.attributes[j])]
      /\ op.metadata # Missing => /\ tagsOf(tables, i) = List(op.metadata.tags)
                                  /\ aliasesOf(tables, i) = List(op.metadata.aliases)
  BY OpSlices
<1>4. /\ tables.arity[i] = op.arity /\ policy = ComputePolicySpec(dtypes, op)
  BY Zenon DEF OpTables
<1>5. /\ \A j \in DOMAIN op.inputs : ConstraintAccepted(dtypes, op, op.inputs[j].dtype_constraints)
      /\ \A j \in DOMAIN op.outputs : RuleAccepted(dtypes, op, op.outputs[j].dtype_rule)
      /\ op.arity = Cardinality(RequiredInputs(op))
      /\ PolicyAccepted(dtypes, op, op.compute_policy)
  BY <1>1, Zenon DEF OpAccepted
<1>6. OpDescribesDocument(doc, dtypes, def, tables, i) <=>
       /\ NamesOf(ins) = NamesOf(op.inputs)
       /\ NamesOf(outs) = NamesOf(op.outputs)
       /\ NamesOf(attrs) = NamesOf(List(op.attributes))
       /\ tables.arity[i] = Cardinality({j \in DOMAIN ins : ~ins[j].optional})
       /\ \A j \in DOMAIN ins : LET c == op.inputs[j].dtype_constraints IN
            /\ InputAdmits(dtypes, c, DTypesOfMask(def, ins[j].allow_mask))
            /\ c.mode = "match" => ins[ins[j].reference_input + 1].name = c.reference
       /\ \A j \in DOMAIN outs : RuleMeans(op.outputs[j].dtype_rule, outs[j].rule)
       /\ RuleMeans(op.compute_policy, policy)
       /\ op.metadata # Missing => /\ tagsOf(tables, i) = List(op.metadata.tags)
                                   /\ aliasesOf(tables, i) = List(op.metadata.aliases)
  BY Zenon DEF OpDescribesDocument
<1> SUFFICES OpDescribesDocument(doc, dtypes, def, tables, i)
  OBVIOUS
<1> HIDE DEF ins, outs, attrs, policy, op, tables, def, RuleMeans
<1>7. /\ DOMAIN ins = DOMAIN op.inputs /\ DOMAIN outs = DOMAIN op.outputs
      /\ DOMAIN attrs = DOMAIN List(op.attributes)
      /\ \A j \in DOMAIN op.inputs : ins[j] = InputSpec(dtypes, op, op.inputs[j])
      /\ \A j \in DOMAIN op.outputs : outs[j] = OutputSpec(dtypes, op, op.outputs[j])
      /\ \A j \in DOMAIN List(op.attributes) : attrs[j] = AttributeSpec(op.attributes[j])
  BY <1>3
<1>8. \A input : /\ InputSpec(dtypes, op, input).name = input.name
                 /\ InputSpec(dtypes, op, input).optional = Flag(input.optional)
                 /\ input.dtype_constraints.mode = "match" =>
                      InputSpec(dtypes, op, input).reference_input =
                        IndexOf(NamesOf(op.inputs), input.dtype_constraints.reference)
  BY DEF InputSpec
<1>9. NamesOf(ins) = NamesOf(op.inputs)
  BY <1>7, <1>8 DEF NamesOf
<1>10. NamesOf(outs) = NamesOf(op.outputs)
  <2>1. \A output : OutputSpec(dtypes, op, output).name = output.name
    BY DEF OutputSpec
  <2> QED
    BY <1>7, <2>1 DEF NamesOf
<1>11. NamesOf(attrs) = NamesOf(List(op.attributes))
  <2>1. \A a : AttributeSpec(a).name = a.name
    BY DEF AttributeSpec
  <2>2. ASSUME NEW j \in DOMAIN List(op.attributes) PROVE List(op.attributes)[j] = op.attributes[j]
    <3>1. DOMAIN <<>> = {}
      OBVIOUS
    <3>2. op.attributes # Missing
      BY <2>2, <3>1, Zenon DEF List
    <3> QED
      BY <3>2 DEF List
  <2> QED
    BY <1>7, <2>1, <2>2 DEF NamesOf
<1>12. tables.arity[i] = Cardinality({j \in DOMAIN ins : ~ins[j].optional})
  <2>1. {j \in DOMAIN ins : ~ins[j].optional} = RequiredInputs(op)
    BY <1>7, <1>8 DEF RequiredInputs
  <2> QED
    BY <1>4, <1>5, <2>1
<1> DEFINE m == Len(op.inputs)
<1>13. /\ m \in Nat /\ DOMAIN op.inputs = 1 .. m /\ DOMAIN NamesOf(op.inputs) = 1 .. m
       /\ \A j \in 1 .. m : NamesOf(op.inputs)[j] = op.inputs[j].name
  BY <1>1, LenProperties DEF NamesOf
<1>14. \A name \in Range(NamesOf(op.inputs)) :
         ins[IndexOf(NamesOf(op.inputs), name) + 1].name = name
  <2> DEFINE names == NamesOf(op.inputs)
  <2>1. \A name \in Range(names) : IndexOf(names, name) \in 0 .. m - 1 /\ names[IndexOf(names, name) + 1] = name
    <3> HIDE DEF names, m
    <3> QED
      BY <1>13, IndexOfFacts DEF names
  <2>2. \A k \in 0 .. m - 1 : k + 1 \in 1 .. m
    BY <1>13
  <2> HIDE DEF names, m
  <2>3. \A j \in 1 .. m : ins[j].name = names[j]
    BY <1>7, <1>8, <1>13 DEF names
  <2> QED
    BY <2>1, <2>2, <2>3 DEF names
<1>15. ASSUME NEW j \in DOMAIN ins
       PROVE  LET c == op.inputs[j].dtype_constraints IN
              /\ InputAdmits(dtypes, c, DTypesOfMask(def, ins[j].allow_mask))
              /\ c.mode = "match" => ins[ins[j].reference_input + 1].name = c.reference
  <2> DEFINE c == op.inputs[j].dtype_constraints
  <2>1. ConstraintAccepted(dtypes, op, c) /\ ins[j] = InputSpec(dtypes, op, op.inputs[j])
    BY <1>5, <1>7
  <2>2. InputAdmits(dtypes, c, DTypesOfMask(def, InputSpec(dtypes, op, op.inputs[j]).allow_mask))
    BY <1>2, <2>1, MaskAdmits DEF def
  <2>3. c.mode = "match" => /\ c.reference \in Range(NamesOf(op.inputs))
                            /\ ins[j].reference_input = IndexOf(NamesOf(op.inputs), c.reference)
    BY <1>8, <2>1 DEF ConstraintAccepted
  <2> QED
    BY <1>14, <2>1, <2>2, <2>3
<1>16. ASSUME NEW r, NEW spec, RuleRefers(dtypes, op, r, spec) PROVE RuleMeans(r, spec)
  <2>1. \A j \in DOMAIN op.inputs : ins[j].name = op.inputs[j].name
    BY <1>7, <1>8
  <2>2. r.kind = "same_as" => ins[spec.reference_input + 1].name = r.input
    BY <1>16, <2>1 DEF RuleRefers
  <2>3. r.kind = "promote" => {ins[bit + 1].name : bit \in spec.input_mask} = Range(r.inputs)
    <3> SUFFICES ASSUME r.kind = "promote"
                 PROVE  {ins[bit + 1].name : bit \in spec.input_mask} = Range(r.inputs)
      OBVIOUS
    <3>1. /\ \A bit \in spec.input_mask : bit + 1 \in DOMAIN op.inputs
          /\ {op.inputs[bit + 1].name : bit \in spec.input_mask} = Range(r.inputs)
      BY <1>16 DEF RuleRefers
    <3>2. {ins[bit + 1].name : bit \in spec.input_mask} = {op.inputs[bit + 1].name : bit \in spec.input_mask}
      BY <2>1, <3>1
    <3> QED
      BY <3>1, <3>2
  <2>4. r.kind = "fixed" => def[spec.fixed_dtype + 1] = r.dtype
    BY <1>16 DEF RuleRefers, def
  <2> QED
    BY <2>2, <2>3, <2>4 DEF RuleMeans
<1>17. ASSUME NEW j \in DOMAIN outs PROVE RuleMeans(op.outputs[j].dtype_rule, outs[j].rule)
  <2>1. RuleAccepted(dtypes, op, op.outputs[j].dtype_rule)
    BY <1>5, <1>7
  <2>2. outs[j].rule = RuleSpec(dtypes, op, op.outputs[j].dtype_rule)
    <3>1. outs[j] = OutputSpec(dtypes, op, op.outputs[j])
      BY <1>7
    <3>2. OutputSpec(dtypes, op, op.outputs[j]).rule = RuleSpec(dtypes, op, op.outputs[j].dtype_rule)
      BY Zenon DEF OutputSpec
    <3> QED
      BY <3>1, <3>2
  <2>3. RuleRefers(dtypes, op, op.outputs[j].dtype_rule, outs[j].rule)
    BY <1>1, <1>2, <2>1, <2>2, RuleKnown
  <2> QED
    BY <1>16, <2>3
<1>18. RuleMeans(op.compute_policy, policy)
  <2>1. RuleRefers(dtypes, op, op.compute_policy, policy)
    BY <1>1, <1>2, <1>4, <1>5, PolicyKnown
  <2> QED
    BY <1>16, <2>1
<1>19. op.metadata # Missing => /\ tagsOf(tables, i) = List(op.metadata.tags)
                                /\ aliasesOf(tables, i) = List(op.metadata.aliases)
  BY <1>3
<1> QED
  BY <1>6, <1>9, <1>10, <1>11, <1>12, <1>15, <1>17, <1>18, <1>19, Zenon

\* What the accessors of ops.h show of an operator is what its document says,
\* inputs, outputs, attributes, rules, masks and metadata, in the numbers of
\* gen_dtypes: of every document of operators gen_ops accepts.
THEOREM OpsAlwaysDescribe == Spec => []OpsDescribeDocument
<1>1. ASSUME BuildInv, Built PROVE OpsDescribeDocument
  <2>1. /\ OpsAccepted(yaml.ops, yaml.dtypes) /\ files.ops.def = OpDef(yaml.ops)
        /\ files.ops.tables = OpTables(yaml.ops, yaml.dtypes)
        /\ files.dtypes.def = DTypeIds(yaml.dtypes)
    BY <1>1, BuiltFiles, SectionsAre DEF Accepted, Tables, Def, DTypeDef
  <2>2. OpDocument(yaml.ops) /\ DTypeDocument(yaml.dtypes)
    BY <1>1, SectionsAre DEF BuildInv, DocumentsKnown, Document
  <2>3. \A i \in DOMAIN yaml.ops.ops :
          OpDescribesDocument(yaml.ops, yaml.dtypes, files.dtypes.def, files.ops.tables, i)
    BY <2>1, <2>2, OpDescribed
  <2>4. Len(files.ops.def) = files.ops.tables.count
    <3>1. Len(yaml.ops.ops) \in Nat /\ DOMAIN yaml.ops.ops = 1 .. Len(yaml.ops.ops)
      BY <2>1, <2>2, OpKnown
    <3>2. Len(OpDef(yaml.ops)) = Len(yaml.ops.ops)
      BY <3>1 DEF OpDef
    <3>3. OpTables(yaml.ops, yaml.dtypes).count = Len(yaml.ops.ops)
      BY Zenon DEF OpTables
    <3> QED
      BY <2>1, <3>2, <3>3
  <2> QED
    BY <2>3, <2>4, Zenon DEF OpsDescribeDocument
<1>2. BuildInv => OpsDescribeDocument
  BY <1>1 DEF OpsDescribeDocument
<1> QED
  BY <1>2, BuildInvariant, PTL
=============================================================================
