---------------------------- MODULE RagPublish ----------------------------
(***************************************************************************)
(* The offline build of the retrieval assets (rag_offline/build.py with    *)
(* sources.py, relationships.py, documents.py and qdrant_store.py) and the *)
(* online runtime that reads what was published (rag_runtime.py).          *)
(*                                                                         *)
(* A build loads the fact files, fills one Qdrant collection per kind,     *)
(* writes its files into a staging directory, renames that directory and   *)
(* only then replaces the pointer current.json.  Builds run beside each    *)
(* other, may be given the same build id by hand, fail at any step or die. *)
(***************************************************************************)
EXTENDS Naturals, Sequences, FiniteSets, FiniteSetsExt

CONSTANTS
  None,
  Builder,     \* builder processes
  BuildId,
  Kinds,       \* collections of a build, 1..Kinds of TABLE, COLUMN and METRIC
  Facts,       \* the contents the fact files take one after the other, a sequence
  Reader,      \* requests of the API that need a snapshot
  Production,  \* CHATBI_ENV is production
  MaxFaults    \* failed calls and deaths of builders

\* What the constants must satisfy; None is none of the values it stands for the absence of.
RagAssumption ==
  /\ Kinds \in 1..3 /\ MaxFaults \in Nat /\ Production \in BOOLEAN
  /\ Len(Facts) \in Nat \ {0} /\ DOMAIN Facts = 1..Len(Facts)
  /\ \A i \in DOMAIN Facts :
       {Len(Facts[i].tables), Len(Facts[i].columns), Len(Facts[i].metrics)} \subseteq Nat
  /\ None \notin BuildId \cup Nat \cup {"empty"} \cup [facts : DOMAIN Facts]

(***************************************************************************)
(* load_facts and build_relationship_graph: when the fact files are        *)
(* accepted.  A file is a sequence of records; a table is named with or    *)
(* without its schema.                                                     *)
(***************************************************************************)
Distinct(seq, key(_)) == \A i, j \in DOMAIN seq : key(seq[i]) = key(seq[j]) => i = j

Members(seq) == {seq[i] : i \in DOMAIN seq}

Names(ref, t) == t.table = ref.table /\ (ref.schema = None \/ t.schema = ref.schema)

KnownColumn(f, t, column) ==
  \E c \in Members(f.columns) : c.schema = t.schema /\ c.table = t.table /\ c.column = column

NormalizeTables(f) == f.tables # <<>> /\ Distinct(f.tables, LAMBDA t : <<t.schema, t.table>>)

NormalizeColumns(f) ==
  /\ f.columns # <<>> /\ Distinct(f.columns, LAMBDA c : <<c.schema, c.table, c.column>>)
  /\ \A c \in Members(f.columns) : \E t \in Members(f.tables) : c.schema = t.schema /\ c.table = t.table

(* A column is meant when exactly one table fits the reference and has it. *)
ResolveColumnReference(f, ref) ==
  \E t \in Members(f.tables) :
    /\ {u \in Members(f.tables) : Names(ref, u)} = {t}
    /\ KnownColumn(f, t, ref.column)

NormalizeMetrics(f) ==
  /\ f.metrics # <<>> /\ Distinct(f.metrics, LAMBDA m : m.name)
  /\ \A m \in Members(f.metrics) :
       /\ m.source # None => \E t \in Members(f.tables) : Names(m.source, t)
       /\ \A i \in DOMAIN m.time : ResolveColumnReference(f, m.time[i])
       /\ m.depends \subseteq {n.name : n \in Members(f.metrics)}

(* Keys a foreign key may point at; a unique index is none of them. *)
CollectKeyConstraints(f, t) ==
  {k.columns : k \in {r \in Members(f.relationships) :
                        r.kind \in {"primary_key", "unique_constraint"} /\ r.of = t}}

ColumnsExist(f, t, columns) ==
  columns # <<>> /\ \A i \in DOMAIN columns : KnownColumn(f, t, columns[i])

BuildRelationshipGraph(f) ==
  /\ Distinct(f.relationships, LAMBDA r : <<r.kind, r.of, r.name>>)
  /\ \A r \in Members(f.relationships) :
       /\ r.of \in Members(f.tables) /\ ColumnsExist(f, r.of, r.columns)
       /\ r.kind \in {"primary_key", "unique_constraint", "unique_index", "foreign_key"}
       /\ r.kind = "foreign_key" =>
            /\ r.to \in Members(f.tables) /\ ColumnsExist(f, r.to, r.toColumns)
            /\ r.toColumns \in CollectKeyConstraints(f, r.to)

LoadFacts(f) == NormalizeTables(f) /\ NormalizeColumns(f) /\ NormalizeMetrics(f)

(* Documents per kind: one for each table, column and metric. *)
BuildDocuments(f) == <<Len(f.tables), Len(f.columns), Len(f.metrics)>>

-----------------------------------------------------------------------------
VARIABLES
  source,      \* index of the facts now in the fact files
  collection,  \* documents in each collection of Qdrant; None where there is none
  staging,     \* .staging/<build id>: None, or what has been written into it
  final,       \* <build id>: None or its manifest
  current,     \* the pointer
  build,       \* the builders
  cache,       \* snapshots the API keeps, by build id
  reader,      \* requests that fetch a snapshot
  faults

vars == <<source, collection, staging, final, current, build, cache, reader, faults>>

NoBuild == [pc |-> "idle", id |-> None, facts |-> 0, kind |-> 1, created |-> {},
            staged |-> FALSE, moved |-> FALSE]

Init ==
  /\ source = 1
  /\ collection = [i \in BuildId |-> [k \in 1..Kinds |-> None]]
  /\ staging = [i \in BuildId |-> None] /\ final = [i \in BuildId |-> None]
  /\ current = None /\ cache = {}
  /\ build = [b \in Builder |-> NoBuild]
  /\ reader = [q \in Reader |-> [pc |-> "idle", id |-> None]]
  /\ faults = 0

Id(b) == build[b].id
Set(b, changes) ==
  build' = [build EXCEPT ![b] = [f \in DOMAIN @ |-> IF f \in DOMAIN changes THEN changes[f] ELSE @[f]]]
Goto(b, pc) == Set(b, [pc |-> pc])
Files == <<staging, final, current>>
World == <<source, cache, reader>>

(* Structure or metrics are exported anew. *)
ExportFacts ==
  /\ source < Len(Facts) /\ source' = source + 1
  /\ UNCHANGED <<collection, staging, final, current, build, cache, reader, faults>>

Load(b) ==
  /\ build[b].pc = "idle"
  /\ \E i \in BuildId :
       Set(b, [id |-> i, facts |-> source,
               pc |-> IF LoadFacts(Facts[source]) /\ BuildRelationshipGraph(Facts[source])
                        THEN "look" ELSE "failed"])
  /\ UNCHANGED <<collection, Files, World, faults>>

(* A directory of this build id is refused, then made; both may happen to two builders. *)
LookForDirectory(b) ==
  /\ build[b].pc = "look"
  /\ Goto(b, IF staging[Id(b)] = None /\ final[Id(b)] = None THEN "claim" ELSE "undo")
  /\ UNCHANGED <<collection, Files, World, faults>>

MakeStaging(b) ==
  /\ build[b].pc = "claim"
  /\ IF staging[Id(b)] = None
       THEN /\ staging' = [staging EXCEPT ![Id(b)] = "empty"]
            /\ Set(b, [pc |-> "create", staged |-> TRUE])
       ELSE Goto(b, "undo") /\ UNCHANGED staging
  /\ UNCHANGED <<collection, final, current, World, faults>>

Count(b) == BuildDocuments(Facts[build[b].facts])[build[b].kind]

(* create_collection refuses a name that exists. *)
CreateCollection(b) ==
  /\ build[b].pc = "create"
  /\ IF collection[Id(b)][build[b].kind] = None
       THEN /\ collection' = [collection EXCEPT ![Id(b)][build[b].kind] = 0]
            /\ Set(b, [pc |-> "upsert", created |-> build[b].created \cup {build[b].kind}])
       ELSE Goto(b, "undo") /\ UNCHANGED collection
  /\ UNCHANGED <<Files, World, faults>>

UpsertDocuments(b) ==
  /\ build[b].pc = "upsert"
  /\ IF collection[Id(b)][build[b].kind] # None
       THEN collection' = [collection EXCEPT ![Id(b)][build[b].kind] = Count(b)] /\ Goto(b, "validate")
       ELSE Goto(b, "undo") /\ UNCHANGED collection
  /\ UNCHANGED <<Files, World, faults>>

ValidateCollection(b) ==
  /\ build[b].pc = "validate"
  /\ IF collection[Id(b)][build[b].kind] = Count(b)
       THEN IF build[b].kind < Kinds THEN Set(b, [pc |-> "create", kind |-> build[b].kind + 1])
            ELSE Goto(b, "manifest")
       ELSE Goto(b, "undo")
  /\ UNCHANGED <<collection, Files, World, faults>>

(* The graph and the manifest, with counts and the fingerprint of the facts. *)
WriteManifest(b) ==
  /\ build[b].pc = "manifest"
  /\ staging' = [staging EXCEPT ![Id(b)] = [facts |-> build[b].facts]]
  /\ Goto(b, "move")
  /\ UNCHANGED <<collection, final, current, World, faults>>

(* A rename onto a directory with content fails. *)
MoveToFinal(b) ==
  /\ build[b].pc = "move"
  /\ IF final[Id(b)] = None /\ staging[Id(b)] # None
       THEN /\ final' = [final EXCEPT ![Id(b)] = staging[Id(b)]]
            /\ staging' = [staging EXCEPT ![Id(b)] = None]
            /\ Set(b, [pc |-> "point", staged |-> FALSE, moved |-> TRUE])
       ELSE Goto(b, "undo") /\ UNCHANGED <<final, staging>>
  /\ UNCHANGED <<collection, current, World, faults>>

WritePointer(b) ==
  /\ build[b].pc = "point"
  /\ current' = Id(b) /\ Goto(b, "published")
  /\ UNCHANGED <<collection, staging, final, World, faults>>

Busy == {"look", "claim", "create", "upsert", "validate", "manifest", "move", "point"}

(* A call fails: reading, embedding, Qdrant or the file system. *)
StepFails(b) ==
  /\ build[b].pc \in Busy /\ faults < MaxFaults
  /\ faults' = faults + 1 /\ Goto(b, "undo")
  /\ UNCHANGED <<collection, Files, World>>

\* Mutant: every collection under the build id is taken for this build's own.
AllOfBuild(b) == {k \in 1..Kinds : collection[Id(b)][k] # None}

(* The collections a failing build may delete: the ones it created itself. *)
CreatedCollections(b) == build[b].created

(* One collection at a time, the last first; a deletion that fails is passed over. *)
DeleteCreated(b) ==
  /\ build[b].pc = "undo" /\ CreatedCollections(b) # {}
  /\ LET k == Max(CreatedCollections(b))
     IN  /\ Set(b, [created |-> CreatedCollections(b) \ {k}])
         /\ \/ collection' = [collection EXCEPT ![Id(b)][k] = None] /\ UNCHANGED faults
            \/ faults < MaxFaults /\ faults' = faults + 1 /\ UNCHANGED collection
  /\ UNCHANGED <<Files, World>>

RemoveDirectories(b) ==
  /\ build[b].pc = "undo" /\ CreatedCollections(b) = {}
  /\ staging' = IF build[b].staged THEN [staging EXCEPT ![Id(b)] = None] ELSE staging
  /\ final' = IF build[b].moved THEN [final EXCEPT ![Id(b)] = None] ELSE final
  /\ Goto(b, "failed")
  /\ UNCHANGED <<collection, current, World, faults>>

Die(b) ==
  /\ build[b].pc \in Busy \cup {"undo"} /\ faults < MaxFaults
  /\ faults' = faults + 1 /\ Goto(b, "dead")
  /\ UNCHANGED <<collection, Files, World>>

(***************************************************************************)
(* RagRuntime.get_snapshot: the pointer and the files it names are read    *)
(* before the lock, the snapshot is made under it.                         *)
(***************************************************************************)
SetReader(q, pc, i) == reader' = [reader EXCEPT ![q] = [pc |-> pc, id |-> i]]

(* load_published_asset, and in production the fingerprint of the facts. *)
ReadPublished(q) ==
  /\ reader[q].pc = "idle"
  /\ IF /\ current # None /\ final[current] # None
        /\ Production => Facts[final[current].facts] = Facts[source]
       THEN SetReader(q, "read", current) ELSE SetReader(q, "unavailable", None)
  /\ UNCHANGED <<source, collection, Files, build, cache, faults>>

ValidateCollections(i) ==
  \A k \in 1..Kinds : collection[i][k] = BuildDocuments(Facts[final[i].facts])[k]

GetSnapshot(q) ==
  /\ reader[q].pc = "read"
  /\ IF reader[q].id \in cache \/ ValidateCollections(reader[q].id)
       THEN SetReader(q, "serving", reader[q].id) /\ cache' = cache \cup {reader[q].id}
       ELSE SetReader(q, "unavailable", None) /\ UNCHANGED cache
  /\ UNCHANGED <<source, collection, Files, build, faults>>

(* The request is over; the process may also close and start again. *)
Answer(q) ==
  /\ reader[q].pc \in {"serving", "unavailable"} /\ SetReader(q, "idle", None)
  /\ cache' \in {cache, {}}
  /\ UNCHANGED <<source, collection, Files, build, faults>>

Next ==
  \/ ExportFacts
  \/ \E b \in Builder :
       \/ Load(b) \/ LookForDirectory(b) \/ MakeStaging(b) \/ CreateCollection(b)
       \/ UpsertDocuments(b) \/ ValidateCollection(b) \/ WriteManifest(b) \/ MoveToFinal(b)
       \/ WritePointer(b) \/ StepFails(b) \/ DeleteCreated(b) \/ RemoveDirectories(b) \/ Die(b)
  \/ \E q \in Reader : ReadPublished(q) \/ GetSnapshot(q) \/ Answer(q)

Spec == Init /\ [][Next]_vars

TypeOK ==
  /\ source \in DOMAIN Facts /\ current \in BuildId \cup {None} /\ cache \subseteq BuildId
  /\ \A b \in Builder :
       /\ build[b].pc \in Busy \cup {"idle", "undo", "published", "failed", "dead"}
       /\ build[b].created \subseteq 1..Kinds
  /\ \A q \in Reader : reader[q].pc \in {"idle", "read", "serving", "unavailable"}

(* What a join of the published graph may rely on: the target columns of every foreign key
   are a key of the target, and every step of a metric's time path is one physical column. *)
FactsUsable(f) ==
  /\ \A r \in Members(f.relationships) :
       r.kind = "foreign_key" =>
         \E k \in Members(f.relationships) :
           k.kind \in {"primary_key", "unique_constraint"} /\ k.of = r.to /\ k.columns = r.toColumns
  /\ \A m \in Members(f.metrics) : \A i \in DOMAIN m.time : \E c \in Members(f.columns) :
       {d \in Members(f.columns) : Names(m.time[i], d) /\ d.column = m.time[i].column} = {c}

(* From its publication on a build is whole and stays so: the pointer, and every snapshot
   the API keeps or hands out, name a build whose manifest is in place, whose collections
   all hold the documents of the very facts the manifest names, and whose facts are usable.
   Builds that run beside it, with the same build id too, fail half way, clean up after
   themselves or die do not change that. *)
PublishedIsWhole ==
  \A i \in ({current} \cup cache \cup {reader[q].id : q \in Reader}) \ {None} :
    /\ final[i] # None /\ FactsUsable(Facts[final[i].facts])
    /\ \A k \in 1..Kinds : collection[i][k] = BuildDocuments(Facts[final[i].facts])[k]
=============================================================================
