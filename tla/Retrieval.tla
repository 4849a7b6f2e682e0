-------------------------------- MODULE Retrieval --------------------------------
(****************************************************************************)
(* Online retrieval (online_query/retrieval/): from a validated question    *)
(* and what the vector store answered to the context a SQL may be written   *)
(* in: the tables and columns it may name, the metrics it must compute and  *)
(* the joins it may make.  The stages run in the order of                   *)
(* OnlineRetriever._retrieve_request, each ending the request with a        *)
(* status of its own when it fails.                                         *)
(*                                                                          *)
(* A column is a pair <<table, name>>.  A metric document is a record       *)
(* [name, labels, source, formula, filters, time, deps, ok]: formula is     *)
(* [fn, col] over a column name of the source, filters a set of [col, val], *)
(* time is [ok, source, col, target, filter], labels the normalised name    *)
(* and aliases, ok whether the published record is complete and parses.     *)
(* The scores of the vector store are external: a question meets a record   *)
(* of hits [tables, metrics, columns, ranks, down].                         *)
(****************************************************************************)
EXTENDS Integers, Sequences, FiniteSets, SequencesExt

CONSTANTS Columns,         \* the published columns
          Edges,           \* foreign keys [id, source, target, from, to]
          UniqueKeys,      \* primary keys and unique constraints <<table, columns>>
          Metrics,         \* the published metric documents
          Bridges,         \* tables whose role is bridge or intermediate
          Mentions,        \* the tables whose description mentions a business term
          CalendarTerms,   \* _CALENDAR_DIMENSIONS
          DateColumns,     \* the calendar columns a restorable question needs
          TableTopK, ColumnTopK, Threshold, MaxMetrics

ASSUME RetrievalAssumption ==
  /\ TableTopK \in Nat \ {0} /\ ColumnTopK \in Nat \ {0} /\ MaxMetrics \in Nat \ {0}
  /\ \A e \in Edges : Len(e.from) = Len(e.to) /\ DOMAIN e.from = DOMAIN e.to /\ e.from # << >>
  /\ IsFiniteSet(Edges) /\ IsFiniteSet(Metrics)

NoTime == [ok |-> FALSE]
NoCond == [is |-> FALSE]
Elements(s) == {s[i] : i \in DOMAIN s}

------------------------------------------------------------------------------
(* resource_retrieval.py: what the vector store returned, ranked and cut *)

\* The order of hits: by score, then by document.  rank is the order of identities.
Ranked(S, score, rank) ==
  LET before(a, b) == score[a] > score[b] \/ (score[a] = score[b] /\ rank[a] < rank[b])
  IN [i \in 1 .. Cardinality(S) |-> CHOOSE x \in S : Cardinality({y \in S : before(y, x)}) = i - 1]

Cut(s, k) == SubSeq(s, 1, IF Len(s) < k THEN Len(s) ELSE k)

\* Each query returned a function from tables to scores; the best score of a table counts.
TableHits(found, rank) ==
  LET tables == UNION {DOMAIN found[i] : i \in DOMAIN found}
      best == [t \in tables |-> CHOOSE s \in {found[i][t] : i \in {j \in DOMAIN found : t \in DOMAIN found[j]}} :
                 \A i \in DOMAIN found : t \in DOMAIN found[i] => found[i][t] <= s]
  IN Cut(Ranked({t \in tables : best[t] >= Threshold}, best, rank), TableTopK)

\* Required columns are looked up by name whatever their score; the others are the best of
\* one search over the tables; together they are cut at k, the required ones first.
ColumnHits(tables, score, rank, required, k) ==
  LET exact == {c \in Columns : c \in required /\ c[1] \in tables}
      found == Elements(Cut(Ranked({c \in Columns : c[1] \in tables}, score, rank), k))
      semantic == {c \in found : score[c] >= Threshold}
  IN Cut(Ranked(exact, score, rank) \o Ranked(semantic \ exact, score, rank), k)

------------------------------------------------------------------------------
(* multi_metric.py *)

MatchingHits(label, docs) == {m \in docs : label \in m.labels}

\* A label that does not name exactly one document.
Unresolved(label, docs) ==
  LET n == Cardinality(MatchingHits(label, docs))
  IN IF n > 1 \/ (n = 0 /\ Cardinality(docs) > 1) THEN "AMBIGUOUS"
     ELSE IF n = 0 THEN "NO_METRIC" ELSE "none"

Compatible(ms) ==
  \A i, j \in DOMAIN ms : /\ ms[i].source = ms[j].source
                          /\ ms[i].time = ms[j].time
                          /\ ms[i].filters = ms[j].filters

\* The first of each, in the order they come.
Firsts(s) == {i \in DOMAIN s : \A j \in 1 .. i - 1 : s[j] # s[i]}
Rank(S, i) == Cardinality({j \in S : j < i})
Distinct(s) ==
  [k \in 1 .. Cardinality(Firsts(s)) |-> s[CHOOSE i \in Firsts(s) : Rank(Firsts(s), i) = k - 1]]

\* One document for every requested metric, in the order of the request, each once.
PlanRetrievedMetrics(labels, hits) ==
  LET problem == {i \in DOMAIN labels : Unresolved(labels[i], hits[labels[i]]) # "none"}
      first == CHOOSE i \in problem : \A j \in problem : i <= j
      selected == Distinct([i \in DOMAIN labels |->
                    CHOOSE m \in MatchingHits(labels[i], hits[labels[i]]) : TRUE])
  IN IF Len(labels) > MaxMetrics THEN [status |-> "TOO_MANY", metrics |-> << >>]
     ELSE IF problem # {}
          THEN [status |-> Unresolved(labels[first], hits[labels[first]]), metrics |-> << >>]
     ELSE [status |-> IF \E i \in DOMAIN selected : ~selected[i].ok THEN "INVALID_ASSET"
                      ELSE IF ~Compatible(selected) THEN "UNSUPPORTED_COMBINATION"
                      ELSE "SUCCESS",
           metrics |-> selected]

\* _plan_metrics: the status the request ends with, SUCCESS to go on.
MetricStatus(plan) ==
  CASE plan.status = "SUCCESS" -> "SUCCESS"
    [] plan.status = "INVALID_ASSET" -> "ASSET_UNAVAILABLE"
    [] plan.status = "NO_METRIC" -> "NO_METRIC_HIT"
    [] OTHER -> "AMBIGUOUS"

------------------------------------------------------------------------------
(* retrieval_selection.py and metric_requirements.py *)

RequiresDateContext(q) == q.time # NoTime \/ Elements(q.dims) \cap CalendarTerms # {}

\* Filters on a selected metric become HAVING and bring no table in.
FilterTableFields(q, metrics) ==
  {f \in Elements(q.filters) : \A i \in DOMAIN metrics : f \notin metrics[i].labels}

GroupingTableNames(terms, tables, source) ==
  {t \in tables : t # source /\ \E d \in terms : t \in Mentions[d]}

\* The tables the SQL may need, Missing when one was not hit or is a bridge.
Missing == {"?"}
CandidateTableHits(q, tables, metrics, field) ==
  LET source == IF metrics = << >> THEN "none" ELSE metrics[1].source
      grouping == GroupingTableNames(Elements(q.dims) \cup FilterTableFields(q, metrics),
                                     Elements(tables), source)
      names == (IF metrics = << >> THEN {tables[1]} ELSE {source})
                 \cup (IF field = NoTime THEN {} ELSE {field.target}) \cup grouping
  IN IF \/ q.dims # << >> /\ GroupingTableNames(Elements(q.dims), Elements(tables), source) = {}
        \/ ~(names \subseteq Elements(tables) \ Bridges)
     THEN Missing ELSE names

\* The columns the formulas, fixed filters and date of the metrics are over.
RequiredColumns(metrics, field) ==
  UNION {({<<metrics[i].source, metrics[i].formula.col>>} \ {<<metrics[i].source, "*">>})
           \cup {<<metrics[i].source, f.col>> : f \in metrics[i].filters}
           \cup (IF field = NoTime THEN {}
                 ELSE {<<field.source, field.col>>, <<field.target, field.filter>>})
         : i \in DOMAIN metrics}

------------------------------------------------------------------------------
(* relationship_graph.py *)

\* The foreign keys a metric's time field may be about.
TimeEdges(field) == {e \in Edges : /\ e.source = field.source /\ e.target = field.target
                                   /\ e.from = <<field.col>>}

\* The direct foreign keys from the anchor to a target, the time edge alone if it is one.
DirectEdges(anchor, target, field) ==
  LET direct == {e \in Edges : e.source = anchor /\ e.target = target}
      timed == IF field # NoTime /\ target = field.target THEN direct \cap TimeEdges(field) ELSE {}
  IN IF timed # {} THEN timed ELSE direct

\* validated_join_constraints: every foreign key ends in a unique key of its target.
OntoUniqueKeys(joins) == \A e \in joins : <<e.target, e.to>> \in UniqueKeys

\* Mutant: any foreign key will do, onto a unique key or not.
ResolveJoinAnyKey(anchor, targets, field) ==
  [status |-> IF \E t \in targets \ {anchor} : Cardinality(DirectEdges(anchor, t, field)) # 1
              THEN "AMBIGUOUS" ELSE "SUCCESS",
   joins |-> UNION {DirectEdges(anchor, t, field) : t \in targets \ {anchor}}]

\* _resolve_join: one foreign key per target, onto a unique key.
ResolveJoin(anchor, targets, field) ==
  LET direct == [t \in targets \ {anchor} |-> DirectEdges(anchor, t, field)]
      joins == UNION {direct[t] : t \in DOMAIN direct}
      status == IF field # NoTime /\ TimeEdges(field) = {} THEN "ASSET_UNAVAILABLE"
                ELSE IF \/ field # NoTime /\ Cardinality(TimeEdges(field)) > 1
                        \/ \E t \in DOMAIN direct : Cardinality(direct[t]) > 1 THEN "AMBIGUOUS"
                ELSE IF {} \in {direct[t] : t \in DOMAIN direct} \/ ~OntoUniqueKeys(joins)
                     THEN "PARTIAL_UNREACHABLE"
                ELSE "SUCCESS"
  IN [status |-> status, joins |-> joins]

KeyColumns(joins) == UNION {{<<e.source, c>> : c \in Elements(e.from)}
                              \cup {<<e.target, c>> : c \in Elements(e.to)} : e \in joins}

------------------------------------------------------------------------------
(* retrieval_join_stage.py and retrieval_context.py *)

\* The definitions reachable from the selected metrics, Broken when one of them is not
\* published exactly once.
Named(name) == {m \in Metrics : m.name = name}
DependencyClosure(metrics) ==
  LET n == Cardinality(Metrics)
      more(S) == S \cup UNION {Named(d) : d \in UNION {m.deps : m \in S}}
      reach == FoldLeft(LAMBDA S, i : more(S), Elements(metrics), [i \in 1 .. n |-> i])
  IN [broken |-> \E d \in UNION {m.deps : m \in reach} :
                   Cardinality(Named(d)) # 1 /\ \A m \in Elements(metrics) : m.name # d,
      facts |-> reach]

\* A restorable question also needs the types of its join keys and calendar columns.
AlsoRequired(joins, tables) ==
  KeyColumns(joins) \cup {c \in DateColumns : c[1] \in tables}

Fails(status) == [status |-> status]

\* assemble_context: the closure of what the SQL may name.  A join key that was not hit is
\* added without a type.
AssembleContext(q, metrics, tables, hits, joins, facts) ==
  LET known == {c \in hits : c[1] \in tables}
  IN [status |-> "SUCCESS", tables |-> tables, cols |-> known \cup KeyColumns(joins),
      known |-> known, metrics |-> metrics, joins |-> joins, facts |-> facts,
      expressions |-> FALSE]

AssembleSuccess(q, h, metrics, tables, hits, joins) ==
  LET closure == DependencyClosure(metrics)
      required == AlsoRequired(joins, tables)
      missing == required \ hits
      k == IF Cardinality(missing) > ColumnTopK THEN Cardinality(missing) ELSE ColumnTopK
      certified == Elements(ColumnHits(tables, h.columns, h.ranks.columns, missing, k))
      pending == UNION {m.deps : m \in Elements(metrics)} \ {m.name : m \in Elements(metrics)}
  IN IF q.cond = NoCond THEN AssembleContext(q, metrics, tables, hits, joins, Elements(metrics))
     ELSE IF pending # {} /\ h.down = "definitions" THEN Fails("ASSET_UNAVAILABLE")
     ELSE IF pending \cup missing # {} /\ h.down = "assembly" THEN Fails("PROVIDER_EXCEPTION")
     ELSE IF closure.broken THEN Fails("ASSET_UNAVAILABLE")
     ELSE IF missing = {} THEN AssembleContext(q, metrics, tables, hits, joins, closure.facts)
     ELSE IF h.down = "keys" \/ ~(required \subseteq hits \cup certified)
          THEN Fails("ASSET_UNAVAILABLE")
     ELSE AssembleContext(q, metrics, tables, hits \cup certified, joins, closure.facts)

------------------------------------------------------------------------------
(* retrieval.py and retrieval_resource_stage.py *)

\* The date a question is about is the first metric's, when the question has one.
TimeField(q, metrics) ==
  IF metrics = << >> \/ ~RequiresDateContext(q) THEN NoTime ELSE metrics[1].time
Malformed(q, metrics) == metrics # << >> /\ RequiresDateContext(q) /\ ~metrics[1].time.ok

ValidateColumns(hits, required) ==
  IF hits = {} \/ ~(required \subseteq hits) THEN "NO_REQUIRED_COLUMN_HIT" ELSE "SUCCESS"

\* _retrieve_columns, then _validate_columns, _resolve_join and _assemble_success.
RetrieveColumns(q, h, tables, metrics) ==
  LET field == TimeField(q, metrics)
      candidates == CandidateTableHits(q, tables, metrics, field)
      required == RequiredColumns(metrics, field)
      hits == Elements(ColumnHits(Elements(tables), h.columns, h.ranks.columns, required, ColumnTopK))
      anchor == IF metrics # << >> THEN metrics[1].source ELSE tables[1]
      join == ResolveJoin(anchor, candidates \cup {anchor}, field)
  IN IF Malformed(q, metrics) THEN Fails("ASSET_UNAVAILABLE")
     ELSE IF candidates = Missing THEN Fails("PARTIAL_UNREACHABLE")
     ELSE IF h.down = "columns" THEN Fails("RETRIEVAL_UNAVAILABLE")
     ELSE IF ValidateColumns(hits, required) # "SUCCESS" THEN Fails(ValidateColumns(hits, required))
     ELSE IF join.status # "SUCCESS" THEN Fails(join.status)
     ELSE AssembleSuccess(q, h, metrics, candidates, hits, join.joins)

\* What _resolve_snapshot and _retrieve_resources end the request with.
ResourceFailure(down) ==
  CASE down = "snapshot" -> "ASSET_UNAVAILABLE"
    [] down = "embedding" -> "EMBEDDING_UNAVAILABLE"
    [] down = "search" -> "RETRIEVAL_UNAVAILABLE"
    [] OTHER -> "SUCCESS"

ValidateResources(tables, metrics) ==
  IF tables = << >> \/ (metrics # << >> /\ ~Contains(tables, metrics[1].source))
  THEN "NO_TABLE_HIT" ELSE "SUCCESS"

\* OnlineRetriever._retrieve_request
Retrieve(q, h) ==
  LET tables == TableHits(h.tables, h.ranks.tables)
      plan == IF q.metrics = << >> THEN [status |-> "SUCCESS", metrics |-> << >>]
              ELSE PlanRetrievedMetrics(q.metrics, h.metrics)
  IN IF ResourceFailure(h.down) # "SUCCESS" THEN Fails(ResourceFailure(h.down))
     ELSE IF MetricStatus(plan) # "SUCCESS" THEN Fails(MetricStatus(plan))
     ELSE IF ValidateResources(tables, plan.metrics) # "SUCCESS"
          THEN Fails(ValidateResources(tables, plan.metrics))
     ELSE RetrieveColumns(q, h, tables, plan.metrics)

\* context.py: the context of the mode without retrieval, every foreign key of the
\* published structure; it does not load when one lacks a unique key.
LoadQueryContext ==
  IF \E e \in Edges : <<e.target, e.to>> \notin UniqueKeys THEN Fails("STATIC_CONTEXT_UNAVAILABLE")
  ELSE [status |-> "SUCCESS", tables |-> {c[1] : c \in Columns}, cols |-> Columns,
        known |-> {}, metrics |-> << >>, joins |-> Edges, facts |-> {}, expressions |-> FALSE]
==================================================================================
