--------------------------------- MODULE SqlGuard ---------------------------------
(****************************************************************************)
(* The checks a SQL text passes before it reaches the database: the SQL     *)
(* guard (online_query/sql_guard/) against the context retrieval assembled, *)
(* and, for a question that must be restorable, semantic_state.py: the      *)
(* certification of its conditions before a SQL exists and the comparison   *)
(* of the SQL with them.                                                    *)
(*                                                                          *)
(* A SQL is [form, from, joins, where, outs, group, having, distinct,       *)
(* order, limit].  A reference is [table, alias]; an expression is [fn, at] *)
(* with at = <<alias, column>>, the alias "" when the column is not         *)
(* qualified and <<"", "*">> for the star of COUNT; a condition is          *)
(* [e, op, val], op "or" standing for a disjunction and "in_window" for the *)
(* date predicates that state a window (QueryCalendar reads those back).    *)
(****************************************************************************)
EXTENDS Retrieval

CONSTANTS Bindings,     \* query_bindings.json: [term -> [col, subject]]
          Grains,       \* the calendar terms and their grain: [term -> "year" | "quarter" | "month"]
          DateColumn,   \* dim_date.full_date
          DateKey       \* the foreign key of the certified date role

Aggregates == {"sum", "count", "avg"}
Star == <<"", "*">>
Bad == <<"?", "?">>
NoLimit == 0

References(sql) == <<sql.from>> \o [i \in DOMAIN sql.joins |-> sql.joins[i].to]
Tables(sql) == {r.table : r \in Elements(References(sql))}

\* Every expression of the text, by clause.
Conditions(sql) == Elements(sql.where) \cup sql.having
Expressions(sql) ==
  Elements(sql.outs) \cup {c.e : c \in Conditions(sql)} \cup sql.group
    \cup {o.e : o \in Elements(sql.order)}
    \cup UNION {UNION {{[fn |-> "col", at |-> p.l], [fn |-> "col", at |-> p.r]} : p \in sql.joins[i].on}
                : i \in DOMAIN sql.joins}

------------------------------------------------------------------------------
(* sql_guard_scope.py *)

\* The tables a name may stand for: both the alias and the name of every reference bind.
TableBindings(sql, name) == {r.table : r \in {x \in Elements(References(sql)) : name \in {x.table, x.alias}}}

\* The physical column a reference names, Bad when it is not unique or not allowed.
ColumnIdentity(sql, ctx, at) ==
  LET found == IF at[1] = "" THEN {t \in Tables(sql) : <<t, at[2]>> \in ctx.cols}
               ELSE TableBindings(sql, at[1])
      table == CHOOSE t \in found : TRUE
  IN IF Cardinality(found) = 1 /\ <<table, at[2]>> \in ctx.cols THEN <<table, at[2]>> ELSE Bad

Canonical(sql, ctx, e) == [fn |-> e.fn, at |-> IF e.at = Star THEN Star ELSE ColumnIdentity(sql, ctx, e.at)]
CanonicalCondition(sql, ctx, c) == [e |-> Canonical(sql, ctx, c.e), op |-> c.op, val |-> c.val]

\* The formula and the fixed filters of a metric, over its source.
Formula(m) == [fn |-> m.formula.fn, at |-> IF m.formula.col = "*" THEN Star ELSE <<m.source, m.formula.col>>]
FixedFilters(m) == {[e |-> [fn |-> "col", at |-> <<m.source, f.col>>], op |-> "=", val |-> f.val] : f \in m.filters}

\* sqlglot's qualify: a reference is visible under its alias only, a column without one
\* must be in a single table, an ORDER BY may name an output.
Qualifies(sql, ctx, e) ==
  \/ e.at = Star
  \/ e.fn = "col" /\ e.at[1] = "" /\ \E o \in Elements(sql.outs) : o.as = e.at[2]
  \/ e.at[1] # "" /\ \E r \in Elements(References(sql)) : r.alias = e.at[1] /\ <<r.table, e.at[2]>> \in ctx.cols
  \/ e.at[1] = "" /\ Cardinality({r \in Elements(References(sql)) : <<r.table, e.at[2]>> \in ctx.cols}) = 1

\* _validate_physical_tables and _validate_columns
ValidateScope(sql, ctx) ==
  /\ Tables(sql) \subseteq ctx.tables
  /\ \A i, j \in DOMAIN References(sql) : i # j => References(sql)[i].alias # References(sql)[j].alias
  /\ \A e \in Expressions(sql) : Qualifies(sql, ctx, e)

\* _ensure_candidate and _parse_single_select, before the scope check.
ParseSingleSelect(sql) == sql.form \in {"select", "forbidden", "with", "unknown_function"}

------------------------------------------------------------------------------
(* sql_guard_join.py: each join spends one certified foreign key *)

JoinPairs(sql, ctx, on) == {{ColumnIdentity(sql, ctx, p.l), ColumnIdentity(sql, ctx, p.r)} : p \in on}
ConstraintPairs(e) == {{<<e.source, e.from[i]>>, <<e.target, e.to[i]>>} : i \in DOMAIN e.from}

\* The foreign keys a join states.
Certified(sql, ctx, j) ==
  {e \in ctx.joins : e.target = j.to.table /\ JoinPairs(sql, ctx, j.on) = ConstraintPairs(e)}

JoinsSpend(sql, ctx) ==
  LET js == sql.joins
  IN \A i \in DOMAIN js :
       /\ js[i].side = "left"
       /\ \A p \in js[i].on : p.eq /\ Bad \notin {ColumnIdentity(sql, ctx, p.l), ColumnIdentity(sql, ctx, p.r)}
       /\ Cardinality(Certified(sql, ctx, js[i])) = 1
       /\ \A k \in 1 .. i - 1 : Certified(sql, ctx, js[k]) \cap Certified(sql, ctx, js[i]) = {}

ValidateJoinConstraints(sql, ctx) ==
  /\ sql.from.table \in {e.source : e \in ctx.joins}
  /\ JoinsSpend(sql, ctx)

------------------------------------------------------------------------------
(* sql_guard_metrics.py and sql_guard_multi_metric.py *)

\* The fixed filters are conjuncts of WHERE, never a branch of an OR.
ValidateMetricFilters(sql, ctx) ==
  LET actual == {CanonicalCondition(sql, ctx, c) : c \in Elements(sql.where)}
  IN /\ \A c \in actual : c.e.at # Bad
     /\ UNION {FixedFilters(m) : m \in Elements(ctx.metrics)} \subseteq actual

MetricOutputs(sql) == SelectSeq(sql.outs, LAMBDA o : o.fn \in Aggregates)
DimensionOutputs(sql) == {o \in Elements(sql.outs) : o.fn \notin Aggregates}

\* The aggregates are the certified formulas, all of them, in the requested order.
ValidateMetricFormulas(sql, ctx) ==
  LET aggs == MetricOutputs(sql)
  IN /\ Len(aggs) = Len(ctx.metrics)
     /\ \A i \in 1 .. Len(aggs) : Canonical(sql, ctx, aggs[i]) = Formula(ctx.metrics[i])

\* Mutant: the dimensions of a restorable question must be plain columns too.
ValidateMultiMetricColumns(sql, ctx, expressions) ==
  /\ JoinsSpend(sql, ctx) /\ ValidateMetricFilters(sql, ctx) /\ ValidateMetricFormulas(sql, ctx)
  /\ \A o \in DimensionOutputs(sql) : o.fn = "col"

\* Two metrics or more: one reference to each table, no DISTINCT, HAVING or OR, no other
\* aggregate anywhere and the grouping exactly the dimensions selected.
ValidateMultiMetricExpression(sql, ctx, expressions) ==
  LET refs == References(sql)
      source == ctx.metrics[1].source
  IN /\ ~sql.distinct /\ sql.having = {}
     /\ sql.from.table = source
     /\ \A i, j \in DOMAIN refs : i # j => refs[i].table # refs[j].table
     /\ Tables(sql) \subseteq {source} \cup {e.target : e \in ctx.joins}
     /\ JoinsSpend(sql, ctx)
     /\ \A c \in Elements(sql.where) : c.op # "or"
     /\ ValidateMetricFilters(sql, ctx)
     /\ \A o \in DimensionOutputs(sql) : expressions \/ o.fn = "col"
     /\ \A o \in Elements(sql.order) : o.e.fn \notin Aggregates
     /\ \A e \in sql.group : e.fn \notin Aggregates
     /\ {Canonical(sql, ctx, o) : o \in DimensionOutputs(sql)} = {Canonical(sql, ctx, e) : e \in sql.group}
     /\ ValidateMetricFormulas(sql, ctx)

\* _ValidationSession.validate_sql, after the scope check.
ValidateSql(sql, ctx, expressions) ==
  /\ sql.form = "select"
  /\ IF Len(ctx.metrics) >= 2 THEN ValidateMultiMetricExpression(sql, ctx, expressions)
     ELSE /\ sql.joins # << >> => ValidateJoinConstraints(sql, ctx)
          /\ ctx.metrics # << >> => ValidateMetricFilters(sql, ctx) /\ ValidateMetricFormulas(sql, ctx)

------------------------------------------------------------------------------
(* semantic_state.py: the conditions of a restorable question.  A question's cond is   *)
(* [is, order, limit, having, select]: order a sequence of [kind, target, desc, first], *)
(* having a set of [metric, op, val], select [is, fields, distinct].                   *)

\* The published definitions a label may name, and the selected ones it names.
NamedBy(label, facts) == {m \in facts : label \in m.labels}

\* Every dependency is defined once and no definition depends on itself.
DependenciesDefined(m, facts) ==
  LET n == Cardinality(facts)
      step(S) == UNION {{x \in facts : x.name = d} : d \in UNION {x.deps : x \in S}}
      chain == FoldLeft(LAMBDA acc, i : Append(acc, step(Last(acc))), <<{m}>>, [i \in 1 .. n |-> i])
  IN /\ \A i \in DOMAIN chain : \A d \in UNION {x.deps : x \in chain[i]} :
          Cardinality({x \in facts : x.name = d}) = 1
     /\ chain[n + 1] = {}

\* The column a business term is bound to.
BoundColumn(t) == IF t \in DOMAIN Grains THEN DateColumn ELSE Bindings[t].col

Requested(q) == IF q.cond.select.is THEN q.cond.select.fields ELSE q.dims

\* The published record every requested metric is certified as.
Certifies(q, facts) ==
  \A i \in DOMAIN q.metrics :
    /\ Cardinality(NamedBy(q.metrics[i], facts)) = 1
    /\ \A m \in NamedBy(q.metrics[i], facts) : DependenciesDefined(m, facts)
Record(q, facts) == [i \in DOMAIN q.metrics |-> CHOOSE m \in NamedBy(q.metrics[i], facts) : TRUE]

\* The requested metrics a condition's label names, counted per request; one is wanted.
Naming(label, record) == {i \in DOMAIN record : label \in record[i].labels}
SelectedMetricNames(q, record) ==
  \A l \in {o.target : o \in {x \in Elements(q.cond.order) : x.kind = "metric"}}
           \cup {f.metric : f \in q.cond.having} : Cardinality(Naming(l, record)) = 1

\* The fields fit the kind of question and are bound to a column.
FieldsBound(q, record) ==
  LET fields == Elements(Requested(q))
  IN /\ IF q.kind = "entity_lookup"
        THEN /\ q.cond.select.is /\ q.cond.having = {} /\ q.subjects # {}
             /\ \A t \in fields : t \in DOMAIN Bindings /\ Bindings[t].subject \in q.subjects
        ELSE ~q.cond.select.is /\ (Len(record) >= 2 => q.cond.having = {})
     /\ fields \cup Elements(q.filters) \subseteq DOMAIN Grains \cup DOMAIN Bindings

\* The order is over outputs, each of the kind it says, and a ranking has one.
OrderCertified(q, record) ==
  LET names == {record[i].name : i \in DOMAIN record}
      target(o) == IF o.kind = "metric" THEN record[CHOOSE i \in Naming(o.target, record) : TRUE].name ELSE o.target
      kind(o) == IF target(o) \in names THEN "metric"
                 ELSE IF o.target \in DOMAIN Grains THEN "time"
                 ELSE IF q.cond.select.is THEN "entity_field" ELSE "dimension"
  IN /\ q.cond.limit # NoLimit => q.cond.order # << >>
     /\ \A o \in Elements(q.cond.order) :
          target(o) \in Elements(Requested(q)) \cup names /\ o.kind = kind(o)

\* Every column the answer is over is in the context, with a known type.
ClosureCertified(q, record, ctx) ==
  LET terms == Elements(Requested(q)) \cup Elements(q.filters)
      dated == q.time # NoTime \/ Elements(Requested(q)) \cap DOMAIN Grains # {}
      over == {BoundColumn(t) : t \in terms} \cup RequiredColumns(record, NoTime)
                \cup (IF dated THEN {DateColumn} \cup KeyColumns({DateKey}) ELSE {})
      used == {c[1] : c \in over} \cup {record[i].source : i \in DOMAIN record}
      joins == {e \in ctx.joins : e.source \in used /\ e.target \in used}
  IN used \subseteq ctx.tables /\ over \cup KeyColumns(joins) \subseteq ctx.known

\* prepare_restoration_state's verdict.
PrepareRestorationState(q, ctx) ==
  IF ~Certifies(q, ctx.facts) THEN "CONTEXT_ERROR"
  ELSE IF ~SelectedMetricNames(q, Record(q, ctx.facts)) THEN "CLARIFICATION_REQUIRED"
  ELSE IF /\ FieldsBound(q, Record(q, ctx.facts)) /\ OrderCertified(q, Record(q, ctx.facts))
          /\ ClosureCertified(q, Record(q, ctx.facts), ctx)
       THEN "ok" ELSE "CONTEXT_ERROR"

\* The calendar part an output selects (calendar_part).
CalendarPart(e) == IF e.at = DateColumn
                   THEN (IF e.fn = "col" THEN "period:day" ELSE e.fn) ELSE "none"

\* The outputs that identify the period of a calendar term, << >> when they do not.
TimeSignature(sql, ctx, grain) ==
  LET sigs == {Canonical(sql, ctx, o) : o \in Elements(sql.outs)}
      at(part) == {s \in sigs : CalendarPart(s) = part}
      only(part) == CHOOSE s \in at(part) : TRUE
      whole == CASE grain = "year" -> "period:year" [] grain = "month" -> "period:month"
                 [] OTHER -> "period:quarter"
  IN IF at(whole) # {} THEN <<only(whole)>>
     ELSE IF at("year") = {} THEN << >>
     ELSE IF grain = "year" THEN <<only("year")>>
     ELSE IF at(grain) # {} THEN <<only("year"), only(grain)>> ELSE << >>

\* completion_date_role: the date dimension is joined on the certified key.
CompletionDateRole(sql, ctx, metrics) ==
  /\ metrics # {} /\ \A m \in metrics : m.time = [ok |-> TRUE, source |-> DateKey.source,
       col |-> DateKey.from[1], target |-> DateKey.target, filter |-> DateColumn[2]]
  /\ \E i \in DOMAIN sql.joins : JoinPairs(sql, ctx, sql.joins[i].on) = ConstraintPairs(DateKey)

\* The order the question asks for: its own, then every other requested field when the
\* number of rows is limited or no order is asked for, so that the rows are determined.
EffectiveOrder(q) ==
  LET fields == Requested(q)
      tail == IF q.cond.limit # NoLimit \/ q.cond.order = << >>
              THEN SelectSeq(fields, LAMBDA t : \A o \in Elements(q.cond.order) : o.target # t)
              ELSE << >>
  IN q.cond.order \o [i \in DOMAIN tail |-> [kind |-> "term", target |-> tail[i], desc |-> FALSE, first |-> FALSE]]

Column(at) == [fn |-> "col", at |-> at]
MetricNamed(label, metrics) == Formula(CHOOSE m \in metrics : label \in m.labels)

\* The outputs that stand for a field.
Signature(sql, ctx, t) ==
  IF t \in DOMAIN Grains THEN TimeSignature(sql, ctx, Grains[t]) ELSE <<Column(BoundColumn(t))>>

\* The outputs and the grouping are the fields and metrics that were asked for, each once.
OutputsAsAsked(sql, q, ctx, metrics) ==
  LET fields == Elements(Requested(q))
      dims == UNION {Elements(Signature(sql, ctx, t)) : t \in fields}
      sigs == [i \in DOMAIN sql.outs |-> Canonical(sql, ctx, sql.outs[i])]
  IN /\ \A t \in fields : Signature(sql, ctx, t) # << >>
     /\ Elements(sigs) = {Formula(m) : m \in metrics} \cup dims
     /\ \A i, j \in DOMAIN sigs : i # j => sigs[i] # sigs[j]
     /\ {Canonical(sql, ctx, e) : e \in sql.group} = (IF q.cond.select.is THEN {} ELSE dims)
     /\ sql.distinct <=> (q.cond.select.is /\ q.cond.select.distinct)

\* The rows are restricted by the window, the fixed filters and the filters, and by no other.
ConditionsAsAsked(sql, q, ctx, metrics) ==
  LET window == {i \in DOMAIN sql.where : sql.where[i].op = "in_window"}
      consumed == IF q.time = NoTime THEN {} ELSE window
  IN /\ q.time # NoTime => /\ CompletionDateRole(sql, ctx, metrics)
                           /\ {sql.where[i].val : i \in window} = {q.time.window}
     /\ {CanonicalCondition(sql, ctx, sql.where[i]) : i \in DOMAIN sql.where \ consumed}
          = UNION {FixedFilters(m) : m \in metrics}
              \cup {[e |-> Column(BoundColumn(t)), op |-> "=", val |-> t] : t \in Elements(q.filters)}
     /\ {CanonicalCondition(sql, ctx, c) : c \in sql.having}
          = {[e |-> MetricNamed(f.metric, metrics), op |-> f.op, val |-> f.val] : f \in q.cond.having}

\* The order and the number of rows; an ORDER BY may name an output.
OrderAsAsked(sql, q, ctx, metrics) ==
  LET named(e) == {i \in DOMAIN sql.outs : e.fn = "col" /\ e.at[1] = "" /\ sql.outs[i].as = e.at[2]}
      meant(e) == Canonical(sql, ctx, IF named(e) # {} THEN sql.outs[CHOOSE i \in named(e) : TRUE] ELSE e)
      wanted(o) == LET es == IF o.kind = "metric" THEN <<MetricNamed(o.target, metrics)>>
                             ELSE Signature(sql, ctx, o.target)
                   IN [i \in DOMAIN es |-> [e |-> es[i], desc |-> o.desc, first |-> o.first]]
  IN /\ [i \in DOMAIN sql.order |-> [sql.order[i] EXCEPT !.e = meant(sql.order[i].e)]]
          = FoldLeft(LAMBDA acc, o : acc \o wanted(o), << >>, EffectiveOrder(q))
     /\ sql.limit = q.cond.limit

\* validate_restoration_sql: nothing but the certified conditions, all of them.
ValidateRestorationSql(sql, q, ctx) ==
  LET metrics == Elements(Record(q, ctx.facts))
  IN /\ OutputsAsAsked(sql, q, ctx, metrics)
     /\ ConditionsAsAsked(sql, q, ctx, metrics)
     /\ OrderAsAsked(sql, q, ctx, metrics)
==================================================================================
