------------------------------- MODULE QueryPipeline -------------------------------
(****************************************************************************)
(* One question through the online query service: the authorized entry      *)
(* (authorization/query_entry.py), understanding, retrieval, certification, *)
(* SQL generation, the guard, the database and the description of the       *)
(* result (online_query/service.py, service_execution.py, database.py,      *)
(* result_metadata.py).  The model, the vector store and the database are   *)
(* external: what they answer is chosen.  A stop of the execution may come  *)
(* at any time and is seen at the checkpoints of the code.                  *)
(****************************************************************************)
EXTENDS SqlGuard

CONSTANTS Questions,     \* what the model reads out of a question
          Hits,          \* what the vector store answers
          Texts,         \* the SQL texts the model writes
          MaxAttempts    \* _QUERY_UNDERSTANDING_MAX_ATTEMPTS

ASSUME PipelineAssumption == MaxAttempts \in Nat \ {0}

\* Of the published metrics (semantic/metrics.json): each has a fixed filter or is computed
\* over a column, and its time field is a foreign key of its source.
ASSUME MetricsAssumption ==
  \A m \in Metrics :
    /\ m.source \notin {"", "?"}
    /\ m.filters # {} \/ m.formula.col # "*"
    /\ m.time.ok => m.time.source = m.source /\ TimeEdges(m.time) # {}

\* Of what comes from outside: sequences are sequences, and the vector store answers with
\* published documents.
ASSUME InputAssumption ==
  /\ \A q \in Questions : /\ Len(q.metrics) \in Nat /\ DOMAIN q.metrics = 1 .. Len(q.metrics)
                         /\ \A h \in Hits, i \in DOMAIN q.metrics : h.metrics[q.metrics[i]] \subseteq Metrics
  /\ \A t \in Texts : t.form = "select" => Len(t.joins) \in Nat /\ DOMAIN t.joins = 1 .. Len(t.joins)

VARIABLES pc,        \* the stage the request is in
          question,  \* the semantic query: [kind, metrics, dims, filters, time, subjects, cond]
          attempts,  \* provider calls of the understanding that failed
          context,   \* the QueryContext
          sql,       \* the text the model wrote
          result,    \* the QueryResult, NoResult while the request runs
          stopped,   \* whether the stop came before the database call or within it
          audits     \* the audit records written: <<decisions, outcomes>>

pipeVars == <<pc, question, attempts, context, sql, result, stopped, audits>>

NoResult == [code |-> "none"]
NoQuery == [kind |-> "none"]
NoText == [form |-> "none"]
Restorable == question.cond # NoCond

PipeInit ==
  /\ pc = "idle" /\ question = NoQuery /\ attempts = 0 /\ context = Fails("none")
  /\ sql = NoText /\ result = NoResult /\ stopped = "no" /\ audits = [decision |-> "none", outcomes |-> 0]

\* The request ends; execute_authorized records its outcome, whatever it is.
Finish(code) ==
  /\ pc' = "done" /\ result' = [code |-> code]
  /\ audits' = [audits EXCEPT !.outcomes = @ + 1]

\* ExecutionControl.checkpoint: an execution that was stopped goes no further.
Unstopped == stopped = "no"
Halt == ~Unstopped /\ Finish("STOPPED")

------------------------------------------------------------------------------
(* authorization/query_entry.py *)

\* A question arrives; its audit record must be written before anything else happens.
Authorize(q, verdict, written) ==
  /\ pc = "idle"
  /\ question' = q
  /\ LET code == CASE verdict = "anonymous" -> "AUTHENTICATION_REQUIRED"
                   [] verdict = "unavailable" -> "AUTHENTICATION_UNAVAILABLE"
                   [] verdict = "denied" -> "AUTHORIZATION_DENIED"
                   [] verdict = "allowed" -> "none"
     IN /\ audits' = [audits EXCEPT !.decision = IF ~written THEN "none"
                                                 ELSE IF verdict = "allowed" THEN "allow" ELSE "deny"]
        /\ IF ~written THEN pc' = "done" /\ result' = [code |-> "AUTHENTICATION_UNAVAILABLE"]
           ELSE IF code # "none" THEN pc' = "done" /\ result' = [code |-> code]
           ELSE pc' = "understand" /\ UNCHANGED result
  /\ UNCHANGED <<attempts, context, sql, stopped>>

------------------------------------------------------------------------------
(* query_understanding.py, query_understanding_llm.py and service._understand_query *)

\* validate_candidate, and the ranking without an order that a restorable question may not have.
ValidateCandidate(q) ==
  IF q.cond # NoCond /\ q.cond.limit # NoLimit /\ q.cond.order = << >> THEN "CLARIFICATION_REQUIRED"
  ELSE IF \/ q.kind = "unknown"
          \/ q.kind = "entity_lookup" /\ (q.subjects = {} \/ q.metrics # << >>)
          \/ q.kind = "metric_analysis" /\ q.metrics = << >>
          \/ Len(q.metrics) > MaxMetrics
       THEN "CANNOT_ANSWER"
  ELSE "ok"

\* What the provider may answer; candidate_from_payload refuses a malformed payload.
Answers == {"raises", "malformed", "unclear", "candidate"}

\* _understand_query: every failure of the understanding ends the request.
AfterUnderstanding(code) ==
  /\ UNCHANGED attempts
  /\ IF code = "ok" THEN pc' = "retrieve" /\ UNCHANGED <<result, audits>> ELSE Finish(code)

\* _invoke_with_retry: a provider call that raises is made again; an answer is not.  The
\* last call that raises is not followed by a checkpoint.
Understand(answer) ==
  /\ pc = "understand"
  /\ \/ Halt /\ UNCHANGED attempts
     \/ /\ Unstopped /\ answer = "raises" /\ attempts < MaxAttempts - 1
        /\ attempts' = attempts + 1
        /\ UNCHANGED <<pc, result, audits>>
     \/ answer = "raises" /\ attempts = MaxAttempts - 1 /\ AfterUnderstanding("LLM_ERROR")
     \/ Unstopped /\ answer = "malformed" /\ AfterUnderstanding("LLM_ERROR")
     \/ Unstopped /\ answer = "unclear" /\ AfterUnderstanding("CLARIFICATION_REQUIRED")
     \/ Unstopped /\ answer = "candidate" /\ AfterUnderstanding(ValidateCandidate(question))
  /\ UNCHANGED <<question, context, sql, stopped>>

------------------------------------------------------------------------------
(* service._resolve_context and the first half of _execute_query *)

ContextError(status) ==
  IF status \in {"NO_TABLE_HIT", "NO_REQUIRED_COLUMN_HIT", "NO_METRIC_HIT",
                 "PARTIAL_UNREACHABLE", "AMBIGUOUS"}
  THEN "CANNOT_ANSWER" ELSE "CONTEXT_ERROR"

\* The ways out of _resolve_context that meet no checkpoint: the mode without retrieval has
\* none, and a retrieval that raises during the stop leaves as any exception does.
Unchecked == {"STATIC_CONTEXT_UNAVAILABLE", "PROVIDER_EXCEPTION"}

\* The retrieval, then prepare_restoration_state when the question must be restorable.
ResolveContext(h) ==
  /\ pc = "retrieve"
  /\ LET ctx == IF h.down = "no_retriever" THEN LoadQueryContext ELSE Retrieve(question, h)
         verdict == IF Restorable THEN PrepareRestorationState(question, ctx) ELSE "ok"
     IN \/ ctx.status # "STATIC_CONTEXT_UNAVAILABLE" /\ Halt /\ UNCHANGED context
        \/ ctx.status \in Unchecked /\ Finish(ContextError(ctx.status)) /\ UNCHANGED context
        \/ /\ Unstopped /\ ctx.status \notin Unchecked
           /\ IF ctx.status # "SUCCESS" THEN Finish(ContextError(ctx.status)) /\ UNCHANGED context
              ELSE IF verdict # "ok" THEN Finish(verdict) /\ UNCHANGED context
              ELSE pc' = "generate" /\ context' = ctx /\ UNCHANGED <<result, audits>>
  /\ UNCHANGED <<question, attempts, sql, stopped>>

\* llm.generate: an exception of the provider is not a checkpoint, an answer is.
Generate(text) ==
  /\ pc = "generate"
  /\ \/ Halt /\ UNCHANGED sql
     \/ text.form = "raises" /\ Finish("LLM_ERROR") /\ UNCHANGED sql
     \/ Unstopped /\ text.form = "CANNOT_ANSWER" /\ Finish("CANNOT_ANSWER") /\ UNCHANGED sql
     \/ /\ Unstopped /\ text.form \notin {"raises", "CANNOT_ANSWER"}
        /\ pc' = "guard" /\ sql' = text /\ UNCHANGED <<result, audits>>
  /\ UNCHANGED <<question, attempts, context, stopped>>

\* Candidate scope, SQL guard and the comparison with the certified conditions.
Accepts(q, ctx, text) ==
  /\ ParseSingleSelect(text)
  /\ ValidateScope(text, ctx)
  /\ ValidateSql(text, ctx, q.cond # NoCond)
  /\ q.cond # NoCond => ValidateRestorationSql(text, q, ctx)

Guard ==
  /\ pc = "guard"
  /\ \/ Halt
     \/ /\ Unstopped
        /\ IF Accepts(question, context, sql) THEN pc' = "database" /\ UNCHANGED <<result, audits>>
           ELSE Finish("SQL_REJECTED")
  /\ UNCHANGED <<question, attempts, context, sql, stopped>>

------------------------------------------------------------------------------
(* database.py and the second half of _execute_query *)

\* The connection is opened and the statement sent.
Send ==
  /\ pc = "database"
  /\ \/ Halt
     \/ Unstopped /\ pc' = "running" /\ UNCHANGED <<result, audits>>
  /\ UNCHANGED <<question, attempts, context, sql, stopped>>

\* result_metadata.py: what may be said of the result.  A filter is described when its
\* column is a dimension's; the rest leaves the scope partial.
Describes(c) == \E t \in DOMAIN Bindings : c.e = Column(Bindings[t].col)
MatchedMetrics(q, ctx, text) ==
  {m \in Metrics : /\ \E i \in DOMAIN q.metrics : q.metrics[i] \in m.labels
                   /\ FixedFilters(m) \subseteq {CanonicalCondition(text, ctx, c) : c \in Elements(text.where)}
                   /\ Formula(m) \in {Canonical(text, ctx, o) : o \in Elements(text.outs)}}

\* The grouping columns the result can name: a dimension, or a period under the date role.
Covered(q, ctx, text, role) ==
  {g \in {Canonical(text, ctx, e) : e \in text.group} :
     \/ role /\ CalendarPart(g) # "none" /\ Elements(q.dims) \cap DOMAIN Grains # {}
     \/ \E t \in Elements(q.dims) \cap DOMAIN Bindings : g = Column(Bindings[t].col)}

ResultScope(q, ctx, text) ==
  LET actual == {CanonicalCondition(text, ctx, c) : c \in Elements(text.where)}
      matched == MatchedMetrics(q, ctx, text)
      fixed == UNION {FixedFilters(m) : m \in matched}
      dates == {x \in actual : x.op = "in_window"}
      windows == {c.val : c \in dates}
      role == CompletionDateRole(text, ctx, matched)
      period == IF role /\ Cardinality(windows) = 1 THEN windows ELSE {}
      agrees == q.time = NoTime \/ period = {} \/ period = {q.time.window}
      consumed == IF period # {} /\ agrees THEN dates ELSE {}
      remaining == {c \in actual \ (fixed \cup consumed) : ~(c.op # "or" /\ Describes(c))}
      time == IF period # {} /\ agrees THEN "confirmed"
              ELSE IF period = {} /\ remaining = {} /\ q.time = NoTime THEN "unbounded" ELSE "unknown"
      named == Covered(q, ctx, text, role) = {Canonical(text, ctx, e) : e \in text.group}
  IN [status |-> IF remaining = {} /\ time # "unknown" /\ named /\ text.having = {}
                 THEN "complete" ELSE "partial",
      time |-> time, period |-> IF agrees THEN period ELSE {},
      filters |-> actual \ (fixed \cup consumed \cup remaining)]

\* Mutant: what the database answered is returned without a look at the stop.
ReturnBlind(outcome) ==
  /\ pc = "running"
  /\ \/ outcome = "rows" /\ pc' = "done" /\ audits' = [audits EXCEPT !.outcomes = @ + 1]
          /\ result' = [code |-> "SUCCESS", scope |-> ResultScope(question, context, sql)]
     \/ outcome = "cancelled" /\ Finish("QUERY_TIMEOUT")
     \/ outcome = "error" /\ Finish("DATABASE_ERROR")
  /\ UNCHANGED <<question, attempts, context, sql, stopped>>

\* The statement ends.  Every way out looks at the stop first: a statement the stop
\* cancelled is not a timeout.
Return(outcome) ==
  /\ pc = "running"
  /\ \/ Halt
     \/ /\ Unstopped
        /\ \/ outcome = "rows" /\ pc' = "done" /\ audits' = [audits EXCEPT !.outcomes = @ + 1]
                /\ result' = [code |-> "SUCCESS", scope |-> ResultScope(question, context, sql)]
           \/ outcome = "cancelled" /\ Finish("QUERY_TIMEOUT")
           \/ outcome = "error" /\ Finish("DATABASE_ERROR")
  /\ UNCHANGED <<question, attempts, context, sql, stopped>>

\* The execution is stopped: by its user, its deadline, the end of its session.
Stop ==
  /\ pc \notin {"idle", "done"} /\ stopped = "no"
  /\ stopped' = IF pc = "running" THEN "within" ELSE "before"
  /\ UNCHANGED <<pc, question, attempts, context, sql, result, audits>>

PipeNext ==
  \/ \E q \in Questions, v \in {"anonymous", "unavailable", "denied", "allowed"}, w \in BOOLEAN : Authorize(q, v, w)
  \/ \E a \in Answers : Understand(a)
  \/ \E h \in Hits : ResolveContext(h)
  \/ \E t \in Texts : Generate(t)
  \/ Guard
  \/ Send
  \/ \E o \in {"rows", "cancelled", "error"} : Return(o)
  \/ Stop

------------------------------------------------------------------------------
(* Properties *)

\* The text the database was sent, and the context it was accepted in.
Sent == sql # NoText /\ pc \in {"database", "running"}
Certain == Sent /\ context.metrics # << >>

\* The reference a column is of: the one it is qualified with, or the only one that has it.
ColumnOf(at, r) ==
  IF at[1] = "" THEN {x \in Elements(References(sql)) : <<x.table, at[2]>> \in context.cols} = {r}
  ELSE at[1] = r.alias

\* No row is counted twice: in a text that computes a metric the rows come from the
\* metric's own table, and every join looks its table up by a unique key, all of whose
\* columns are equated with columns of tables named before it (sql_guard_join.py:9-60,
\* sql_guard_multi_metric.py:63-147, relationship_graph.py:95-190).
CountedOnce ==
  Certain =>
    /\ sql.from.table = context.metrics[1].source
    /\ \A i \in DOMAIN sql.joins :
         LET j == sql.joins[i]
             earlier(at) == \E k \in 1 .. i : ColumnOf(at, References(sql)[k])
             own == {p.r : p \in {x \in j.on : ColumnOf(x.r, j.to) /\ earlier(x.l)}}
                      \cup {p.l : p \in {x \in j.on : ColumnOf(x.l, j.to) /\ earlier(x.r)}}
         IN \E k \in UniqueKeys : k[1] = j.to.table /\ Elements(k[2]) \subseteq {at[2] : at \in own}

\* A metric is never dated by another role of the calendar: whenever the date dimension is
\* joined, it is on the key the metric's definition names (relationship_graph.py:76-150).
RightDateRole ==
  Certain =>
    \A i \in DOMAIN sql.joins : \A m \in Elements(context.metrics) :
      (m.time.ok /\ sql.joins[i].to.table = m.time.target) =>
        {<<m.source, m.time.col>>} = {x \in UNION JoinPairs(sql, context, sql.joins[i].on) : x[1] = m.source}

\* The columns of an answer are the metrics that were asked for: every label of the
\* question is computed once, by a published definition that carries it and with its fixed
\* filters, and nothing else is aggregated (multi_metric.py:21-159, sql_guard_metrics.py).
MetricsComplete ==
  Certain =>
    LET asked == Elements(context.metrics)
        aggs == MetricOutputs(sql)
    IN /\ asked \subseteq Metrics
       /\ \A i \in DOMAIN question.metrics : \E m \in asked : question.metrics[i] \in m.labels
       /\ \A m \in asked : \E i \in DOMAIN question.metrics : question.metrics[i] \in m.labels
       /\ {Canonical(sql, context, aggs[i]) : i \in 1 .. Len(aggs)} = {Formula(m) : m \in asked}
       /\ Len(aggs) = Cardinality(asked)
       /\ \A m \in asked : FixedFilters(m) \subseteq {CanonicalCondition(sql, context, c) : c \in Elements(sql.where)}

\* The number in an answer is the metric that was asked for (the three parts above).
MetricsExact == CountedOnce /\ RightDateRole /\ MetricsComplete

\* A ranking is determined: a restorable text that limits its rows orders them by every
\* column that is not an aggregate, so asking again cannot return other rows of a tie
\* (semantic_state.py:255-480).
RankingTotal ==
  (Sent /\ Restorable /\ sql.limit # NoLimit) =>
    \A o \in DimensionOutputs(sql) :
      \E k \in Elements(sql.order) : \/ Canonical(sql, context, k.e) = Canonical(sql, context, o)
                                     \/ k.e = [fn |-> "col", at |-> <<"", o.as>>]

\* The text that asks what a certified question asks: each metric and each field once,
\* the certified joins, filters, window, order and limit.
WitnessSql(q, ctx) ==
  LET base == IF ctx.joins # {} THEN (CHOOSE e \in ctx.joins : TRUE).source ELSE CHOOSE t \in ctx.tables : TRUE
      edges == SetToSeq(ctx.joins)
      col(at) == [fn |-> "col", at |-> at]
      parts(t) == CASE t \notin DOMAIN Grains -> <<col(BoundColumn(t))>>
                    [] t \in DOMAIN Grains /\ Grains[t] = "year" -> <<[fn |-> "year", at |-> DateColumn]>>
                    [] OTHER -> <<[fn |-> "year", at |-> DateColumn], [fn |-> Grains[t], at |-> DateColumn]>>
      fields == Distinct(FoldLeft(LAMBDA acc, t : acc \o parts(t), << >>, Requested(q)))
      exprs == [i \in DOMAIN ctx.metrics |-> Formula(ctx.metrics[i])] \o fields
      names == <<"o1", "o2", "o3", "o4", "o5", "o6">>
      name(e) == names[CHOOSE i \in DOMAIN exprs : exprs[i] = e]
      of(o) == IF o.kind = "metric" THEN <<Formula(CHOOSE m \in Elements(ctx.metrics) : o.target \in m.labels)>>
               ELSE parts(o.target)
      by(o) == [i \in DOMAIN of(o) |-> [e |-> col(<<"", name(of(o)[i])>>), desc |-> o.desc, first |-> o.first]]
      fixed == UNION {FixedFilters(m) : m \in Elements(ctx.metrics)}
      filters == {[e |-> col(BoundColumn(t)), op |-> "=", val |-> t] : t \in Elements(q.filters)}
      dates == IF q.time = NoTime THEN {} ELSE {[e |-> col(DateColumn), op |-> "in_window", val |-> q.time.window]}
  IN [form |-> "select", from |-> [table |-> base, alias |-> base],
      joins |-> [i \in DOMAIN edges |->
                   [side |-> "left", to |-> [table |-> edges[i].target, alias |-> edges[i].target],
                    on |-> {[l |-> <<edges[i].source, edges[i].from[k]>>, r |-> <<edges[i].target, edges[i].to[k]>>,
                             eq |-> TRUE] : k \in DOMAIN edges[i].from}]],
      where |-> SetToSeq(fixed \cup filters \cup dates),
      outs |-> [i \in DOMAIN exprs |-> [fn |-> exprs[i].fn, at |-> exprs[i].at, as |-> names[i]]],
      group |-> IF q.cond.select.is THEN {} ELSE Elements(fields),
      having |-> {[e |-> Formula(CHOOSE m \in Elements(ctx.metrics) : f.metric \in m.labels), op |-> f.op, val |-> f.val]
                   : f \in q.cond.having},
      distinct |-> q.cond.select.is /\ q.cond.select.distinct,
      order |-> FoldLeft(LAMBDA acc, o : acc \o by(o), << >>, EffectiveOrder(q)),
      limit |-> q.cond.limit]

\* Certification is not a dead end: for every restorable question that passes it there is
\* a text the guard and the comparison accept together, so their rules never contradict
\* each other (semantic_state.py:44-252 with 255-480 and the SQL guard).
Answerable ==
  (pc = "generate" /\ Restorable) => Accepts(question, context, WitnessSql(question, context))

\* A stop wins over the answer: a request stopped at any time before its end reports the
\* stop, never rows, a rejection, a timeout or a database error.  Only a model or a
\* retrieval that fails during the stop is reported instead of it, and only while there is
\* no text yet.  A statement is not sent after the stop (service.py:256-297,
\* service_execution.py:42-272, database.py:80-121).
StopWins ==
  (stopped # "no") =>
    /\ pc = "done" => \/ result.code = "STOPPED"
                      \/ sql = NoText /\ result.code \in {"LLM_ERROR", "CONTEXT_ERROR"}
    /\ stopped = "before" => pc # "running"

==================================================================================
