-------------------------- MODULE SemanticRevision --------------------------
(***************************************************************************)
(* How a follow-up question changes the conditions of the turn before it:  *)
(* query_api/semantic_revision.py, with validate_candidate of              *)
(* online_query/query_understanding.py.                                    *)
(*                                                                         *)
(* A text is a pair <<key, spelling>>: blanks and case make two spellings  *)
(* of one key.  A query state is a record of slots; a delta has the same   *)
(* slots, empty where the question says nothing.  A time of a delta is     *)
(* None, a window, or the word "now" (当前, 目前, 现在) that a model may     *)
(* put there.                                                              *)
(***************************************************************************)
EXTENDS Naturals, Sequences, FiniteSets, SequencesExt

CONSTANTS None, MaxMetrics

\* What the constants must satisfy.
RevisionAssumption == MaxMetrics \in Nat

TextKey(text) == text[1]

Positions(seq, Test(_)) == {i \in DOMAIN seq : Test(seq[i])}

(* previous, then what is new of current, one item at a time *)
AppendUnique(previous, current) ==
  LET Add(acc, item) == IF Positions(acc, LAMBDA x : TextKey(x) = TextKey(item)) = {}
                          THEN Append(acc, item) ELSE acc
  IN  FoldLeft(Add, previous, current)

\* Mutant: fields are compared letter by letter.
MergeFiltersSpelled(previous, current) ==
  LET Put(acc, item) ==
        LET at == Positions(acc, LAMBDA x : x.field = item.field)
        IN  IF at = {} THEN Append(acc, item)
            ELSE [acc EXCEPT ![CHOOSE i \in at : \A j \in at : j <= i] = item]
  IN  FoldLeft(Put, previous, current)

(* a field already filtered takes the new condition in place of its last one *)
MergeFilters(previous, current) ==
  LET Put(acc, item) ==
        LET at == Positions(acc, LAMBDA x : TextKey(x.field) = TextKey(item.field))
        IN  IF at = {} THEN Append(acc, item)
            ELSE [acc EXCEPT ![CHOOSE i \in at : \A j \in at : j <= i] = item]
  IN  FoldLeft(Put, previous, current)

HasSemanticDelta(delta) ==
  \/ delta.subjects # <<>> \/ delta.metrics # <<>> \/ delta.dimensions # <<>>
  \/ delta.time # None \/ delta.filters # <<>>

(* validate_candidate: which merged slots are a query at all; "now" is no window *)
Answerable(q) ==
  /\ q.type # "unknown" /\ Len(q.metrics) <= MaxMetrics
  /\ IF q.type = "entity_lookup" THEN q.subjects # <<>> /\ q.metrics = <<>> ELSE q.metrics # <<>>

ValidateTime(time) == IF time = "now" THEN None ELSE time

Else(slot, old) == IF slot = <<>> THEN old ELSE slot

(* _merge_and_validate; None when the merged slots are refused *)
Merge(previous, delta, replacing) ==
  LET merged == [previous EXCEPT
        !.type = IF delta.type = "unknown" THEN @ ELSE delta.type,
        !.subjects = Else(delta.subjects, @),
        !.metrics = Else(delta.metrics, @),
        !.dimensions = IF replacing THEN delta.dimensions ELSE AppendUnique(@, delta.dimensions),
        !.filters = MergeFilters(@, delta.filters),
        !.time = IF delta.time = None THEN @ ELSE ValidateTime(delta.time)]
  IN  IF Answerable(merged) THEN merged ELSE None

(* revise_semantic_query; op is what _dimension_operation reads from the words *)
Revise(previous, delta, op) ==
  IF op = "clarify" \/ (op = "replace" /\ delta.dimensions = <<>>) \/ ~HasSemanticDelta(delta) THEN None
  ELSE Merge(previous, delta, op = "replace")

(***************************************************************************)
(* revise_history_semantic_query: order, row limit and selection follow    *)
(* operations of their own, <<"keep">>, <<"clear">> or <<"set", value>>.   *)
(***************************************************************************)
Applied(operation, old, cleared) ==
  CASE operation[1] = "keep" -> old [] operation[1] = "clear" -> cleared [] operation[1] = "set" -> operation[2]

MetricTargets(order) == {o.target : o \in {x \in Range(order) : x.kind = "metric"}}

Retarget(order, metric) ==
  [i \in DOMAIN order |-> IF order[i].kind = "metric" THEN [order[i] EXCEPT !.target = metric] ELSE order[i]]

(* A kept order follows the one metric that replaced the one before it. *)
FollowMetrics(order, old, new) ==
  LET missing == MetricTargets(order) \ Range(new)
  IN  IF missing = {} \/ old = new THEN order
      ELSE IF Len(old) = 1 /\ Len(new) = 1 /\ Cardinality(missing) = 1 THEN Retarget(order, new[1])
      ELSE None

Output(q) == Range(q.dimensions) \cup (IF q.selection = None THEN {} ELSE Range(q.selection))

ReviseHistory(previous, delta, op, ops) ==
  LET still == \A slot \in DOMAIN ops : ops[slot][1] = "keep"
      merged == Merge(previous, delta, op = "replace")
      limit == Applied(ops.limit, previous.limit, None)
      asked == Applied(ops.order, previous.order, <<>>)
      order == IF ops.order[1] = "keep" THEN FollowMetrics(asked, previous.metrics, merged.metrics) ELSE asked
      next == [merged EXCEPT !.order = order, !.limit = limit,
                             !.selection = Applied(ops.selection, previous.selection, None)]
  IN  IF \/ op = "clarify" \/ (op = "replace" /\ delta.dimensions = <<>>)
         \/ still /\ ~HasSemanticDelta(delta)
         \/ merged = None
      THEN None
      ELSE IF (limit # None /\ asked = <<>>) \/ order = None THEN None
      ELSE IF \E o \in Range(order) : o.kind # "metric" /\ o.target \notin Output(next) THEN None
      ELSE next

-----------------------------------------------------------------------------
(* What an order of a query may name. *)
OrderStands(q) ==
  /\ q.limit # None => q.order # <<>>
  /\ \A o \in Range(q.order) :
       IF o.kind = "metric" THEN o.target \in Range(q.metrics) ELSE o.target \in Output(q)

(* The conditions on a field, in the order they have among the filters. *)
On(filters, key) == SelectSeq(filters, LAMBDA f : TextKey(f.field) = key)

(* A follow-up changes what it mentions and nothing else.  A field it does not name keeps
   every condition it had.  On a field it names, its last word is in force, nothing is there
   that neither turn said, and the conditions become no more: one replaces one, and the new
   bound of a range stands beside at most the other bound.  All that however the field is
   spelled.  No dimension is lost or doubled unless they are replaced.  The window stays the
   absolute window of the former turn when the delta is silent on time, and is the delta's
   when that is a window. *)
RevisionExact(previous, delta, op) ==
  LET next == Revise(previous, delta, op)
      keys == {TextKey(f.field) : f \in Range(previous.filters) \cup Range(delta.filters)}
      shown == IF op = "replace" THEN delta.dimensions ELSE previous.dimensions \o delta.dimensions
  IN  next # None =>
        /\ \A k \in keys :
             LET was == On(previous.filters, k)
                 said == On(delta.filters, k)
                 is == On(next.filters, k)
             IN  IF said = <<>> THEN is = was
                 ELSE /\ Last(said) \in Range(is)
                      /\ Range(is) \subseteq Range(was) \cup {Last(said)}
                      /\ Len(is) <= Max({1, Len(was)})
        /\ {TextKey(d) : d \in Range(next.dimensions)} = {TextKey(d) : d \in Range(shown)}
        /\ op = "append" => Cardinality({TextKey(d) : d \in Range(next.dimensions)}) = Len(next.dimensions)
        /\ delta.time = None => next.time = previous.time
        /\ delta.time \notin {None, "now"} => next.time = delta.time

(* An order that stands before a follow-up stands after it: metrics, dimensions and the
   selection may all change under a kept order, and a row limit never outlives its order. *)
OrderSurvives(previous, delta, op, ops) ==
  LET next == ReviseHistory(previous, delta, op, ops)
  IN  (OrderStands(previous) /\ next # None) => OrderStands(next)
=============================================================================
