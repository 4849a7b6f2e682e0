--------------------------- MODULE AnalysisTasks ---------------------------
(***************************************************************************)
(* The deterministic half of an analysis: how a request becomes a plan     *)
(* (planning.py), how a plan of dependent tasks is validated and run       *)
(* (planning.py, execution.py), and how the results of the four comparison *)
(* tasks become the contributions of products and factors (attribution.py).*)
(* Amounts are integers and quotients fractions: the code calculates with  *)
(* decimals of 28 digits and reconciles within a millionth, here a sum     *)
(* reconciles when it is exact.                                            *)
(***************************************************************************)
EXTENDS Integers, Sequences, FiniteSets, FiniteSetsExt, SequencesExt

Metric == {"profit", "sales"}
Term == Metric \cup {"margin", "quantity", "cost"}   \* names in the catalog
Product == 1..4                                       \* in the order of their names

----------------------------------------------------------------------------
(* The request, planning.py *)
\* A candidate of the extractor: the names its metric text matches, and whether the text,
\* the periods and another dimension occur in the question.
Period == [text : {"march", "february"}, grain : {"month", "year"}, grounded : BOOLEAN]
NoPeriod == [text |-> "none", grain |-> "none", grounded |-> FALSE]

PeriodProblem(cur, cmp) ==
    IF NoPeriod \in {cur, cmp} THEN "COMPARISON_PERIOD_REQUIRED"
    ELSE IF cur.grain # cmp.grain THEN "COMPARISON_GRANULARITY_MISMATCH"
    ELSE IF cur.text = cmp.text THEN "COMPARISON_PERIOD_DUPLICATE"
    ELSE IF ~(cur.grounded /\ cmp.grounded) THEN "COMPARISON_PERIOD_NOT_IN_QUESTION"
    ELSE "none"

ProductMetrics(metric) ==
    {"sales", "quantity"} \cup (IF metric = "profit" THEN {"cost"} ELSE {})

\* known: the terms that name themselves in the catalog, the product dimension apart.
RequestProblem(c, known) ==
    IF Cardinality(c.matches) # 1 THEN "METRIC_NOT_UNIQUE"
    ELSE IF ~(c.matches \subseteq Metric) THEN "METRIC_UNSUPPORTED"
    ELSE IF ~c.quoted THEN "METRIC_NOT_IN_QUESTION"
    ELSE IF c.otherDimension THEN "DIMENSION_UNSUPPORTED"
    ELSE IF PeriodProblem(c.current, c.comparison) # "none"
         THEN PeriodProblem(c.current, c.comparison)
    ELSE IF ~(ProductMetrics(CHOOSE m \in c.matches : TRUE) \subseteq known)
         THEN "REQUIRED_METRIC_NOT_FOUND"
    ELSE "none"

ComparisonTask(metrics, byProduct, period) ==
    [metrics |-> metrics, byProduct |-> byProduct, period |-> period]
BuildComparisonPlan(c) ==
    LET metric == CHOOSE m \in c.matches : TRUE
    IN ("comparison-overall" :> ComparisonTask({metric}, FALSE, c.comparison)) @@
       ("current-overall" :> ComparisonTask({metric}, FALSE, c.current)) @@
       ("comparison-products" :> ComparisonTask(ProductMetrics(metric), TRUE, c.comparison)) @@
       ("current-products" :> ComparisonTask(ProductMetrics(metric), TRUE, c.current))

----------------------------------------------------------------------------
(* A plan with dependencies: the tasks are 1 .. n, deps[t] what task t waits for; the     *)
(* number 0 stands for an id that is no task of the plan.                                 *)
\* One more task on the longest chain below t; n steps reach the end of every chain.
Deepen(deps, depth) ==
    [t \in DOMAIN deps |-> IF deps[t] = {} THEN 0 ELSE 1 + Max({depth[d] : d \in deps[t]})]
Depths(deps) ==
    FoldLeft(LAMBDA d, k : Deepen(deps, d), [t \in DOMAIN deps |-> 0],
             [k \in 1..Len(deps) |-> k])
\* A chain of n dependencies among n tasks comes back to where it was.
Cyclic(deps) == \E t \in DOMAIN deps : Depths(deps)[t] >= Len(deps)

\* Mutant: validation that lets a task wait for itself.
ValidateLoosely(deps, maxTasks, maxDepth) ==
    /\ Len(deps) <= maxTasks
    /\ \A t \in DOMAIN deps : deps[t] \subseteq DOMAIN deps

ValidateAnalysisPlan(deps, maxTasks, maxDepth) ==
    /\ Len(deps) <= maxTasks
    /\ \A t \in DOMAIN deps : deps[t] \subseteq DOMAIN deps \ {t}
    /\ ~Cyclic(deps)
    /\ \A t \in DOMAIN deps : Depths(deps)[t] <= maxDepth

\* One task in a pass over the pending tasks; works says which queries succeed.
RunTask(deps, works, res, t) ==
    IF t \in DOMAIN res \/ ~(deps[t] \subseteq DOMAIN res) THEN res
    ELSE (t :> IF \E d \in deps[t] : res[d] # "completed" THEN "skipped"
               ELSE IF works[t] THEN "completed" ELSE "failed") @@ res
Pass(deps, works, res) ==
    FoldLeft(LAMBDA r, t : RunTask(deps, works, r, t), res, [t \in DOMAIN deps |-> t])
\* Passes are made while they get on; what is still pending then raises an error.
Execute(deps, works) ==
    FoldLeft(LAMBDA r, k : Pass(deps, works, r), << >>, [k \in DOMAIN deps |-> k])

----------------------------------------------------------------------------
(* Attribution *)
\* A result of a product task is a sequence of rows; the rows of a name are added up.
RowsOf(rows, n) == {i \in DOMAIN rows : rows[i].name = n}
Names(rows) == {rows[i].name : i \in DOMAIN rows}
AddUp(rows, n, f) == MapThenSumSet(LAMBDA i : rows[i][f], RowsOf(rows, n))
ProductValue(rows, n) ==
    [sales |-> AddUp(rows, n, "sales"), quantity |-> AddUp(rows, n, "quantity"),
     cost |-> AddUp(rows, n, "cost")]
RowsValid(rows) == \A i \in DOMAIN rows : rows[i].quantity > 0

PeriodMetric(v, metric) == IF metric = "profit" THEN v.sales - v.cost ELSE v.sales
PeriodTotal(rows, metric) ==
    MapThenSumSet(LAMBDA n : PeriodMetric(ProductValue(rows, n), metric), Names(rows))

\* The factors of a product sold in both periods, in units of 1 / (2 * old.quantity *
\* new.quantity).
Scale(old, new) == 2 * old.quantity * new.quantity
PriceFactor(old, new) ==
    (new.sales * old.quantity - old.sales * new.quantity) * (old.quantity + new.quantity)
CostFactor(old, new) ==
    -(new.cost * old.quantity - old.cost * new.quantity) * (old.quantity + new.quantity)
VolumeFactor(old, new, metric) ==
    (new.quantity - old.quantity)
      * (PeriodMetric(old, metric) * new.quantity + PeriodMetric(new, metric) * old.quantity)
Factors(old, new, metric) ==
    <<PriceFactor(old, new), VolumeFactor(old, new, metric)>>
      \o (IF metric = "profit" THEN <<CostFactor(old, new)>> ELSE << >>)

Change(cmp, cur, n, metric) ==
    (IF n \in Names(cur) THEN PeriodMetric(ProductValue(cur, n), metric) ELSE 0)
      - (IF n \in Names(cmp) THEN PeriodMetric(ProductValue(cmp, n), metric) ELSE 0)
\* A product that is new or gone has its whole change for its only factor.
Reconciles(cmp, cur, n, metric) ==
    n \in Names(cmp) \cap Names(cur) =>
        LET old == ProductValue(cmp, n)
            new == ProductValue(cur, n)
        IN FoldLeft(LAMBDA x, y : x + y, 0, Factors(old, new, metric))
             = Scale(old, new) * Change(cmp, cur, n, metric)

\* At most three products that moved with the whole, the largest first, ties by name.
Movers(change, total) == {n \in DOMAIN change : total * change[n] > 0}
Leads(change, total, m, n) ==
    \/ total * change[m] > total * change[n]
    \/ change[m] = change[n] /\ m < n
TopProducts(change, total) ==
    LET top == {n \in Movers(change, total) :
                   Cardinality({m \in Movers(change, total) : Leads(change, total, m, n)}) < 3}
    IN SetToSortSeq(top, LAMBDA m, n : Leads(change, total, m, n))

\* The reason of the refusal, in the order of the checks.
CalculateProductAttribution(metric, cmp, cur, cmpTotal, curTotal) ==
    LET names == Names(cmp) \cup Names(cur)
    IN IF ~RowsValid(cmp) \/ ~RowsValid(cur) THEN "PRODUCT_QUANTITY_INVALID"
       ELSE IF PeriodTotal(cmp, metric) # cmpTotal \/ PeriodTotal(cur, metric) # curTotal
            THEN "PERIOD_TOTAL_RECONCILIATION_FAILED"
       ELSE IF \E n \in names : ~Reconciles(cmp, cur, n, metric)
            THEN "PRODUCT_FACTOR_RECONCILIATION_FAILED"
       ELSE IF MapThenSumSet(LAMBDA n : Change(cmp, cur, n, metric), names)
                 # curTotal - cmpTotal
            THEN "TOTAL_CHANGE_RECONCILIATION_FAILED"
       ELSE "none"

----------------------------------------------------------------------------
(* What is promised, for one input of each kind. *)

\* The tasks a task waits for, directly or through others.
Upstream(deps, t) ==
    FoldLeft(LAMBDA S, k : S \cup UNION {deps[u] : u \in S}, deps[t], [k \in DOMAIN deps |-> k])

(***************************************************************************)
(* A plan that passed the validation is run to its end: every task has a   *)
(* result, and a task is skipped exactly when one it builds on, however    *)
(* far back, did not succeed (planning.py:260, execution.py:126).          *)
(***************************************************************************)
ValidPlanRuns(deps, works, maxTasks, maxDepth) ==
    ValidateAnalysisPlan(deps, maxTasks, maxDepth) =>
        LET res == Execute(deps, works)
        IN /\ DOMAIN res = DOMAIN deps
           /\ \A t \in DOMAIN deps :
                 /\ (res[t] = "skipped") <=> (\E u \in Upstream(deps, t) : ~works[u])
                 /\ (res[t] = "completed") <=> works[t] /\ (\A u \in Upstream(deps, t) : works[u])

(***************************************************************************)
(* Consistent data are always attributed and inconsistent data never: no   *)
(* input whose product rows add up to both totals is refused for its       *)
(* factors, with rows of one product split, products new or gone, and      *)
(* quantities that change (attribution.py:143).                            *)
(***************************************************************************)
AttributionExact(metric, cmp, cur, cmpTotal, curTotal) ==
    LET Sum(rows) == FoldLeft(LAMBDA x, r : x + PeriodMetric(r, metric), 0, rows)
        consistent == /\ \A i \in DOMAIN cmp : cmp[i].quantity > 0
                      /\ \A i \in DOMAIN cur : cur[i].quantity > 0
                      /\ Sum(cmp) = cmpTotal /\ Sum(cur) = curTotal
    IN consistent <=> CalculateProductAttribution(metric, cmp, cur, cmpTotal, curTotal) = "none"

(***************************************************************************)
(* The products shown moved with the whole, in order, and no product left  *)
(* out moved further than one that is shown (attribution.py:424).          *)
(***************************************************************************)
TopProductsLead(change, total) ==
    LET top == TopProducts(change, total)
    IN /\ Len(top) <= 3
       /\ \A i \in DOMAIN top : total * change[top[i]] > 0
       /\ \A i, j \in DOMAIN top : i < j => total * change[top[i]] >= total * change[top[j]]
       /\ \A n \in DOMAIN change \ Range(top) :
             total * change[n] > 0 =>
                Len(top) = 3 /\ \A i \in DOMAIN top : total * change[top[i]] >= total * change[n]

(***************************************************************************)
(* An accepted request asks both periods for what the attribution reads:   *)
(* the metric itself, and by product the columns it is made of; a request  *)
(* that is refused names its first problem (planning.py:76).               *)
(***************************************************************************)
PlanFeedsAttribution(c, known) ==
    RequestProblem(c, known) = "none" =>
        LET plan == BuildComparisonPlan(c)
        IN /\ Cardinality({plan[t].period : t \in DOMAIN plan}) = 2
           /\ \A t \in DOMAIN plan : plan[t].metrics \subseteq known \cup Metric
           /\ plan["current-products"].metrics = plan["comparison-products"].metrics
           /\ plan["current-overall"].metrics \subseteq {"sales"}
                \/ {"sales", "cost"} \subseteq plan["current-products"].metrics
=============================================================================
