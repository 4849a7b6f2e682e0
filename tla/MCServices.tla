----------------------------- MODULE MCServices -----------------------------
(***************************************************************************)
(* Small instances of what stands behind a question, besides the execution *)
(* that carries it: the calendar and the query pipeline (MCQuery), the     *)
(* revision of a follow-up, the HTTP entry and its conversations, the      *)
(* stored histories, analysis runs with their tasks and report, exports,   *)
(* the publication of the retrieval assets, the installation of the        *)
(* control database and the life of the process.                           *)
(* These parts have no state in common: `part' says which one a behaviour  *)
(* is about.  All but the calendar and the pipeline keep their state in x1 *)
(* .. x10, which are None where they are not used.                         *)
(***************************************************************************)
EXTENDS MCQuery, TLC

CONSTANTS None, a1, a2, w1, w2, o1, o2, r1, r2, k1, k2

VARIABLES part, x1, x2, x3, x4, x5, x6, x7, x8, x9, x10

queryVars == <<calVars, pipeVars>>
xs == <<x1, x2, x3, x4, x5, x6, x7, x8, x9, x10>>
all == <<part, queryVars, xs>>

(***************************************************************************)
(* An analysis run: two attempts by two askers, two tasks; a call fails.   *)
(***************************************************************************)
A == INSTANCE AnalysisRun WITH
       Attempt <- {a1, a2}, Who <- {w1, w2}, Tasks <- 2, MaxFaults <- 1,
       row <- x1, disk <- x2, att <- x3, faults <- x4

(***************************************************************************)
(* Exports: two requests of two accounts, one slot, two starts.            *)
(***************************************************************************)
X == INSTANCE ExportRuntime WITH
       Owner <- {o1, o2}, Request <- {r1, r2}, Sender <- r1 :> {o1} @@ r2 :> {o1, o2},
       MaxTotal <- 1, MaxLives <- 2, Faults <- {"assets", "spawn", "worker", "removal", "crash"},
       phase <- x1, lives <- x2, rt <- x3, disk <- x4, workers <- x5, job <- x6

(***************************************************************************)
(* The HTTP entry, twice: three turns of one account while nothing fails,  *)
(* which conversations need; two requests of two accounts, questions and   *)
(* analyses, while the dependencies go and the runtime closes.             *)
(***************************************************************************)
C == INSTANCE QueryApi WITH
       Turns <- 3, Owner <- {o1}, Conv <- {k1, k2}, Kinds <- {"query"}, TTL <- 1, Limit <- 1,
       Stale <- 9, ProbeTime <- 1, MaxPerUser <- 2, MaxTotal <- 2, MaxProbes <- 1,
       Happens <- {}, MaxTime <- 2,
       now <- x1, accepting <- x2, up <- x3, monitor <- x4, checks <- x5, active <- x6,
       running <- x7, entries <- x8, told <- x9, turn <- x10
D == INSTANCE QueryApi WITH
       Turns <- 2, Owner <- {o1, o2}, Conv <- {k1}, Kinds <- {"query", "analysis"}, TTL <- 1,
       Limit <- 1, Stale <- 1, ProbeTime <- 1, MaxPerUser <- 2, MaxTotal <- 2, MaxProbes <- 1,
       Happens <- {"outage", "close"}, MaxTime <- 2,
       now <- x1, accepting <- x2, up <- x3, monitor <- x4, checks <- x5, active <- x6,
       running <- x7, entries <- x8, told <- x9, turn <- x10

(***************************************************************************)
(* Publication of the assets: two builders, one reader; the fact files     *)
(* change three times, for a unique index as key, a table of the same name *)
(* in another schema and a metric without a table.                         *)
(***************************************************************************)
T(s, t) == [schema |-> s, table |-> t]
Col(s, t, c) == [schema |-> s, table |-> t, column |-> c]
Key(k, t, c) == [kind |-> k, of |-> t, columns |-> <<c>>, name |-> c, to |-> None, toColumns |-> <<>>]
ForeignKey(t, c, u, d) == [kind |-> "foreign_key", of |-> t, columns |-> <<c>>, name |-> c, to |-> u, toColumns |-> <<d>>]
MetricFact(n, src, time, deps) == [name |-> n, source |-> src, time |-> time, depends |-> deps]
FactTable == T("dw", "sales")
DateTable == T("dw", "date")
GoodFacts ==
  [tables |-> <<FactTable, DateTable>>,
   columns |-> <<Col("dw", "sales", "day"), Col("dw", "date", "key"), Col("dw", "date", "full")>>,
   relationships |-> <<Key("primary_key", DateTable, "key"), ForeignKey(FactTable, "day", DateTable, "key")>>,
   metrics |-> <<MetricFact("amount", T(None, "sales"), <<Col(None, "sales", "day"), Col("dw", "date", "full")>>, {})>>]
FactFiles ==
  << GoodFacts,
     [GoodFacts EXCEPT !.relationships = <<Key("unique_index", DateTable, "key"), ForeignKey(FactTable, "day", DateTable, "key")>>],
     [GoodFacts EXCEPT !.tables = @ \o <<T("ods", "sales")>>],
     [GoodFacts EXCEPT !.metrics = @ \o <<MetricFact("ratio", None, <<>>, {"amount"})>>] >>
R == INSTANCE RagPublish WITH
       Builder <- {"b1", "b2"}, BuildId <- {"i1", "i2"}, Reader <- {"q1"}, Kinds <- 2,
       Facts <- FactFiles, Production <- TRUE, MaxFaults <- 1,
       source <- x1, collection <- x2, staging <- x3, final <- x4, current <- x5, build <- x6,
       cache <- x7, reader <- x8, faults <- x9

(***************************************************************************)
(* Reports the model may write.                                            *)
(***************************************************************************)
Str(s) == [is |-> "text", of |-> s]
List(s) == [is |-> "list", of |-> s]
Raw(s) == [is |-> "raw", of |-> s]
Field(k, v) == [key |-> k, value |-> v]
EndsWith(e, i) == <<Field("E", List(e)), Field("I", List(i))>>
Cited == EndsWith(<<Str(<<"1t">>)>>, <<Str(<<"2t">>)>>)
TaskResults == <<[id |-> "1t", status |-> "completed", empty |-> FALSE, truncated |-> FALSE],
                 [id |-> "2t", status |-> "failed", empty |-> FALSE, truncated |-> FALSE]>>
Reports == <<
  <<Field("T", Str(<<"a", "newline">>)), Field("L", List(<<Str(<<"a">>), Str(<<"emoji", "a">>)>>))>> \o Cited,
  <<Field("L", List(<<Str(<<"a">>)>>)), Field("T", Str(<<"letter">>))>> \o Cited,
  <<Field("L", List(<<Raw(<<"1">>), Str(<<"a">>)>>))>>,
  <<Field("T", Str(<<"a">>)), Field("L", List(<< >>))>> \o EndsWith(<<Str(<<"2t">>)>>, <<Str(<<"2t">>)>>),
  <<Field("x", Raw(<<"[", "1", ",", "{", "\"", "T", "\"", ":", "\"", "a", "\"", "}", "]">>)), Field("T", Str(<<>>))>>,
  <<Field("T", Str(<<"a">>)), Field("T", Str(<<"b">>))>>,
  <<Field("x", Raw(<<"?">>))>>, <<Field("T", Raw(<<"1">>)), Field("x", Str(<<"\"">>))>> >>
S == INSTANCE ReportStream WITH
       Documents <- Reports, ChunkSize <- 2, MaxBytes <- 42, Results <- TaskResults,
       pc <- x1, attempt <- x2, text <- x3, doc <- x4, pos <- x5, dec <- x6, draft <- x7, problem <- x8

(***************************************************************************)
(* The pure parts: x1 is a case, checked where it stands.                  *)
(***************************************************************************)
K == INSTANCE AnalysisTasks
ProductRow(n, v) == [name |-> n, sales |-> v[1], quantity |-> v[2], cost |-> v[3]]
ProductRows == {ProductRow(n, v) : n \in {1, 2}, v \in {<<1, 1, 0>>, <<3, 2, 1>>, <<1, 0, 0>>}}
ProductLists == {<<>>} \cup {<<r>> : r \in ProductRows} \cup {<<r, s>> : r, s \in ProductRows}
Periods == K!Period \cup {K!NoPeriod}
TaskCase(x) ==
  \/ x \in [kind : {"attribution"}, metric : K!Metric, cmp : ProductLists, cur : ProductLists, off : {0, 1}]
  \/ x \in [kind : {"top"}, change : [K!Product -> -2 .. 2], total : {-1, 0, 1}]
  \/ x \in [kind : {"plan"}, deps : [1 .. 3 -> SUBSET (0 .. 3)], works : [1 .. 3 -> BOOLEAN]]
  \/ x \in [kind : {"request"}, known : SUBSET {"quantity", "cost", "sales"},
             c : [matches : SUBSET {"profit", "sales", "margin"}, quoted : BOOLEAN, otherDimension : BOOLEAN,
                  current : Periods, comparison : Periods]]

V == INSTANCE SemanticRevision WITH MaxMetrics <- 5
Dims3 == {<<>>, <<<<"d", 1>>>>, <<<<"d", 2>>>>, <<<<"e", 1>>>>, <<<<"d", 1>>, <<"e", 1>>>>}
Cond3(i, s, c) == [field |-> <<i, s>>, cond |-> c]
\* A first turn is not held to one condition a field: the last two hold a range on "f".
Former == {<<>>, <<Cond3("f", 1, "x")>>, <<Cond3("f", 2, "y")>>, <<Cond3("f", 1, "x"), Cond3("g", 1, "x")>>,
           <<Cond3("f", 1, "x"), Cond3("f", 1, "y")>>, <<Cond3("f", 1, "x"), Cond3("g", 1, "x"), Cond3("f", 2, "y")>>}
Follow == Former \cup {<<Cond3("g", 1, "y"), Cond3("f", 2, "z"), Cond3("g", 2, "w")>>}
Before == [type |-> "metric_analysis", subjects |-> <<>>, metrics |-> <<"a">>, dimensions |-> <<>>, filters |-> <<>>,
           time |-> "march", order |-> <<>>, limit |-> None, selection |-> None]
Delta == [type |-> "unknown", subjects |-> <<>>, metrics |-> <<>>, dimensions |-> <<>>, filters |-> <<>>, time |-> None]
OrderBy(k, t) == [kind |-> k, target |-> t]
Orders3 == {<<>>, <<OrderBy("metric", "a")>>, <<OrderBy("metric", "b"), OrderBy("dimension", <<"d", 1>>)>>,
            <<OrderBy("field", <<"e", 1>>)>>}
RevisionCase(x) ==
  \/ x \in [kind : {"turn"}, prev : {[Before EXCEPT !.dimensions = d, !.filters = f] : d \in Dims3, f \in Former},
   delta : {[Delta EXCEPT !.dimensions = d, !.filters = f, !.time = t] : d \in Dims3, f \in Follow, t \in {None, "now", "april"}},
   op : {"append", "replace", "clarify"}]
  \/ x \in [kind : {"history"},
   prev : {[Before EXCEPT !.metrics = m, !.dimensions = d, !.order = o, !.limit = l, !.selection = s] :
             m \in {<<"a">>, <<"b">>, <<"a", "b">>}, d \in {<<>>, <<<<"d", 1>>>>}, o \in Orders3, l \in {None, 3},
             s \in {None, <<<<"e", 1>>>>}},
   delta : {[Delta EXCEPT !.metrics = m, !.dimensions = d] :
              m \in {<<>>, <<"a">>, <<"b">>, <<"a", "b">>}, d \in {<<>>, <<<<"e", 1>>>>}},
   op : {"append", "replace"},
   ops : [order : {<<"keep">>, <<"clear">>}, limit : {<<"keep">>, <<"clear">>, <<"set", 2>>},
          selection : {<<"keep">>, <<"clear">>}]]

(***************************************************************************)
(* Histories: questions continued, requeried, kept and deleted; an         *)
(* analysis resumed by three requests; a history edited while it is        *)
(* continued; the list read while histories are continued and given up,    *)
(* and while they are created, renamed and deleted.                        *)
(***************************************************************************)
H == INSTANCE HistoryStore WITH
       Ids <- 2, Turns <- 2, Op <- {1, 2}, Thread <- {1, 2}, There <- <<"query">>,
       Acts <- {"submit", "requery", "delete"}, Page <- 1, MaxSaved <- 1, MaxRename <- 0,
       MaxLives <- 2, MaxTime <- 1,
       hist <- x1, turns <- x2, saved <- x3, lease <- x4, epoch <- x5, thread <- x6, view <- x7,
       scan <- x8, told <- x9, now <- x10
J == INSTANCE HistoryStore WITH
       Ids <- 1, Turns <- 2, Op <- {1, 2}, Thread <- {1, 2, 3}, There <- <<"analysis">>,
       Acts <- {"resume"}, Page <- 1, MaxSaved <- 0, MaxRename <- 0, MaxLives <- 1, MaxTime <- 1,
       hist <- x1, turns <- x2, saved <- x3, lease <- x4, epoch <- x5, thread <- x6, view <- x7,
       scan <- x8, told <- x9, now <- x10
E == INSTANCE HistoryStore WITH
       Ids <- 1, Turns <- 2, Op <- {1, 2}, Thread <- {1, 2}, There <- <<"query">>,
       Acts <- {"submit", "rename", "delete"}, Page <- 1, MaxSaved <- 0, MaxRename <- 1,
       MaxLives <- 2, MaxTime <- 1,
       hist <- x1, turns <- x2, saved <- x3, lease <- x4, epoch <- x5, thread <- x6, view <- x7,
       scan <- x8, told <- x9, now <- x10
L == INSTANCE HistoryStore WITH
       Ids <- 3, Turns <- 1, Op <- {1}, Thread <- {1}, There <- <<"query", "query", "query">>,
       Acts <- {"submit", "list"}, Page <- 1, MaxSaved <- 0, MaxRename <- 0, MaxLives <- 2,
       MaxTime <- 2,
       hist <- x1, turns <- x2, saved <- x3, lease <- x4, epoch <- x5, thread <- x6, view <- x7,
       scan <- x8, told <- x9, now <- x10
M == INSTANCE HistoryStore WITH
       Ids <- 3, Turns <- 0, Op <- {1}, Thread <- {}, There <- <<"query", "query">>,
       Acts <- {"create", "rename", "delete", "list"}, Page <- 1, MaxSaved <- 0, MaxRename <- 1,
       MaxLives <- 1, MaxTime <- 2,
       hist <- x1, turns <- x2, saved <- x3, lease <- x4, epoch <- x5, thread <- x6, view <- x7,
       scan <- x8, told <- x9, now <- x10

(***************************************************************************)
(* One life of the process, two requests; a step of it fails.              *)
(***************************************************************************)
W == INSTANCE Lifespan WITH
       Thread <- {1, 2}, MaxFaults <- 1,
       phase <- x1, step <- x2, got <- x3, open <- x4, stack <- x5, failed <- x6, accepting <- x7,
       bound <- x8, thread <- x9, faults <- x10

(***************************************************************************)
(* The control database: two migrators, a release of the past, a failure.  *)
(***************************************************************************)
N == INSTANCE ControlMigration WITH
       Migrator <- {1, 2}, Later <- 1, MaxFaults <- 1,
       database <- x1, role <- x2, files <- x3, made <- x4, noted <- x5, granted <- x6,
       migrator <- x7, look <- x8, faults <- x9

ASSUME ServicesAssumption ==
       /\ A!RunAssumption /\ X!ExportAssumption /\ R!RagAssumption /\ S!StreamAssumption
       /\ C!QueryApiAssumption /\ D!QueryApiAssumption /\ V!RevisionAssumption
       /\ H!StoreAssumption /\ J!StoreAssumption /\ E!StoreAssumption
       /\ L!StoreAssumption /\ M!StoreAssumption /\ W!LifespanAssumption /\ N!MigrationAssumption

-----------------------------------------------------------------------------
Rest10 == x10 = None
Rest9 == x9 = None /\ Rest10
Rest7 == x7 = None /\ x8 = None /\ Rest9
Rest5 == x5 = None /\ x6 = None /\ Rest7
Rest2 == x2 = None /\ x3 = None /\ x4 = None /\ Rest5

Init ==
  /\ CalInit /\ PipeInit
  /\ \/ part \in {"calendar", "pipeline"} /\ x1 = None /\ Rest2
     \/ part = "analysis" /\ A!Init /\ Rest5
     \/ part = "export" /\ X!Init /\ Rest7
     \/ part = "turns" /\ C!Init
     \/ part = "entry" /\ D!Init
     \/ part = "assets" /\ R!Init /\ Rest10
     \/ part = "report" /\ S!Init /\ Rest9
     \/ part = "requeried" /\ H!Init
     \/ part = "resumed" /\ J!Init
     \/ part = "edited" /\ E!Init
     \/ part = "pages" /\ L!Init
     \/ part = "titles" /\ M!Init
     \/ part = "lifespan" /\ W!Init
     \/ part = "schema" /\ N!Init /\ Rest10
     \/ part = "tasks" /\ TaskCase(x1) /\ Rest2
     \/ part = "revision" /\ RevisionCase(x1) /\ Rest2

Next ==
  \/ part = "calendar" /\ CalNext /\ UNCHANGED <<part, pipeVars, xs>>
  \/ part = "pipeline" /\ PipeNext /\ UNCHANGED <<part, calVars, xs>>
  \/ part = "analysis" /\ A!Next /\ UNCHANGED <<part, queryVars, x5, x6, x7, x8, x9, x10>>
  \/ part = "export" /\ X!Next /\ UNCHANGED <<part, queryVars, x7, x8, x9, x10>>
  \/ part = "turns" /\ C!Next /\ UNCHANGED <<part, queryVars>>
  \/ part = "entry" /\ D!Next /\ UNCHANGED <<part, queryVars>>
  \/ part = "requeried" /\ H!Next /\ UNCHANGED <<part, queryVars>>
  \/ part = "resumed" /\ J!Next /\ UNCHANGED <<part, queryVars>>
  \/ part = "edited" /\ E!Next /\ UNCHANGED <<part, queryVars>>
  \/ part = "pages" /\ L!Next /\ UNCHANGED <<part, queryVars>>
  \/ part = "titles" /\ M!Next /\ UNCHANGED <<part, queryVars>>
  \/ part = "lifespan" /\ W!Next /\ UNCHANGED <<part, queryVars>>
  \/ part = "schema" /\ N!Next /\ UNCHANGED <<part, queryVars, x10>>
  \/ part = "assets" /\ R!Next /\ UNCHANGED <<part, queryVars, x10>>
  \/ part = "report" /\ S!Next /\ UNCHANGED <<part, queryVars, x9, x10>>

Spec == Init /\ [][Next]_all

-----------------------------------------------------------------------------
(* A window is whole periods and survives its trip through SQL; the period certified with a
   result is exactly the days it filtered, and its keys name the periods of their rows:
   QueryCalendar. *)
CalendarExact ==
  part = "calendar" => WindowsWhole /\ WindowReadsBack /\ PeriodExact /\ KeysNamePeriods

(* A certified question has a text that the guard accepts, and the rows of a ranking it
   accepts do not depend on ties: QueryPipeline. *)
CertifiedAnswers == part = "pipeline" => Answerable /\ RankingTotal

(* An attempt never contradicts an earlier lasting answer about its run, and a clean attempt
   on a saved plan concludes: AnalysisRun. *)
RunsConclude == part = "analysis" => A!TypeOK /\ A!OneOutcome /\ A!CleanResumeConcludes

(* A cancelled, deleted or overdue run is never completed: AnalysisRun. *)
ExpiredForGood == [][part = "analysis" => A!KeepsExpired]_all

(* While the API serves, renderers and directories stand under the slot of their account, and
   without a failing font probe a slot is held only by work under way: ExportRuntime. *)
SlotsMatchWork == part = "export" => X!TypeOK /\ X!SlotCoversWork /\ X!FailureFreesSlot

(* A conversation is the chain of its successful turns; only expiry loses one: QueryApi. *)
TurnsChain ==
  /\ part = "turns" => C!TypeOK /\ C!TurnsChain
  /\ part = "entry" => D!TypeOK /\ D!TurnsChain

(* No conversation and no place stays taken by a request that is over: QueryApi. *)
NothingOrphaned ==
  /\ part = "turns" => C!NothingOrphaned
  /\ part = "entry" => D!NothingOrphaned

(* A request is admitted on recent evidence only: QueryApi. *)
AdmittedOnEvidence == [][part = "entry" => D!EvidenceRecent]_all

(* Repeated requests get the answer that was kept, a revision names what was read, successes
   chain, an analysis succeeds once; paging shows what was not touched meanwhile once, and
   nothing twice: HistoryStore. *)
HistoriesHold ==
  /\ part = "requeried" => H!HistoriesHold
  /\ part = "resumed" => J!HistoriesHold
  /\ part = "edited" => E!HistoriesHold
  /\ part = "pages" => L!PagesComplete
  /\ part = "titles" => M!PagesComplete

(* Nothing starts on a part of the schema and a repeated migration completes it, whatever
   died before: ControlMigration.  Nothing is taken away under those who work, and nothing is
   left when the process ends, whatever failed: Lifespan. *)
LifespanHolds ==
  /\ part = "schema" => N!MigrationHolds
  /\ part = "lifespan" => W!LifespanHolds

(* What the API reads is one whole, validated build: RagPublish. *)
PublishedIsWhole == part = "assets" => R!TypeOK /\ R!PublishedIsWhole

(* The draft on the screen is the report that is kept: ReportStream. *)
DraftIsReport == part = "report" => S!TypeOK /\ S!DraftIsReport

(* Valid plans run to the end, contributions add up, the products named lead, a request that
   is accepted asks for what the attribution reads: AnalysisTasks. *)
AnalysisExact ==
  part = "tasks" =>
    CASE x1.kind = "attribution" ->
           K!AttributionExact(x1.metric, x1.cmp, x1.cur, K!PeriodTotal(x1.cmp, x1.metric),
                              K!PeriodTotal(x1.cur, x1.metric) + x1.off)
      [] x1.kind = "top" -> K!TopProductsLead(x1.change, x1.total)
      [] x1.kind = "plan" -> K!ValidPlanRuns(x1.deps, x1.works, 3, 1)
      [] x1.kind = "request" -> K!PlanFeedsAttribution(x1.c, x1.known)

(* A follow-up changes what it names and nothing else, ranges of a former turn included, and
   an order that stands keeps standing: SemanticRevision. *)
FollowUpExact ==
  part = "revision" =>
    IF x1.kind = "turn" THEN V!RevisionExact(x1.prev, x1.delta, x1.op)
    ELSE V!OrderSurvives(x1.prev, x1.delta, x1.op, x1.ops)
=============================================================================
