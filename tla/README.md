# A formal model of ChatBI

ChatBI answers business questions asked in natural language: a browser posts a
question, one API process (FastAPI, `src/src/query_api`) runs retrieval, SQL
generation and execution, or a multi-step analysis, in a worker thread, and
stores the answer in a PostgreSQL control database. The question runs in the
background; the browser watches it through server-sent events, may cancel it,
may lose its connection, may come back after a restart of the process.

This directory models that program in TLA+, checks it with TLC on small
instances and proves its central properties with TLAPS. Paths below are relative
to the repository's root (`src/` here).

## 1. Inventory

| Component | State it keeps | Operations that change it | Modelled |
|---|---|---|---|
| Execution (`query_api/execution.py`, `execution_runtime.py`, `chatbi_control/execution.py`) | rows `history_executions`; in memory: capacity per account and process, leases, stop controls, event channels, worker pool | submit, requery, cancel, dispatch, worker, monitor, deadline, close and drain | `ExecutionLifecycle` (no action of its own for requery and the analysis run guard), closing also in `Lifespan` |
| History (`chatbi_control/history.py`, `query_api/history.py`, `history_runtime.py`, `history_api.py`) | rows `history_records`, `history_turns`, `saved_results`; the advisory lock and epoch of the process; `_running` | create, begin, finish, resume, requery, rename, delete, copy a result, list, reconcile | `HistoryStore`; under executions `ExecutionLifecycle` |
| Events and SSE (`query_api/execution_events.py`, `execution_api.py`) | per execution: current state, sequence, bounded ring, subscriber count | set status, stage, progress, text, reset, finish; subscribe, read, close | `ExecutionEvents` |
| Frontend observation (`frontend/src/execution.ts`, `executionStream.ts`) | the state a page shows | reduce a frame, reconnect, abort | `ExecutionEvents` |
| Control schema (`database/control/*.sql`, `chatbi_control/database.py`) | database, role, tables, versions, checkpoint tables, grants | migrate; verify before a start | `ControlMigration`; row shapes, keys and checks as types and rows |
| Query entry, admission, readiness (`query_api/app.py`, `admission.py`, `operations.py`, `bootstrap/operations.py`) | counters of running requests, the last verdict about the dependencies | probe, authorize, admit, take a place, deadline, close | `QueryApi` |
| Conversation (`query_api/conversation.py`) | in-memory conversations with expiry and a turn in flight | create, begin, commit, abort, purge | `QueryApi` |
| Follow-ups (`query_api/semantic_revision.py`) | none | merge a delta into the previous conditions | `SemanticRevision` |
| Accounts (`authorization/auth_service.py`, `chatbi_control/admin.py`, `bootstrap.py`) | users, failures and locks, sessions, roles | login, logout, expiry, password, disable, roles, recovery, first administrator | `Accounts` |
| Business analysis (`business_analysis/`) | `business_analysis_runs` rows, graph checkpoints, the report draft | claim, complete, expire, clean up; plan, execute, attribute, report | `AnalysisRun`, `AnalysisTasks`, `ReportStream` |
| Result export (`query_api/export_runtime.py`, `export_assets.py` …) | slots, working directories, subprocesses | prepare, acquire, generate, deliver, clean up, shut down | `ExportRuntime` |
| Offline RAG build (`rag_offline/`, `rag_runtime.py`) | fact files, collections, build directories, publish pointer, cached snapshots | load, fill, validate, publish, undo; read | `RagPublish` |
| Online query (`online_query/`, `authorization/query_entry.py`) | none across requests | understand, retrieve, certify, generate, guard, execute, describe | `QueryCalendar`, `Retrieval`, `SqlGuard`, `QueryPipeline` |
| Bootstrap (`bootstrap/`) | the resources of the process and their clean-ups | start, serve, drain, take down | `Lifespan` (start and end), `QueryApi` (probe), `Accounts` (create-admin) |
| Semantic and structure assets, observability, evaluation, scripts | static files, traces, tooling | – | no: I/O or tooling that decides nothing in the service |

### How the components interact

A `POST` runs in a request thread. It looks the operation id up, takes capacity
(account and process), reserves the history in `HistoryRuntime._running`,
inserts turn and execution row in one transaction, registers an event channel
and a stop control, and hands everything to the worker pool. From there on the
worker owns the lease. A cancel is a transaction in another request thread that
persists `stopping` and then, after the commit, signals the stop control if one
is registered. The monitor thread does the same for deadlines and lost rights.
The worker looks at the control at its checkpoints, and its last transaction
looks at the row. Reading a history gives up a live row nobody leases
(`reconcile`), and a new process gives up all rows of its predecessors. The
channel is written by the worker after each transaction and read by SSE loops,
which can lag behind, be cut, or find the channel gone.

What the worker does is either one online query or one analysis. A query is
authorized and audited, understood by a model, given a context by retrieval,
certified if it must be restorable, written as SQL by a model, guarded, executed
and described; a stop may come at each stage. An analysis is a graph that saves a
checkpoint after every node, so a later attempt goes on where an earlier one
failed; its tasks are queries; its report is streamed as a draft through the
execution's channel. A follow-up merges a delta into the conditions of the turn
before it. Retrieval reads the assets of one published build, which the offline
build replaces while the API runs. A stored result may be exported, in a
subprocess and under a slot. The whole stands on resources acquired at the start
of the process and given back in reverse order at its end.

### What is hard here

* the row, the turn, the record and three in-memory registries describe one
  execution, and no lock covers all of them;
* a stop can come before, between and after any two steps of acceptance and of
  the worker, from four sources;
* a database call can fail although its transaction was committed;
* a process can die, or lose its advisory lock and live on as a zombie while its
  successor already owns the rows;
* retries of a POST carry the same operation id;
* a page rebuilds its state from a ring that forgets and from snapshots older or
  newer than what it already shows;
* an analysis is resumed from a checkpoint that an earlier attempt left at any
  node, failures included, while cancellation, deletion and the 24 hour limit
  expire its run;
* a conversation may expire while a turn of it is in flight;
* evidence that the dependencies answer grows old while requests are admitted;
* a renderer hangs, fails or outlives the request, and its slot has to come back
  exactly when nothing runs under it any more;
* a build dies between filling the collections and moving the pointer, or two
  builds are given the same id;
* a window of days is computed, written into SQL by a model and read back out of
  it: every boundary (month ends, leap days, the last year) has to survive.

`PROJECT.json` lists these as hazards, each at its line with the properties that
would notice it.

## 2. Modules

| Module | Role |
|---|---|
| `ExecutionContract` | abstract: what a background execution promises its owner |
| `ExecutionLifecycle` | rows, threads, runtime, processes; implements the contract |
| `Requests_proofs` | theorems about `ExecutionLifecycle` (rows, refinement, leases, counters, channels), `QueryPipeline` and `Accounts`, side by side |
| `ExecutionEvents` | channel, SSE loop, browser reducer |
| `ExecutionEvents_proofs`, `MCExecutionEvents_proofs` | theorems about it, and the same for the instances of `MCExecutionEvents` |
| `Accounts` | accounts, sessions, the admin console, create-admin |
| `HistoryStore` | histories, turns, kept results, the list, the synchronous routes |
| `HistoryStore_proofs`, `MCHistories_proofs` | theorems about it, and the same for its five instances in `MCServices` |
| `QueryApi` | query entry, readiness, capacity, conversations |
| `Lifespan` | start, service and end of the API process |
| `ControlMigration` | installing the control database, and the look at it before a start |
| `AnalysisRun` | run row, checkpoint, attempts, expiry, cleanup |
| `AnalysisTasks` | requests, plans and attribution as operators |
| `ReportStream` | incremental decoding of the report, its draft and its check |
| `ExportRuntime` | slots, renderers, working directories, shutdown |
| `RagPublish` | offline build, publish pointer, snapshots of the API |
| `QueryCalendar` | time expressions, windows, periods read back from SQL |
| `Retrieval` | from hits to the context a SQL may be written in |
| `SqlGuard` (extends `Retrieval`) | what a SQL text must satisfy; certification |
| `QueryPipeline` (extends `SqlGuard`) | one question through all its stages |
| `SemanticRevision` | what a follow-up changes, as operators |
| `QueryApi_proofs` | theorems about it |
| `Services_proofs` | theorems about `ControlMigration`, `Lifespan`, `RagPublish`, `ExportRuntime` and `AnalysisRun`, side by side |
| `MCServices_proofs` | brings the theorems about `QueryApi` and the five components of `Services_proofs` to the instances of `MCServices` |
| `MCExecutionLifecycle`, `MCAccounts`, `MCExportRuntime`, `MCQuery` | values and symmetry of the runs |
| `MCExecutionEvents`, `MCServices`, `MCPromises` | several instances side by side |

The modules of the last line put instances of parts that share no state into one
specification. `part` is chosen by `Init` and never changes: it says which
instance a behaviour is about, and the instance keeps its state in that module's
generic variables (`x1`, `x2`, …), which are `None` where it needs fewer. This is a
disjoint union of state spaces: nothing is interleaved that the code could not
interleave, and one run asks one question of each part.

### ExecutionLifecycle

One action is one database transaction or one critical section, with everything
the code does in it. A *job* is one POST and the worker it may create.

| State | Code |
|---|---|
| `rec`, `deleted`, `turn`, `exec`, `dbEpoch` | `history_records`, its `deleted_at`, `history_turns`, `history_executions`, `history_runtime.runtime_epoch` |
| `req`, `worker` | program counter and locals of the request and the worker thread |
| `leased`, `capped`, `released` | `HistoryRuntime._running`, the capacity an `ExecutionLease` holds, `ExecutionLease._released` |
| `bound`, `why` | `_stop_controls` and the reason a control has been told |
| `chan` | status of the execution's event channel |
| `sig` | stops that are committed and not yet signalled |
| `total`, `active` | `_active_total`, `_active_by_user` of every process |
| `proc`, `guarded`, `expired`, `faults` | environment: processes, advisory-lock connections, deadlines, failures |

| Actions | Code |
|---|---|
| `Submit`, `ReserveOwner`, `ReserveHistory`, `BeginAttempt`, `AttachProgress`, `BindStopControl`, `Schedule`, `View`, `RequestRelease`, `RequestReleaseCapacity` | `ExecutionApplication.submit` and `_dispatch` up to the scheduled worker, the answer, and the failure path |
| `MarkRunning`, `ShowRunning`, `Checkpoint`, `BusinessEnds`, `SaveResult`, `ShowResult`, `PersistFailure`, `PersistStop`, `PersistVerdict`, `FinishFromPersistence`, `WorkerRelease`, `WorkerReleaseCapacity` | `work_body`, `_persist_worker_failure`, `_persist_stopped`, `_finish_from_persistence`, the release of the lease |
| `Cancel`, `Monitor`, `DeliverSignal`, `Expire` | `cancel`, `monitor_once`, `signal_stop`, time |
| `Reconcile`, `DeleteHistory` | `HistoryRuntime.reconcile`, `delete_history` |
| `StartProcess`, `Crash`, `LoseGuard`, `CloseAdmission`, `Drained` | process start with its epoch, death, loss of the advisory lock, shutdown |

Every transaction has up to three outcomes: it happens, it fails, or it happens
and is reported as failed. The last two use up one of `MaxFaults`.

Abstractions:

* questions, answers and results are left out; a result is only succeeded, failed
  or an error;
* the two authorization stop reasons (revoked, unavailable) are one, `auth`: both
  lead to `failed`;
* a `NOWAIT` lock that is busy counts as a failure of the transaction;
* at a checkpoint that finds a stop, the persisting transaction and the signal to
  its own control are one step: no other thread acts on the control in between;
* `_reconcile` holds the runtime's condition over its whole transaction, so it is
  one action, and it excludes lease changes of its process;
* a channel that is terminal ignores a second `finish`, as the code does;
  announcing `running` on a channel that shows `stopping` raises, and the worker
  takes its failure path;
* a requery has no action of its own. It is a submission with context revision 0 on
  a history nobody else knows yet: `begin_requery` inserts the record and then calls the
  same `_begin`, so its steps are those of a `Submit` on an unused history. Its refusals
  (the source is gone, the operation id created another history) are in `HistoryStore`;
* the analysis run guard is held with the history lease of an analysis, whose run is
  the history's own; it is told apart in `QueryApi` and `Lifespan`, not here;
* the synchronous path and `record_revision` are in `HistoryStore`; the readiness hook
  of `submit` is the one of `QueryApi`.

### ExecutionContract

Told through the persisted status, the stop reason and the context revision:
accept when nothing else is live on the history, start, stop for one reason,
conclude once with the verdict of that reason if there is one, only a success
moves the context, anything live may be given up as unconfirmed, a history with
nothing live may be deleted. `ContractSpec` is the refinement: `status` and
`reason` are the row's columns, `hist` the job's history once it has a row,
`context` the record's `context_revision`.

### ExecutionEvents

One execution, the pages that watch it and their connections.

| State | Code |
|---|---|
| `row`, `ran` | the row as `get` reads it; it has been marked running |
| `chan`, `seq`, `state`, `ring`, `subs` | registered or not, `_sequence`, `_state` and draft, `_ring`, `_subscribers` |
| `conn` | the server side of a connection: position in `stream()`, cursor, events read and not sent |
| `wire` | frames sent and not yet read |
| `page` | `observeExecution`: phase, connection, the reducer's state |
| `past` | history variable: the state after each event |
| `revoked`, `cut` | environment |

`Attach`, `SetStatus`, `SetStage`, `SetTaskProgress`, `TextDelta`, `Reset`,
`Finish`, `DropChannel` are the channel's methods under its lock, and the
registry's; `Persist` and `Reconcile` are the transactions behind them, reduced
to the moves `ExecutionContract` allows. `Connect` reads the row, `Subscribe`
looks for the channel afterwards: the code does this in two steps, so the row
may be old by then. `Check`, `Send`, `Loop`, `Read`, `Heartbeat`, `Close` are the
SSE loop from one `await` to the next. `Receive` applies the reducer,
`EndOfStream`, `Outage` and `Leave` end a connection.

Abstractions:

* a text is a sequence of characters and a character is the draft generation it
  was written in, so mixed text of two model attempts is visible; sizes in bytes
  are lengths plus a fixed `Overhead` per event;
* stage 0, total 0 and index 0 of a text field stand for null; `timed_out` is
  merged with `cancelled`, which differ in wording only;
* the limit on the bytes of a draft snapshot is folded into `MaxDraft`;
* a 429 answer is a connection that closes without a frame: the page retries both
  in the same way;
* Starlette may also cancel the stream of a client that is gone; the model relies
  on the loop's own question `is_disconnected` only;
* a stop that could only be signalled locally, with no persisted reason, is in
  `ExecutionLifecycle` and not here;
* `Restart` is the death of the process together with its successor's recovery.

### Accounts

`users` and `sess` are the tables `users` (with membership of the admin role) and
`sessions`; `call` holds the open transactions; `now` is the clock. A call reads the
clock when it begins (`Begin...`), waits for the row lock of its account
(`LockUser`) and keeps the row it has read (`seen`), decides on it and commits
(`CommitLogin`, `CommitChange`, `CommitRecover`, `CommitEdit`). An edit that takes
administrator rights away first locks the admin role (`LockRole`) and counts the
others (`CountAdmins`). `create-admin` is `LockFirst`, `CheckFirst`, `CommitFirst`.
The flush of an edit inserts its audit record, and a new member of the admin role;
their foreign keys take KEY SHARE on the row of the administrator who acts and on the
row of the role. `WaitsForShare` says who has such a row locked FOR UPDATE, and a
commit waits for it. Calls may wait in a cycle: two administrators who edit each other
hold the row the other one's audit record needs. `WaitsFor` is the relation, `Cycle` a
cycle of it, and `Abort` what PostgreSQL does about one: it rolls one of the calls back.
`authenticate_session` takes no lock: `ReadSession`, then `SlideSession`. Locks are
not variables: a call holds what its position says, until it returns.

Abstractions: a password is its version, so "opened with the current password" is
a comparison of numbers; of the roles only admin is kept; a refusal, and a failed
audit write, which rolls everything back, is a return without effect (`Fail`);
of an audit record only its row lock is kept; the console's own authentication is the
guard `ConsoleOpen`, its sliding of the session an earlier `ReadSession`; the read-only
authentication of workers changes nothing. `disable_user`, `enable_user`,
`reset_password` and `set_user_roles` are called by tests only and are not
operations of the model; `disable_user` has no last-administrator guard, so
`AdminRemains` would not hold if it were exposed as it is. The revocation that
`_valid_record` writes for an expired session is rolled back by the exception that
follows, so the model has no such write. A wrong guess is version 0 or an older
version.

### HistoryStore

`hist`, `turns` and `saved` are the tables, `lease` is `HistoryRuntime._running`,
`epoch` the process's epoch and that of the row. A request thread goes through
`Submit`, `Resume` or `Requery`, then `ReadHeader`, `Reserve`, `Begin` (or
`BeginRequery`), `Work`, `Finish`, `Answer`: each of them one transaction or one
critical section of `query_api/history_api.py` and `chatbi_control/history.py`.
`RenameHistory`, `DeleteHistory`, `CopyResult`, `DeleteSaved`, `Create` and
`ListPage` are the remaining routes; `Look` is the page reading a header, whose
revision the next edit carries; `Reconcile` and `Restart` are as in
`ExecutionLifecycle`. `told` remembers what was answered to which operation id.

Abstractions: a snapshot is named by the turn that computed it; rows of other
accounts are never found (`_owned`), so there is one account; the title of a kept
result, its revision and the encoding of a snapshot are left out; so is a requery of
an analysis without a turn.

### QueryApi

One action per step between two things another thread can see: `Begin` (authorized
and audited), `CheckReady`, `ReserveOwner`, `Acquire` of the conversation, `Revise`,
`Execute`, `Executed`, `Create`, `Commit`, `Abort`, `Guard` and `Analysed` for an
analysis, `Release`. `ProbeLooks` and `RecordChecks` are the readiness thread: what
the probe saw is recorded later, and `up.last` remembers when the dependencies
really answered. `Tick` passes time over the conversation's life, the deadline and
the age of the evidence; `Outage` and `Close` are the environment. An audit write
that fails refuses the request.

Abstractions: a turn's state is its number, so a conversation is the sequence of
turns it was built from; middleware, response bodies and the cookie protection are
left out.

### Lifespan

`Startup` is the list of what `create_runtime` and the application's lifespan
acquire, in the order of the code; `stack` is the `AsyncExitStack`. `StartFails`
at any step unwinds what was acquired. A request takes the leases of its kind one
by one in the order of its route (`TakeLease`), may lose the race against closing
(`LoseLeases`), and leaves. `Shutdown`, `CloseExport`, `CloseExecution`,
`DrainGuard`, `DrainHistory`, `Unwind` are the take-down, each of which may fail and
none of which stops the rest.

Abstractions: one life per process (a second lifespan in the same process, as tests
run it, and the path with injected applications are not modelled); a thread is the
leases it holds, and reads without a lease after the take-down are left out.

### ControlMigration

A run of `migrate` goes through `LookForDatabase`, `CreateDatabase`, `LookForRole`,
`EnsureLoginRole`, `RunFiles` (the one transaction), `Setup`, `MakeStep`, `NoteStep`
(the checkpoint library, external) and `Grant`; `Fails` ends it anywhere, and it may be
started again or beside another one. `Init` has nothing, an earlier release, or an
earlier release whose migrator died. `ReadVersions`, `ReadCheckpoints` and
`VerifyHistorySchema` are the three transactions of `verify_control_schema`.

Abstractions: a SQL file is one object; a checkpoint migration executed twice is
executed once (its statements are guarded); the library is the same in all releases.

### AnalysisRun, AnalysisTasks, ReportStream

`AnalysisRun`: `row` is the row of the run, `disk` the checkpoint, `att` the
attempts. An attempt is `Reserve` (guard and ownership), then the nodes of the graph
one after the other, each followed by the save of its state, then the conclusion
that completes the row. `Signal` is a stop, `GraphFails` a failed call outside a
node, `ExpireCancelled`, `DeleteHistory`, `Due` and `Cleanup` expire and reclaim the
run, `Crash` ends an attempt without a word. A failing task is one that failed twice
in a row, as the node repeats it once at once.

`AnalysisTasks` has no state: `RequestProblem` and the plan of the four comparison
tasks, the validation of dependent tasks and the order they run in, the attribution
of a change to products and factors, the products that lead it. Amounts are integers
and quotients fractions, where the code computes with 28-digit decimals and
reconciles within a millionth.

`ReportStream`: `ReadChunk` feeds tokens to the incremental decoder, which keeps a
stack, a state and the text of the shown fields; `BreakOff` ends the call and resets
the draft, the second one fails; `EndOfText` parses the whole and checks evidence
and incomplete tasks against the results. A token is a character; the grammar of
numbers is one token that is a number and one that is not.

### ExportRuntime

`rt` is the `ExportRuntime` object (initialized, closing, its configuration, slots,
active processes and those that are to be killed), `disk` the working directories,
`workers` the renderers alive, `job` the requests. `Prepare` and `Steps(r)` are
`generate` and the delivery, from the fonts to the removal of the directory;
`WorkerExit`, `Deadline`, `Disconnect` are the environment; `Start`, `ShutdownBegin`,
`ShutdownStop`, `ShutdownEnd`, `Die` the process. A failure is one of the named
`Faults`. During shutdown the code clears the slots while a thread between acquiring
and starting its process may still start it, so `SlotCoversWork` speaks of a serving
process.

### RagPublish

The fact files (`source`) are accepted or refused by operators that follow
`load_facts` and `build_relationship_graph`; a build then makes its staging
directory, creates, fills and validates each collection, writes the manifest, renames
the directory and replaces the pointer; `StepFails` leads through `DeleteCreated` and
`RemoveDirectories`, `Die` leaves everything where it is. Readers read the pointer,
take the snapshot from the cache or load it, and answer. Two builders may be given
one id. Reading the fact files is one step, embeddings and texts are left out.

### QueryCalendar, Retrieval, SqlGuard, QueryPipeline

`QueryCalendar`: a day is its ordinal, a month `12 * year + month - 1`; `Window` of a
time expression follows `query_understanding.py`, the period of a WHERE clause and
the key of a row follow `result_time.py`, both with the years Python's dates end at
(`MinYear`, `MaxYear`) as a bound that raises.

`Retrieval`: the cut of the hits, the metric documents and their dependencies, the
join paths between the chosen tables, the required columns, the calendar. `SqlGuard`:
scope, columns, joins, aggregates, metric formulas and filters of a text, the
certification of a restorable question and the comparison of the text with it. The
scores of the vector store, the model and the database are external: any answer of a
finite set.

`QueryPipeline`: `Authorize` (with its audit), `Understand` with its attempts,
`ResolveContext`, `Generate`, `Guard`, `Send`, `Return`; `Stop` at any time, seen at
the checkpoints of the code. A stage that raises leaves by a handler without a
checkpoint (`Unchecked`): a stop during a retrieval whose embedding or vector store
fails, or during the last failing attempt of a model call, ends as that failure and
not as stopped. The syntax tree of a SQL is the record the checks look at.

### SemanticRevision

A text is a pair of key and spelling, so that the code's comparison by normalised
text differs from a comparison of texts. `Merge` and the revision of order, limit
and selection are operators over states and deltas. A first turn may hold several
conditions on one field, as the parser lets it.

## 3. Runs

All runs are small instances. `Events`, `Happens`, `Operations`, `Faults` and `Acts`
say which events a run includes, so that each run spends its states on one question.

| Run | Instance | Shows |
|---|---|---|
| `execution_races` | 2 jobs, 1 history, cancel, deadline, revocation; 805,410 states | the first persisted reason decides; nothing concluded changes; context stands still; the lease excludes reconciliation and a second job |
| `execution_faults` | 2 jobs, 2 histories, limit 1 per account, cancel, shutdown, one failure; 930,618 states | an observer is never told a definite outcome that is not persisted; counters equal leases; one execution per operation id |
| `execution_restart` | 1 job, two processes one after the other, crash, lost guard, deletion, stops, two failures; fair; 237,429 states | rows agree; refinement of the contract; leases return; stops conclude |
| `execution_lease_promise` | 2 jobs, 1 history, cancel, one failure | violated, see section 6 |
| `events` | `page`: 1 page, stage, tasks, list draft of two items, a model retry, ring of 2 events and 3 bytes, stop, cut or restart. `subscribers`: 2 pages and connections, limit of one subscriber, leaving, revocation; 1,044,081 states | the page mirrors the channel character by character; the reducer never refuses a frame; outcomes shown are persisted; subscribers are counted and at most one frame follows a revocation |
| `events_outcome_promise` | 1 page, ring of one event, a cut or a restart; fair | violated, see section 6 |
| `accounts_install` | 2 accounts, empty system, 2 calls, limit of 2 wrong passwords, one lock period; 1,046,057 states | the first administrator is created once; wrong passwords are bounded |
| `accounts_sessions` | 2 accounts, 2 sessions, 3 passwords, 2 calls; 1,898,498 states | sessions are fresh; resets hold; an enabled administrator remains |
| `services` | one or more instances of each part below; 1,370,573 states | table below |
| `promises` | analysis run (2 attempts; 1 attempt and 2 failures), exports, event stream, account calls; fair; 74,464 states | checkpoints of overdue runs are reclaimed for good; slots come back; outcomes reach pages that listen and lost clients' subscriptions are returned; account calls end, with PostgreSQL's help where they wait in a cycle |
| `analysis_resume` | 2 attempts, 2 tasks, one failure | violated, see section 6 |
| `export_slots` | 2 requests of one account, the font probe may fail | violated, see section 6 |

The parts of `services`:

| Part | Instance | Properties |
|---|---|---|
| `calendar` | 10 days at month, year and leap boundaries, all forms of time expressions, WHERE clauses of up to 3 predicates | `CalendarExact` |
| `pipeline` | a star with two calendar roles, a key of two columns, a join on a column that is not unique; every stage answers anything | `MetricsExact`, `CertifiedAnswers`, `StopWins` |
| `revision` | all pairs of small states and deltas, former turns with one condition, a range, or conditions on two fields | `FollowUpExact` |
| `turns`, `entry` | 3 turns of one account; 2 requests of two accounts with outage and close | `TurnsChain`, `NothingOrphaned`, `AdmittedOnEvidence` |
| `requeried`, `resumed`, `edited` | 2 histories and 2 threads; an analysis and 3 threads; edits beside a turn; restarts | `HistoriesHold` |
| `pages`, `titles` | 3 histories read page by page while they change | `HistoriesHold` (`PagesComplete`) |
| `analysis` | 2 attempts of 2 askers, 2 tasks, one failure | `RunsConclude`, `ExpiredForGood` |
| `tasks` | products with at most two rows a period, plans of three tasks, all candidates | `AnalysisExact` |
| `report` | 8 documents in chunks of up to 2 tokens, one break | `DraftIsReport` |
| `export` | 2 requests, 1 slot, 2 lives, every fault but the probe's | `SlotsMatchWork` |
| `assets` | 2 builders, 2 ids, 4 versions of the facts, one fault | `PublishedIsWhole` |
| `lifespan` | 2 requests, one failing step | `LifespanHolds` |
| `schema` | 2 migrators, five earlier releases and their remains, one failure | `LifespanHolds` (`MigrationHolds`) |

Why the bounds are enough to be interesting. Two jobs on one history are the
smallest case with a competitor for lease, active turn, context and operation id;
a third meets the same guards as the second. One failure reaches every failure
path, two reach a failure inside the failure path. Two processes are a zombie and
its owner. A ring of one or two events with a sequence of two or three overflows
while a reader is behind, and two generations are the least that can be mixed. Two
connections on a limit of one fill it. Two calls are the least that can race for an
account, the admin role or the installation, and the least that can wait in a cycle; a
third one waits like the second. Two
attempts are the one that leaves a checkpoint and the one that finds it. Three
histories on pages of one are the least in which the middle one can move over the
page border. Two builders are the least that can meet under one id. Chunks of up to
two tokens break every escape at every place.
Symmetry is used for jobs, operations, pages, connections, accounts, sessions and
calls, in safety runs only. The bounds are constants (`MaxEpoch`, `MaxFaults`,
`MaxSequence`, `MaxReset`, `MaxText`, `Outages`, `MaxTime`, `MaxPassword`,
`MaxLives`, `MaxProbes`, `MaxSaved`, `MaxRename`, `Ids`, `Turns`, `Attempt`, `Tasks`,
`Documents`, `ChunkSize` and those named above); each appears in the guard it limits.

### Fairness

`ExecutionLifecycle`: weak fairness of the request and the worker thread of every
job (threads of a running process are scheduled, and the calls to the model and to
the databases have timeouts), of the delivery of a committed stop (the statement after the commit in
the same thread, or the next round of the monitor), and of `Reconcile`: reading
the history header calls it, so this assumes that somebody looks at the history
again. Nothing forces a submission, a cancel, a deadline or a crash.

`ExecutionEvents`: weak fairness of the conclusion by the worker
(`Finish`, `DropChannel`: the lease's release runs in a `finally`), of
`Reconcile`, of each SSE loop and of each page that observes. Nothing forces the
worker to write, a connection to break or a user to leave.

`Accounts`: strong fairness of the next step of every open call, because PostgreSQL
queues the waiters of a row lock and grants it in turn, and weak fairness of `Abort`,
because a waiter that has waited for `deadlock_timeout` looks for a cycle and aborts
one transaction in it. Without the second, `CallsReturn` is false: the locks of an edit
are taken in no order that excludes cycles (section 6). Nothing forces a call to
arrive, to fail otherwise or the clock to run.

`AnalysisRun`: weak fairness of each attempt (its thread is scheduled, the calls
have timeouts), of `Due` (the clock reaches the 24 hours) and of `Cleanup` (a thread
that wakes up periodically and survives a failed round).

`ExportRuntime`: weak fairness of the steps of each request, of its deadline (the
polling loop compares the clock) and of the two halves of a shutdown that has begun.
Nothing forces a renderer to exit: a hung one is ended by the deadline.

Deadlock is checked in the execution, event and account runs, where `AtRest` is the
legitimate end: every thread, page and connection has finished. In `services`,
`promises` and the two runs taken from them it is off: their parts have no such
end. A build, a report, a process life, a case of a pure operator simply ends where
nothing is left to do, and what must not stop too early is stated as a property
(`NothingLeft`, `NothingOrphaned`, `promises`).

## 4. Proofs

Every theorem below is checked by TLAPS for all values of the constants that its
assumptions allow. Each is an invariant (or an action property) that a run of
section 3 checks on a small instance, or the refinement of the contract; each rests
on an inductive invariant that was first checked with TLC.

### The rows of an execution: `Requests_proofs`

For every set of jobs, histories, accounts and operations and any bounds, from
`ConstantsAssumption` alone:

| Theorem | Statement |
|---|---|
| `TypeCorrect` | every variable keeps its type |
| `RowsAlwaysAgree` | record, turn and execution row describe the same live execution |
| `FirstReasonAlwaysDecides` | a persisted stop reason decides the outcome, and only it leads to cancelled or timed out |
| `OneExecution` | one execution per operation id and account |
| `ContextStable` | the context an execution was accepted against stands still while it is live |
| `ConclusionsAreFinal` | concluded stays concluded, a reason is never replaced |
| `ImplementsContract` | `Spec => Contract!Spec` |

The argument. `IInv` adds to these properties what makes them inductive: a
request past its first step knows its process, history and operation (`Placed`);
a registered control belongs to such a request (`Behind`); a request that has not
begun has no row (`Fresh`) and one that has not scheduled has no worker (`Early`),
which is why an insertion never overwrites a row and a worker never meets a job
without one; a worker about to show a saved result has one (`SavedKnowsResult`);
a worker that leaves because of a stop that is not persisted yet carries its reason
(`StoppedKnowsWhy`), without which `PersistStop` could write a stop without a
reason. `RowsAgree` is needed by nearly everything: it makes the token check
(`Current`) equivalent to "this is the live execution of its history".

Thirty actions would make thirty times eleven proof obligations. Instead one
lemma per action shows that the action is one of nine *row steps* (kept,
inserted, started, stopped, finished, stop finished, given up, deleted, process
started), and that threads and memory move as `MemStep` says; each part of `IInv`
is then proved once over row steps (`RowsAgreeKept`, `FirstReasonKept`,
`OneExecutionKept`, `ContextKept`). The refinement is proved over the same row
steps (`RefStep`).

### The memory of an execution: `Requests_proofs`

| Theorem | Statement |
|---|---|
| `MemoryInvariant` | `IInv` and `MInv` hold together |
| `LeasesGuardHistories` | while a job holds the lease of a history in a process, nobody there gives its execution up or leases that history; that every live execution has its lease is not said, and false (section 6) |
| `ObserversSeePersisted` | a definite outcome that is shown is the one in the row |
| `CapacityIsAccounted` | the counters equal the leases held, and stay within the limits |

Request thread and worker may both release the lease of a job, and each release is
two critical sections. `MInv` says per job who still owes it (`LeaseOwed`): as long
as nobody has begun the release, whoever owes it has the capacity; at most one of
the two is between its halves; a request that has not come that far has no lease.
That makes the counters inductive: each action takes one lease, returns one, or
keeps all (`LeaseStep`), and the cardinalities follow from the library's theorems
about finite sets. For the observers, `RowEpoch` (a row carries the epoch of its
process) and `SavedIsRow` say why a channel that is finished after a commit shows
what was committed.

### What a page sees: `ExecutionEvents_proofs`, `MCExecutionEvents_proofs`

For any number of pages and connections, any limits of ring, draft, deltas and
subscribers, and any of the external events, from `EventsAssumption`:

| Theorem | Statement |
|---|---|
| `EventTypes` | types; the ring is within its limits and ends with the newest event |
| `PagesMirror` | a page at sequence n shows what the channel held after event n, but for a persisted status |
| `OutcomesPersisted` | a definite outcome on a page is the one in the row |
| `ReducerTakesAll` | no frame the server sends makes the reducer ask for a snapshot |
| `SubscribersAlwaysCounted` | the subscriber count is the number of subscriptions, within its limit |
| `OneFrameLate` | after the rights are gone a stream sends one frame at most |

None of these is inductive: a page is right because every frame that is still on its
way to it is right, so the invariant `EventsInv` is about these frames. It has four
layers, each needed by the next:

* `Channel`: the history of the states only goes forward and ends with its only
  terminal state (`Grows`), the ring holds the last events without a gap, and each event
  leads from the state before it to the state after it *as the reducer computes it*
  (`Leads`). The writers keep it; for `text_delta` this is the arithmetic of the chunks
  (`Chunks`, `TextJoins`, `TextDeltaWrites`) and the bytes of the ring (`Evicted`).
* `Rows`: a status the channel has shown is one the row had, and a definite one is the
  one it has. Before there is a channel a row can only have been stopped.
* `Streams`: every frame on a wire or in a queue is an event or a snapshot of the
  channel, a snapshot of a row that was read once (`SavedOf`), or the last word of a
  stream that lost its rights; the cursor of a stream is not ahead of the channel; only
  the frame about to be sent can be late.
* `Pages`: for a page and its connection, the frames on the wire followed by those in the
  queue continue what the page shows, up to the cursor of the server (`Feeds`, `At`); a
  page that shows a row's snapshot and an execution whose channel is gone gets nothing
  that needs more (`Settled`, `Quiet`). Two pages never share a connection.

A step of the worker or the row leaves frames and pages true, because history is only
appended to (`WritersKeep`, `RowGoesOn`). A step of a stream or a page changes one
connection or one page, and one lemma each says what then has to be shown (`ConnMoves`,
`PageMoves`). `TakesFirst` is the meeting point of the two sides: the first frame that
`Feeds` allows is accepted by the reducer, and what is left feeds the new state.
`EventsAssumption` asks for positive limits, for a ring that can hold an event of one
character (`_append_locked` relies on it), and that `None` is no page, connection or
page state.

### Accounts: `Requests_proofs`

`AccountsTypeCorrect`, `InstalledAtMostOnce`, `AnAdminRemains`, `SessionsStayFresh`,
`ResetsHold`, `GuessesStayBounded`, for any number of accounts, sessions, passwords
and concurrent calls. `SessionsStayFresh` says that a session that is not revoked
belongs to an enabled account and was opened with its current password; roles are not
in it, they are read at each request. The heart of the invariant are the locks: what a call has read
under a row lock still is the row (`SeenIsCurrent`), one call at a time holds an
account, the admin role and the installation (`OneHolder`, `OneRole`, `OneInstall`),
and therefore what was counted or found empty under a lock still holds when it is
used (`CountStands`, `EmptyStands`). `LockGrows` relates the counter of wrong
passwords to the end of the lock; `GuessesStayBounded` follows with a lemma about
division (`DivBound`).

### Histories: `HistoryStore_proofs`, `MCHistories_proofs`

For any number of histories, turns, requests, kept results and starts of the process and
any page size, from `StoreAssumption`:

| Theorem | Statement |
|---|---|
| `HistoriesKeep` | `HistoryInv`, the inductive invariant |
| `HistoriesAlwaysHold` | a repeated request gets the turn and the outcome it got before; a page at the current revision has seen every turn and outcome; successes chain |
| `PagesAlwaysComplete` | the list shows nothing twice and, at its end, every history nobody touched meanwhile |

`AnswersStand` is not inductive: that a repeated request finds its turn again depends on
the request digests. `Hashes` says that one request made one turn and where this turn can
still be found: a question and a resumed analysis in the history they name, unless it is
deleted, a requery under its operation id. `Callers` says what a thread may rely on between
its transactions: before its turn is accepted, the history or source turn it names (and,
for a resume past the header, that the revision it read has no success yet); after that, that
the turn it was given is the turn of its request and, before it answers, that the row says
what it is about to answer. `Chains` describes a live history: the active turn is the newest
and goes on from the last success, and each success goes on from the greatest one before it,
so the context revision counts them. `TurnRows` ties an accepted turn to the history it is
active in, so that giving it up, or finishing it, frees that history and no other. `Viewed` needs that
content changes only with the revision, and `Scanned` that a history nobody touched stays
below the cursor while it is unseen and that a shown one never sinks below it.

Most actions touch one or two rows and only go forward: rows persist under their kind and
operation id, a changed row gets a higher revision, a settled turn stays settled and a turn
leaves its history only when that is deleted (`Onward`). Under `Onward` the digests, the
answers, the kept results, the page, the list and the other threads keep what is said of
them (`AskedGoesOn`, `AnswersGoOn`, `SavedGoOn`, `ViewGoesOn`, `ScanGoesOn`, `AsksGoesOn`),
and each action has one lemma for what it changes (`RenameKeeps`, `DeleteKeeps`,
`ListPageKeeps` and so on). `StoreAssumption` asks for a positive page size, one life and
one instant, a list of initial kinds that fits the ids, and that `None` is no id and no row.

### Conversations and admission: `QueryApi_proofs`, `MCServices_proofs`

`EntryTypeCorrect`, `ConversationsChain`, `PlacesAreReturned`, `AdmissionsAreRecent`,
for any number of turns, accounts and conversations, all bounds and any of the
external events, under `QueryApiAssumption`. `Tokens` and `Leased` carry the proof: a
token belongs to a turn that is working, the conversation is as that turn found it,
and a turn that has lost its token found its conversation expired; so a commit
writes over nothing it has not read. `Places` counts the places of an account by its
requests. `Evidence` dates the verdict of the monitor and the probe under way.

### One question through its stages: `Requests_proofs`

`StopAlwaysWins` says what a question answers that was stopped before its end: that it
was stopped; or, only while there is no text of SQL yet, that the model or the retrieval
failed (`LLM_ERROR`, `CONTEXT_ERROR`), because a stage that raises does not look at the
stop again. And a statement is not sent after the stop. It needs one conjunct per stage at which a stop can come (`StopInv`), and that there is no text as
long as the excuse may be needed (`NoTextBefore`).

`AnswersAreExact` is the theorem about the numbers in an answer: whatever metrics
are published, whatever the vector store returns and whatever text the model writes,
an answer is computed from the metrics that were asked for, over their source, their
time field, with their filters, through certified joins, and no row of the source is
counted twice. `CertifiedInv` says what each stage hands to the next: a context that
is `ContextSound`, a text that the guard accepted for that context. The work is in
the lemmas: what retrieval puts in a context (`PlanSound`, `JoinsSound`,
`RetrieveSound`), and what a text that passes the guard can be (`AcceptedIsSpent`):
each of its joins spends a certified foreign key of its own and none spends one
twice, hence each joined row is unique and no row of the source is repeated
(`SpentCountsOnce`). The assumptions are named and are what the repository's own
`semantic/metrics.json` satisfies:

* `MetricsAssumption`: a metric names its source; it has a fixed filter or aggregates
  a column, not `*`; its time field is a foreign key of its source. (Every shipped
  metric has the filter `order_status = 'completed'`, and one source.) Without it the
  statement is false, see section 6.
* `InputAssumption`: sequences are sequences, and the vector store returns published
  metrics only, which `resource_retrieval.py` makes sure of.
* `RetrievalAssumption`: the limits are positive, a foreign key pairs as many columns
  as it names, and there are finitely many of each.

### Start and end: `Services_proofs`, `MCServices_proofs`

`MigrationIsWhole` holds for any number of migrators at once, any number of later
migrations of the checkpoint library and any number of failures; `LifespanIsOrderly`
for any number of request threads and failures.

What is installed only grows, so what a migrator has seen stays true. `MigInv` says how
far a run has come (`Progress`) and, for a run that is alone, that what it has read
is what is there (`Undisturbed`); `Installed` relates the files of a release to each
other and the grants to the last migration, which is what makes the weak look of
`verify_control_schema` sufficient.

`LifeInv` relates phase, exit stack and leases. Before the analysis is acquired there
is no `history_drain` on the stack and nobody may ask; afterwards it is the top of the
stack until the last lease on a history is back (`StartOK`). What is open in each
phase (`OpenOK`), what still has a cleanup to come (`ToClose`), and who may still be
inside once a class of leases is no longer given out (`InsideOK`) then follow step by
step. A thread is described by one predicate over its record (`ThreadFits`), so that
the actions of requests need one lemma (`ThreadStep`).

### What is published: `Services_proofs`, `MCServices_proofs`

`PublishedStaysWhole` holds for any number of builders, build ids (two builders may be
given the same one), readers, failures and deaths, and for any fact files. A builder
owns what it has created: `BuildsApart` says that two builders of one id share no
collection, no staging directory and no final directory, because each of these is
made only where there is none, and so what the clean-up of one removes is never what
the other relies on. `BuildStage` says which of them a builder has at each step and
`BuildHolds` what is in them: the collections before the present one are filled, after
the last one all are, the staging directory holds the manifest before it is renamed
and the final one after. A published builder keeps all of it, and whatever the pointer,
the cache or a reader names was published by one (`Published`). `AcceptedIsUsable` is
about the facts: what `load_facts` and `build_relationship_graph` accept has a key under
every foreign key and one column for each step of a time path.

The assumption (`RagAssumption`) says that there are one to three collections per build,
that there is at least one content of the fact files, that lists have a length, and
that `None` is no id, count or manifest.

### Export slots: `Services_proofs`, `MCServices_proofs`

`SlotsStandForWork` holds for any number of requests, accounts and starts of the API,
any limit and any of the `Faults`. `SlotsFit` is what a serving process keeps: a
request at a stage of `Holding` (working, or pinned by a directory that could not be
removed) has its account in the slots, no two such requests share an account, renderers
belong to requests that register or wait, directories to requests from the start of the
renderer on. So a release, which discards the account and not the request, can only
discard the slot of the request that releases. The limit is then an injection of
requests into slots. In the other phases only types are kept: the shutdown clears the
slots while threads go on, and the next start begins with an empty root (`Down`).
`FailureFreesSlot` is proved for all faults but a failing font probe, with which it is
false (section 6). The assumption is `ExportAssumption`: positive limit, a request
comes from accounts.

### One outcome of an analysis: `Services_proofs`, `MCServices_proofs`

`RunsHaveOneOutcome` and `ExpiredStaysExpired` hold for any number of attempts, askers,
tasks and failed calls. The invariant `RunInv` rests on who has the run: attempts under
way have different askers (`Apart`), an attempt between its claim and its answer is one
of the asker in the row, so there is at most one (`Alone`). While the row is active,
what this attempt has in mind is what the checkpoint says (`Fits`), so a completion
completes exactly what a later attempt replays; nobody has a lasting answer before.
Once the row is completed nobody writes the checkpoint, and once it is expired, a reader
that was let in before finds the old checkpoint or an empty one (`Reads`), which answers
nothing. An expired run may still be written by the attempt that had it, whose
completion then fails on the status of the row.

For the clean resume `StagedAs` says what an attempt has behind it at each node. Tasks
are run in order, so before a task that was run all are done (`InOrder`), the task left
by an outage is the first one that is not done, and running it again replaces the
outage (`RanTask`). A resumed attempt in which nothing fails comes to its conclusion
without a failure that could be retried. The order of the tasks is used through the
least element of a set of numbers (`TheNext`). The assumption is `RunAssumption`: there
is a task, and `None` is no attempt, asker or failure.

### From the components to the runs

The runs `services` and `events` check instances of the components side by side. In
`MCServices_proofs`, `MCHistories_proofs` and `MCExecutionEvents_proofs` the component's theorem modules are
instantiated with the same values, the definitions of both are shown to agree (`SameTurnsNext`, `SameSchema`,
`SameLife`, `SameAssets`, `SameExports`, `SameRuns`, `SameRequeried` and its like, `SamePage`,
`SameSubscribers`), and the invariants hold where a behaviour
is about that part: `ChainsHere`, `NothingOrphanedHere`, `AdmissionsHere`,
`LifespanHoldsHere`, `PublishedHere`, `SlotsMatchWorkHere`, `RunsConcludeHere`,
`ExpiredForGoodHere`, `HistoriesHoldHere`, `PagesMirrorHere`, `OutcomesPersistedHere`, `ReducerTakesAllHere`
and `StreamsAccountedHere` are the runs' own properties. They rest on
`ServicesAssumption` and `EventsRunAssumption`, which TLC evaluates.

## 5. Only model-checked

* Liveness (`LeaseReturned`, `StopConcludes`, `StreamsEnd`, `CallsReturn`,
  `CheckpointsReclaimed`, `SlotsComeBack`): fairness and ENABLED are outside what
  TLAPS proves here.
* Induction over data. What `QueryCalendar` (`CalendarExact`), `SemanticRevision`
  (`FollowUpExact`), `AnalysisTasks` (`AnalysisExact`) and the decoder of `ReportStream`
  (`DraftIsReport`) compute is checked over the inputs listed above; a proof for every
  input would be an induction over their recursive functions. `CertifiedAnswers` asks
  for the *existence* of a text that the guard accepts and for rankings without ties:
  the first needs such a text built for every context, which is again an induction
  over its metrics. `Ranks` shows how far one gets without: the order of a finite set
  is taken as a bijection, not as a recursion.
* The four properties of section 6 are false of the code.

## 6. Where the code and its documents disagree

* `execution_lease_promise` (`query_api/execution.py:185`). `submit` builds its
  answer inside the `try` whose handler releases the lease. If reading the row for
  the answer fails after the worker was scheduled, capacity, history lease,
  channel and stop control go while the worker runs. `ExecutionRuntime`'s
  docstring promises that they are kept until the worker has really left. The
  rows stay correct (`execution_faults`, the theorems): the execution is given up
  as unconfirmed or still concludes, and the token check keeps a late worker out.
* `events_outcome_promise` (`frontend/src/execution.ts:148`). A snapshot built
  from the row has sequence 0 and generation 0. The reducer ignores a snapshot of
  an older generation or an equal sequence before it looks at the status. A page
  that only saw sequence 0, or a later generation, and lost its connection before
  the outcome reconnects again and again without ever showing it. `Deaf` names
  exactly these pages, and `StreamsEnd` shows that all others learn the outcome.
* `analysis_resume` (`business_analysis/application.py:474`). When the extraction of
  the request fails for want of the model service, the failure is saved in the
  checkpoint. The next attempt asks again, gets a candidate, and `_validate_request`
  returns at once because the old failure is still set. Every later attempt answers
  with the old, retryable failure until the 24 hours are over, although
  `docs/specs/business-analysis.md:64` promises "仍失败则保留 checkpoint，允许在有效期内恢复".
  `CleanResumeConcludes` shows that a run with a saved plan does resume.
* `export_slots` (`query_api/export_assets.py:236`, `export_runtime.py:192`).
  `generate` verifies the fonts under the slot it has just taken; a failing or slow
  `fc-match` raises what no handler names, and the slot stays taken until the API
  restarts. `docs/specs/result-export-v1.md:91` says "完成或明确失败解除占用". Without this
  fault the same property holds (`SlotsMatchWork`).

A smaller remark about `query_api/execution_api.py:384`: a reader the ring has left
behind gets the outcome in a snapshot, and the loop ends only on a `terminal` event
or a terminal first snapshot, so the server goes on until the client hangs up. The
browser does hang up, and `StreamsEnd` shows that the stream ends then.

Observations met while modelling that no run is about:

* an analysis task that failed twice for want of a service is reported as
  `CANNOT_ANSWER` (`business_analysis/application.py:614`) while the run stays active;
  the recovery gate of the history header then offers no recovery;
* a provider exception in the last attempt of an analysis call ends the graph without
  a new checkpoint, so the next attempt repeats the node;
* a static context (`online_query/context.py:76`, used for offline evaluation only)
  with two edges to one target accepts a text that joins the second role under the
  alias of the first;
* a filter on 年份 or 月份 in a restorable question is bound to `full_date`;
* the design fixes one order of row locks, "锁顺序统一为User→现有必要的admin Role锁"
  (`.scratch/dev-command-entrypoints/design.md:54`). An edit in the console locks the
  edited user, then the role; at its commit the audit record that the `before_flush`
  hook inserts (`chatbi_control/admin.py:466`) shares one more user row, that of the
  acting administrator (`database/control/001_schema.sql:59`). Two administrators who
  edit each other can wait for each other, and PostgreSQL has to abort one of them: the
  model has the cycle, and `CallsReturn` needs the abort;
* "同一语义槽位的新值替换旧值" (`docs/specs/query-api.md:203`), but `_merge_filters`
  (`query_api/semantic_revision.py:343`) replaces only the last filter of a field. After
  a turn with a range, two filters on one field, a follow-up that names the field
  replaces one bound and leaves the other in force. `FollowUpExact` says what does hold;
* a range that a follow-up gives as two filters (from and to) collapses to the second in
  `_merge_filters`; a delta whose time is 当前, 目前 or 现在 lifts the previous window,
  though the prompt (`online_query/query_understanding_llm.py:364`) calls these words no
  condition on time: `FollowUpExact` says nothing about them;
* the commit of a turn whose conversation was purged answers 500, not 404; the owner
  of a conversation is its `subject_id` only; `CONVERSATION_CONFLICT` needs a limit of
  at least two requests per account;
* a request is authorized and audited before its conversation is looked up
  (`query_api/app.py:826`, then `:867`), where `docs/specs/query-api.md:199` and `:246`
  describe the order the other way round;
* `verify_control_schema` asks whether any checkpoint migration is noted, not whether
  the last one is: what makes it sufficient is that the grants come after all of them
  (`StartsOnWhole`), which a later version of the library with more migrations over
  tables already granted would not have; the SQL files grant to `chatbi_control_user`
  by name, so another `POSTGRES_CONTROL_APP_USER` never passes the look;
* the guard compares the FROM of a text with the source of a metric only through its
  filters, columns and joins: a single metric defined as `COUNT(*)` without a fixed
  filter could be counted over another table of the context by a text without joins
  (`online_query/sql_guard/sql_guard_metrics.py:49`). No published metric is of that form
  (`MetricsAssumption`), and labels are not required to be unique across them;
* an operation id is unique per history on the synchronous routes and per account for
  executions; a repeated resume is answered with the analysis' later success.

## 7. Not modelled

Semantic and structure assets, observability, evaluation and scripts: they have no
shared state with the service, or only observe it. In modelled components: what
section 2 lists as abstracted, request parsing, wording, prompts, rendering, the
encoding of stored snapshots, grants of the database roles, audit records beyond
their write. Of executions: a requery and the run guard of an analysis as steps of
their own (section 2 says which modelled steps they coincide with); attempts of a
zombie process on an analysis run its successor works on.

## 8. Plan

Done, in the order of importance: the life of an execution with its contract and
proofs, how it is observed, the accounts behind it; then the histories, the query
entry with its conversations, analysis runs, exports, the published assets, the
online query with its guard, follow-ups, and the life of the process.

Then the proofs of section 4: rows and memory of an execution, accounts, the query
entry, the pipeline, the installation, the life of the process, the published
assets, the export slots, the analysis runs, the events of an execution and the histories.

Model to come: requery and the run guard as executions in `ExecutionLifecycle`, and
with them the composition of a stop with `AnalysisRun`.
