------------------------- MODULE ExecutionLifecycle -------------------------
(***************************************************************************)
(* The background execution of a question, from POST to released lease:    *)
(*                                                                         *)
(*   - the PostgreSQL rows history_records, history_turns and              *)
(*     history_executions and the transactions on them                     *)
(*     (chatbi_control/history.py, chatbi_control/execution.py);           *)
(*   - the in-memory runtime: capacity, history lease, stop control, event *)
(*     channel (query_api/execution_runtime.py, history_runtime.py);       *)
(*   - the request thread that accepts and dispatches, the worker thread,  *)
(*     the monitor thread, cancelling and reading clients                  *)
(*     (query_api/execution.py, history.py);                               *)
(*   - API processes that crash, close, lose the advisory-lock connection, *)
(*     and their successors.                                               *)
(*                                                                         *)
(* One action is one database transaction or one critical section.  A Job  *)
(* is one POST together with the worker it may create; the execution row   *)
(* it may insert has the job's identity.                                   *)
(***************************************************************************)
EXTENDS Integers, FiniteSets

CONSTANTS
    Job,         \* submit calls, and the execution rows they create
    History,     \* history records, all existing at the start
    Owner,       \* accounts
    OwnerOf,     \* the account of each history
    Operation,   \* client-chosen operation ids
    None,        \* SQL NULL / Python None
    MaxPerUser,  \* CHATBI_EXECUTION_MAX_PER_USER
    MaxTotal,    \* CHATBI_EXECUTION_MAX_TOTAL
    Events,      \* bound: the events of the environment that may happen
    MaxEpoch,    \* bound: API processes started, one after the other
    MaxFaults    \* bound: database or scheduling failures

ASSUME ConstantsAssumption ==
    /\ OwnerOf \in [History -> Owner]
    /\ None \notin Job \cup History \cup Operation
    /\ None \notin {"user", "deadline", "auth"}
    /\ Events \subseteq {"cancel", "expire", "revoke", "delete", "close", "crash", "guard"}
    /\ MaxTotal \in Nat \ {0}
    /\ MaxPerUser \in 1..MaxTotal
    /\ MaxEpoch \in Nat \ {0}
    /\ MaxFaults \in Nat

Epoch == 1..MaxEpoch
Reason == {"user", "deadline", "auth"}
Open == {"accepted", "running"}
Live == Open \cup {"stopping"}
Confirmed == {"succeeded", "failed", "cancelled", "timed_out"}
Terminal == Confirmed \cup {"unconfirmed"}

\* "none": not inserted yet; "gone": deleted with its history.
RowStatus == {"none", "gone"} \cup Live \cup Terminal

VARIABLES
    \* PostgreSQL
    rec,       \* history_records: active_turn_id, execution_generation, context_revision
    deleted,   \* the history records with deleted_at set
    turn,      \* history_turns.status of the turn a job inserted
    exec,      \* history_executions: status, stop_reason, generation, epoch
    dbEpoch,   \* history_runtime.runtime_epoch
    \* memory of the API processes
    req,       \* the request thread of each job
    worker,    \* the worker thread of each job
    leased,    \* jobs whose ExecutionLease holds their history (_running)
    capped,    \* jobs whose ExecutionLease holds capacity
    released,  \* jobs whose ExecutionLease.release has begun
    bound,     \* jobs whose stop control is registered (_stop_controls)
    why,       \* first reason signalled to the job's stop control
    chan,      \* status shown by the job's ExecutionEventChannel
    sig,       \* stop signals persisted but not delivered yet
    total,     \* _active_total of each process
    active,    \* _active_by_user of each process
    \* environment
    proc,      \* each API process: "off", "up", "closing", "down"
    guarded,   \* processes whose advisory-lock connection is intact
    expired,   \* jobs whose deadline has passed
    faults     \* failures so far

db == <<rec, deleted, turn, exec, dbEpoch>>
leases == <<leased, capped, released>>
control == <<bound, why>>
counters == <<total, active>>
runtime == <<leases, control, chan, sig, counters>>
env == <<proc, guarded, expired>>
vars == <<rec, deleted, turn, exec, dbEpoch, req, worker, leased, capped, released,
          bound, why, chan, sig, total, active, proc, guarded, expired, faults>>

RequestPc == {"idle", "looked", "capped", "reserved", "begun", "attached", "bound",
              "closing", "view", "release", "relcap", "done", "dead"}
WorkerPc == {"none", "queued", "marked", "ready", "working", "saving", "saved", "fail",
             "stopped", "verdict", "conclude", "exit", "relcap", "exited", "dead"}
Result == {"succeeded", "failed", "error"}

\* Threads that are still executing code of this job.
RequestRuns(j) == req[j].pc \notin {"idle", "done", "dead"}
WorkerRuns(j) == worker[j].pc \notin {"none", "exited", "dead"}
-----------------------------------------------------------------------------
(***************************************************************************)
(* Helpers on the rows.                                                    *)
(***************************************************************************)

HistOf(j) == req[j].hist

\* _owned: the record is there for its owner.
Exists(h) == h \notin deleted

\* The row of a job can be read.
HasRow(j) == exec[j].status \notin {"none", "gone"}

\* Mutant: the operation id is looked up within one history only.
ExecutionOfHistory(h, o) == {k \in Job : HasRow(k) /\ req[k].op = o /\ HistOf(k) = h}

\* executions.by_operation / find_in_transaction: UNIQUE(owner, operation).
ExecutionOf(h, o) ==
    {k \in Job : HasRow(k) /\ req[k].op = o /\ OwnerOf[HistOf(k)] = OwnerOf[h]}

\* The token check: active turn, generation and epoch are still the job's own.
Current(j) ==
    /\ Exists(HistOf(j))
    /\ rec[HistOf(j)].active = j
    /\ rec[HistOf(j)].gen = exec[j].gen
    /\ dbEpoch = exec[j].epoch

\* A failure uses up one of the MaxFaults.
Fault == faults < MaxFaults /\ faults' = faults + 1
NoFault == UNCHANGED faults

\* Mutant: expected_context_revision is not compared.
CanBeginStale(j) ==
    /\ Exists(HistOf(j))
    /\ rec[HistOf(j)].active = None
    /\ dbEpoch = req[j].epoch

\* _begin accepts: no active turn, expected context revision, same epoch.
CanBegin(j) ==
    /\ Exists(HistOf(j))
    /\ rec[HistOf(j)].active = None
    /\ rec[HistOf(j)].ctx = req[j].rev
    /\ dbEpoch = req[j].epoch

\* _begin + insert_in_transaction.
InsertRows(j) ==
    LET h == HistOf(j) IN
    /\ rec' = [rec EXCEPT ![h].active = j, ![h].gen = @ + 1]
    /\ turn' = [turn EXCEPT ![j] = "accepted"]
    /\ exec' = [exec EXCEPT ![j] = [status |-> "accepted", reason |-> None,
                                    gen |-> rec[h].gen + 1, epoch |-> req[j].epoch]]
    /\ UNCHANGED <<deleted, dbEpoch>>

\* Mutant: a second stop request overwrites the first.
CanStopTwice(j) == exec[j].status \in Live /\ Current(j)

\* request_execution_stop may write: open row, current token.
CanStop(j) == exec[j].status \in Open /\ Current(j)

\* request_stop_in_transaction.
StopRow(j, r) ==
    /\ exec' = [exec EXCEPT ![j].status = "stopping", ![j].reason = r]
    /\ UNCHANGED <<rec, deleted, turn, dbEpoch>>

\* Mutant: a result is saved over a persisted stop.
CanFinishStopped(j) == exec[j].status \in Live /\ Current(j) /\ turn[j] = "accepted"

\* finish_attempt may write: open row, current token, turn still accepted.
CanFinish(j) == exec[j].status \in Open /\ Current(j) /\ turn[j] = "accepted"

\* finish_attempt + finish_in_transaction; s is "succeeded" or "failed".
FinishRows(j, s) ==
    /\ turn' = [turn EXCEPT ![j] = s]
    /\ rec' = [rec EXCEPT ![HistOf(j)].active = None,
                          ![HistOf(j)].ctx = IF s = "succeeded" THEN @ + 1 ELSE @]
    /\ exec' = [exec EXCEPT ![j].status = s]
    /\ UNCHANGED <<deleted, dbEpoch>>

\* _persist_stopped: the first persisted reason decides the terminal status.
Verdict == [user |-> "cancelled", deadline |-> "timed_out", auth |-> "failed"]

\* finish_execution_stopped + finish_stop_in_transaction.
FinishStopRows(j) ==
    /\ turn' = [turn EXCEPT ![j] = "failed"]
    /\ rec' = [rec EXCEPT ![HistOf(j)].active = None]
    /\ exec' = [exec EXCEPT ![j].status = Verdict[exec[j].reason]]
    /\ UNCHANGED <<deleted, dbEpoch>>

\* Mutant: executions that were asked to stop are not given up.
UnconfirmOpenRows(lost, hs) ==
    /\ turn' = [j \in Job |-> IF j \in lost /\ turn[j] = "accepted"
                              THEN "unconfirmed" ELSE turn[j]]
    /\ exec' = [j \in Job |-> IF j \in lost /\ exec[j].status \in Open
                              THEN [exec[j] EXCEPT !.status = "unconfirmed"] ELSE exec[j]]
    /\ rec' = [h \in History |-> IF h \in hs /\ rec[h].active # None
                                 THEN [rec[h] EXCEPT !.active = None, !.gen = @ + 1]
                                 ELSE rec[h]]
    /\ UNCHANGED deleted

\* Turns and executions of the jobs in lost become unconfirmed; the records in
\* hs lose their active turn and start a new generation.
UnconfirmRows(lost, hs) ==
    /\ turn' = [j \in Job |-> IF j \in lost /\ turn[j] = "accepted"
                              THEN "unconfirmed" ELSE turn[j]]
    /\ exec' = [j \in Job |-> IF j \in lost /\ exec[j].status \in Live
                              THEN [exec[j] EXCEPT !.status = "unconfirmed"] ELSE exec[j]]
    /\ rec' = [h \in History |-> IF h \in hs /\ rec[h].active # None
                                 THEN [rec[h] EXCEPT !.active = None, !.gen = @ + 1]
                                 ELSE rec[h]]
    /\ UNCHANGED deleted
-----------------------------------------------------------------------------
(***************************************************************************)
(* Helpers on the memory of the processes.                                 *)
(***************************************************************************)

\* HistoryRuntime._running of process p.
Running(p) == {HistOf(k) : k \in {k \in leased : req[k].epoch = p}}

\* serialize_operation: another request of the same account and operation id
\* is still inside submit in this process.
Serialized(p, h, o) ==
    \E k \in Job : /\ RequestRuns(k)
                   /\ req[k].epoch = p
                   /\ req[k].op = o
                   /\ OwnerOf[HistOf(k)] = OwnerOf[h]

\* _ExecutionStopControl.signal: the first reason wins, the channel turns to
\* "stopping" unless it is terminal.
Signal(j, r) ==
    /\ why' = [why EXCEPT ![j] = IF @ = None THEN r ELSE @]
    /\ chan' = [chan EXCEPT ![j] = IF why[j] = None /\ @ \in Open
                                   THEN "stopping" ELSE @]

\* ExecutionEventChannel.finish: the first terminal status wins.
FinishChannel(j, s) == chan' = [chan EXCEPT ![j] = IF @ \in Terminal THEN @ ELSE s]

\* reserve_owner's counters, and _release_owner's.
TakeCapacity(j) ==
    LET p == req[j].epoch IN LET o == OwnerOf[HistOf(j)] IN
    /\ total' = [total EXCEPT ![p] = @ + 1]
    /\ active' = [active EXCEPT ![p][o] = @ + 1]

GiveCapacity(j) ==
    LET p == req[j].epoch IN LET o == OwnerOf[HistOf(j)] IN
    /\ total' = [total EXCEPT ![p] = @ - 1]
    /\ active' = [active EXCEPT ![p][o] = @ - 1]

\* Mutant: releasing twice is not noticed.
ReleaseHistoryAgain(j) ==
    /\ released' = released \cup {j}
    /\ IF chan[j] = "none" THEN UNCHANGED chan ELSE FinishChannel(j, "unconfirmed")
    /\ bound' = bound \ {j}
    /\ leased' = leased \ {j}

\* First half of ExecutionLease.release, done once: the channel is finished
\* and dropped, the stop control deregistered, the history lease returned.
ReleaseHistory(j) ==
    /\ j \notin released
    /\ released' = released \cup {j}
    /\ IF chan[j] = "none" THEN UNCHANGED chan ELSE FinishChannel(j, "unconfirmed")
    /\ bound' = bound \ {j}
    /\ leased' = leased \ {j}

\* Second half: the capacity lease, after the history lease.
ReleaseCapacity(j) ==
    /\ capped' = capped \ {j}
    /\ GiveCapacity(j)

GoReq(j, pc) == req' = [req EXCEPT ![j].pc = pc]
GoWorker(j, pc) == worker' = [worker EXCEPT ![j].pc = pc]
-----------------------------------------------------------------------------
(***************************************************************************)
(* The request thread: ExecutionApplication.submit.                        *)
(***************************************************************************)

\* POST arrives in process p with the context revision the page showed; the
\* operation lock is taken and the operation looked up: a known operation is
\* answered from its row.
Submit(j, p, h, o, rev) ==
    /\ req[j].pc = "idle"
    /\ proc[p] \in {"up", "closing"}
    /\ ~Serialized(p, h, o)
    /\ req' = [req EXCEPT ![j] =
                 [pc |-> IF ExecutionOf(h, o) = {} THEN "looked" ELSE "done",
                  epoch |-> p, hist |-> h, op |-> o, rev |-> rev, seen |-> None]]
    /\ UNCHANGED <<db, worker, runtime, env, faults>>

\* runtime.check, the header, and reserve_owner.
CanReserveOwner(j) ==
    /\ req[j].epoch \in guarded
    /\ Exists(HistOf(j))
    /\ proc[req[j].epoch] = "up"
    /\ active[req[j].epoch][OwnerOf[HistOf(j)]] < MaxPerUser
    /\ total[req[j].epoch] < MaxTotal

ReserveOwner(j) ==
    /\ req[j].pc = "looked"
    /\ IF CanReserveOwner(j)
       THEN /\ TakeCapacity(j)
            /\ capped' = capped \cup {j}
            /\ GoReq(j, "capped")
       ELSE GoReq(j, "done") /\ UNCHANGED <<counters, capped>>
    /\ UNCHANGED <<db, worker, leased, released, control, chan, sig, env, faults>>

\* HistoryRuntime.reserve and the second look at _accepting; a refusal gives the
\* capacity back.
CanReserveHistory(j) ==
    /\ req[j].epoch \in guarded
    /\ proc[req[j].epoch] = "up"
    /\ HistOf(j) \notin Running(req[j].epoch)

ReserveHistory(j) ==
    /\ req[j].pc = "capped"
    /\ IF CanReserveHistory(j)
       THEN /\ leased' = leased \cup {j}
            /\ GoReq(j, "reserved")
            /\ UNCHANGED <<counters, capped>>
       ELSE ReleaseCapacity(j) /\ GoReq(j, "done") /\ UNCHANGED leased
    /\ UNCHANGED <<db, worker, released, control, chan, sig, env, faults>>

\* begin_execution_attempt.  A replayed operation, a refusal and a failure give
\* the lease back; a failure may come after the commit.
BeginAttempt(j) ==
    /\ req[j].pc = "reserved"
    /\ IF ExecutionOf(HistOf(j), req[j].op) = {} /\ CanBegin(j)
       THEN \/ NoFault /\ InsertRows(j) /\ GoReq(j, "begun")
            \/ Fault /\ InsertRows(j) /\ GoReq(j, "release")
            \/ Fault /\ UNCHANGED db /\ GoReq(j, "release")
       ELSE NoFault /\ UNCHANGED db /\ GoReq(j, "release")
    /\ UNCHANGED <<worker, runtime, env>>

\* _dispatch: attach_progress, then the row is read again.  An unreadable row
\* sends the request thread down the failure path.
AttachProgress(j) ==
    /\ req[j].pc = "begun"
    /\ chan' = [chan EXCEPT ![j] = "accepted"]
    /\ \/ /\ HasRow(j) /\ NoFault
          /\ req' = [req EXCEPT ![j].pc = "attached", ![j].seen = exec[j].reason]
          /\ UNCHANGED worker
       \/ /\ (IF HasRow(j) THEN Fault ELSE NoFault)
          /\ GoReq(j, "closing") /\ GoWorker(j, "fail")
    /\ UNCHANGED <<db, leases, control, sig, counters, env>>

\* bind_stop_control: a stop seen in the row just read is signalled, then the
\* control becomes visible to cancel and to the monitor.
BindStopControl(j) ==
    /\ req[j].pc = "attached"
    /\ bound' = bound \cup {j}
    /\ why' = [why EXCEPT ![j] = req[j].seen]
    /\ chan' = [chan EXCEPT ![j] = IF req[j].seen # None THEN "stopping" ELSE @]
    /\ req' = [req EXCEPT ![j].pc = "bound", ![j].seen = None]
    /\ UNCHANGED <<db, worker, leases, sig, counters, env, faults>>

\* ExecutionRuntime.submit; the executor may refuse the work.
Schedule(j) ==
    /\ req[j].pc = "bound"
    /\ \/ NoFault /\ GoReq(j, "view") /\ GoWorker(j, "queued")
       \/ Fault /\ GoReq(j, "closing") /\ GoWorker(j, "fail")
    /\ UNCHANGED <<db, runtime, env>>

\* _view builds the answer while the worker runs.  If it fails, submit's except
\* clause releases the lease that was already handed to the worker.
View(j) ==
    /\ req[j].pc = "view"
    /\ \/ NoFault /\ GoReq(j, "done")
       \/ Fault /\ GoReq(j, "release")
    /\ UNCHANGED <<db, worker, runtime, env>>

RequestRelease(j) ==
    /\ req[j].pc = "release"
    /\ \/ ReleaseHistory(j) /\ GoReq(j, "relcap")
       \/ j \in released /\ GoReq(j, "done") /\ UNCHANGED <<leased, released, bound, chan>>
    /\ UNCHANGED <<db, worker, capped, why, sig, counters, env, faults>>

RequestReleaseCapacity(j) ==
    /\ req[j].pc = "relcap"
    /\ ReleaseCapacity(j)
    /\ GoReq(j, "done")
    /\ UNCHANGED <<db, worker, leased, released, control, chan, sig, env, faults>>
-----------------------------------------------------------------------------
(***************************************************************************)
(* The worker thread: work_body, HistoryApplication._complete_attempt.     *)
(* After a failed dispatch the request thread ("closing") takes the same   *)
(* failure path.                                                           *)
(***************************************************************************)

\* The pool has MaxTotal threads.
PoolHasThread(p) ==
    Cardinality({k \in Job : /\ req[k].epoch = p
                             /\ req[k].pc # "closing"
                             /\ WorkerRuns(k)
                             /\ worker[k].pc # "queued"}) < MaxTotal

\* mark_execution_running: accepted -> running under the token; a stop already
\* persisted ends the attempt, anything else is a failure.
MarkRunning(j) ==
    /\ worker[j].pc = "queued"
    /\ PoolHasThread(req[j].epoch)
    /\ IF exec[j].status = "accepted" /\ Current(j) /\ turn[j] = "accepted"
       THEN \/ /\ exec' = [exec EXCEPT ![j].status = "running"]
               /\ \/ NoFault /\ GoWorker(j, "marked")
                  \/ Fault /\ GoWorker(j, "fail")
            \/ Fault /\ GoWorker(j, "fail") /\ UNCHANGED exec
       ELSE /\ UNCHANGED exec
            /\ \/ NoFault /\ GoWorker(j, CASE exec[j].status = "stopping" -> "stopped"
                                           [] exec[j].status = "running" -> "marked"
                                           [] OTHER -> "fail")
               \/ Fault /\ GoWorker(j, "fail")
    /\ UNCHANGED <<rec, deleted, turn, dbEpoch, req, runtime, env>>

\* progress.set_status("running"): ignored by a terminal channel, refused by a
\* channel that already shows "stopping".
ShowRunning(j) ==
    /\ worker[j].pc = "marked"
    /\ GoWorker(j, IF chan[j] = "stopping" THEN "fail" ELSE "ready")
    /\ chan' = [chan EXCEPT ![j] = IF @ \in Open THEN "running" ELSE @]
    /\ UNCHANGED <<db, req, leases, control, sig, counters, env, faults>>

\* What checkpoint and monitor find: the deadline, or a lost authorization (the
\* session or permission is revoked, or the history runtime's guard is lost).
StopCause(j) ==
    IF j \in expired THEN {"deadline"}
    ELSE IF "revoke" \in Events \/ req[j].epoch \notin guarded THEN {"auth"} ELSE {}

\* control.request_stop(r): persist, then signal what the row says; a failure
\* or a refusal is signalled locally only.
RequestStopAndSignal(j, r) ==
    \/ /\ CanStop(j) /\ NoFault
       /\ StopRow(j, r) /\ Signal(j, r)
    \/ /\ CanStop(j) /\ Fault
       /\ (StopRow(j, r) \/ UNCHANGED db)
       /\ Signal(j, r)
    \/ /\ ~CanStop(j) /\ NoFault /\ UNCHANGED db
       /\ CASE exec[j].status = "stopping" -> Signal(j, exec[j].reason)
            [] exec[j].status \in Terminal -> UNCHANGED <<why, chan>>
            [] OTHER -> Signal(j, r)
    \/ ~CanStop(j) /\ Fault /\ UNCHANGED db /\ Signal(j, r)

\* checkpoint, at the start and between the business steps.
Checkpoint(j) ==
    /\ worker[j].pc \in {"ready", "working"}
    /\ \/ /\ why[j] # None
          /\ GoWorker(j, "stopped")
          /\ NoFault /\ UNCHANGED <<db, why, chan>>
       \/ /\ why[j] = None
          /\ \E r \in StopCause(j) : RequestStopAndSignal(j, r)
          /\ GoWorker(j, "stopped")
       \/ /\ worker[j].pc = "ready"
          /\ why[j] = None /\ j \notin expired /\ req[j].epoch \in guarded
          /\ GoWorker(j, "working")
          /\ NoFault /\ UNCHANGED <<db, why, chan>>
    /\ UNCHANGED <<req, leases, bound, sig, counters, env>>

\* The business steps return: a result and a last checkpoint passed, a rejection
\* that is first saved as failed, or an unexpected exception.
BusinessEnds(j) ==
    /\ worker[j].pc = "working"
    /\ \/ /\ why[j] = None /\ j \notin expired /\ req[j].epoch \in guarded
          /\ \E r \in {"succeeded", "failed"} :
                worker' = [worker EXCEPT ![j] = [pc |-> "saving", result |-> r]]
       \/ worker' = [worker EXCEPT ![j] = [pc |-> "saving", result |-> "error"]]
       \/ GoWorker(j, "fail")
    /\ UNCHANGED <<db, req, runtime, env, faults>>

\* finish_attempt: a persisted stop wins, a changed row or token is refused.
SaveResult(j) ==
    LET s == IF worker[j].result = "succeeded" THEN "succeeded" ELSE "failed" IN
    /\ worker[j].pc = "saving"
    /\ IF CanFinish(j)
       THEN \/ /\ NoFault /\ FinishRows(j, s)
               /\ GoWorker(j, IF worker[j].result = "error" THEN "fail" ELSE "saved")
            \/ Fault /\ (FinishRows(j, s) \/ UNCHANGED db) /\ GoWorker(j, "fail")
       ELSE /\ UNCHANGED db
            /\ \/ NoFault /\ GoWorker(j, IF exec[j].status = "stopping"
                                         THEN "stopped" ELSE "fail")
               \/ Fault /\ GoWorker(j, "fail")
    /\ UNCHANGED <<req, runtime, env>>

\* progress.finish(turn.status) after the commit.
ShowResult(j) ==
    /\ worker[j].pc = "saved"
    /\ FinishChannel(j, worker[j].result)
    /\ GoWorker(j, "exit")
    /\ UNCHANGED <<db, req, leases, control, sig, counters, env, faults>>

\* _persist_worker_failure: one attempt to save the failure.
PersistFailure(j) ==
    /\ worker[j].pc = "fail"
    /\ IF CanFinish(j)
       THEN /\ \/ NoFault /\ FinishRows(j, "failed")
               \/ Fault /\ (FinishRows(j, "failed") \/ UNCHANGED db)
            /\ GoWorker(j, "conclude")
       ELSE /\ UNCHANGED db
            /\ \/ NoFault /\ GoWorker(j, IF exec[j].status = "stopping"
                                         THEN "stopped" ELSE "conclude")
               \/ Fault /\ GoWorker(j, "conclude")
    /\ UNCHANGED <<req, runtime, env>>

\* _persist_stopped, first transaction: make sure the stop is persisted.
PersistStop(j) ==
    /\ worker[j].pc = "stopped"
    /\ \/ /\ CanStop(j)
          /\ \/ NoFault /\ StopRow(j, why[j]) /\ GoWorker(j, "verdict")
             \/ Fault /\ (StopRow(j, why[j]) \/ UNCHANGED db) /\ GoWorker(j, "conclude")
       \/ /\ ~CanStop(j) /\ UNCHANGED db
          /\ \/ NoFault /\ GoWorker(j, IF exec[j].status = "stopping" /\ Exists(HistOf(j))
                                       THEN "verdict" ELSE "conclude")
             \/ Fault /\ GoWorker(j, "conclude")
    /\ UNCHANGED <<req, runtime, env>>

\* _persist_stopped, second transaction: the verdict of the persisted reason.
PersistVerdict(j) ==
    /\ worker[j].pc = "verdict"
    /\ IF exec[j].status = "stopping" /\ Current(j) /\ turn[j] = "accepted"
       THEN \/ NoFault /\ FinishStopRows(j)
            \/ Fault /\ (FinishStopRows(j) \/ UNCHANGED db)
       ELSE (NoFault \/ Fault) /\ UNCHANGED db
    /\ GoWorker(j, "conclude")
    /\ UNCHANGED <<req, runtime, env>>

\* Mutant: an outcome that cannot be read back is shown as failed.
FinishAsFailed(j) ==
    /\ worker[j].pc = "conclude"
    /\ \/ NoFault /\ FinishChannel(j, IF exec[j].status \in Confirmed
                                      THEN exec[j].status ELSE "failed")
       \/ Fault /\ FinishChannel(j, "failed")
    /\ IF req[j].pc = "closing"
       THEN GoWorker(j, "exited") /\ GoReq(j, "release")
       ELSE GoWorker(j, "exit") /\ UNCHANGED req
    /\ UNCHANGED <<db, leases, control, sig, counters, env>>

\* Mutant: a dispatch that failed forgets the lease.
FinishWithoutRelease(j) ==
    /\ worker[j].pc = "conclude"
    /\ NoFault
    /\ FinishChannel(j, IF exec[j].status \in Confirmed THEN exec[j].status ELSE "unconfirmed")
    /\ IF req[j].pc = "closing"
       THEN GoWorker(j, "exited") /\ GoReq(j, "done")
       ELSE GoWorker(j, "exit") /\ UNCHANGED req
    /\ UNCHANGED <<db, leases, control, sig, counters, env>>

\* _finish_from_persistence: the channel shows what the row says, or that
\* nothing is known.
FinishFromPersistence(j) ==
    /\ worker[j].pc = "conclude"
    /\ \/ NoFault /\ FinishChannel(j, IF exec[j].status \in Confirmed
                                      THEN exec[j].status ELSE "unconfirmed")
       \/ Fault /\ FinishChannel(j, "unconfirmed")
    /\ IF req[j].pc = "closing"
       THEN GoWorker(j, "exited") /\ GoReq(j, "release")
       ELSE GoWorker(j, "exit") /\ UNCHANGED req
    /\ UNCHANGED <<db, leases, control, sig, counters, env>>

\* run()'s finally clause.
WorkerRelease(j) ==
    /\ worker[j].pc = "exit"
    /\ \/ ReleaseHistory(j) /\ GoWorker(j, "relcap")
       \/ j \in released /\ GoWorker(j, "exited") /\ UNCHANGED <<leased, released, bound, chan>>
    /\ UNCHANGED <<db, req, capped, why, sig, counters, env, faults>>

WorkerReleaseCapacity(j) ==
    /\ worker[j].pc = "relcap"
    /\ ReleaseCapacity(j)
    /\ GoWorker(j, "exited")
    /\ UNCHANGED <<db, req, leased, released, control, chan, sig, env, faults>>
-----------------------------------------------------------------------------
(***************************************************************************)
(* Cancelling clients, the monitor thread, reading clients, deletion.      *)
(***************************************************************************)

\* cancel: request_execution_stop for the user; when the row is stopping the
\* local signal follows as a step of its own.  A failure after the commit leaves
\* the stop persisted and never signalled.
Cancel(j, p) ==
    /\ "cancel" \in Events
    /\ proc[p] \in {"up", "closing"}
    /\ exec[j].status \in Live
    /\ \/ /\ CanStop(j) /\ NoFault
          /\ StopRow(j, "user")
          /\ sig' = sig \cup {[job |-> j, proc |-> p, by |-> "cancel", reason |-> "user"]}
       \/ /\ CanStop(j) /\ Fault
          /\ StopRow(j, "user") /\ UNCHANGED sig
       \/ /\ exec[j].status = "stopping" /\ NoFault
          /\ UNCHANGED db
          /\ sig' = sig \cup {[job |-> j, proc |-> p, by |-> "cancel",
                               reason |-> exec[j].reason]}
    /\ UNCHANGED <<req, worker, leases, control, chan, counters, env>>

\* monitor_once on one registered control that is not stopped: persist the stop;
\* the signal follows, unless persisting failed or was refused, which stops the
\* local work only.
Monitor(j) ==
    /\ j \in bound /\ why[j] = None
    /\ proc[req[j].epoch] \in {"up", "closing"}
    /\ \E r \in StopCause(j) :
          \/ /\ CanStop(j) /\ NoFault
             /\ StopRow(j, r)
             /\ sig' = sig \cup {[job |-> j, proc |-> req[j].epoch, by |-> "monitor",
                                  reason |-> r]}
             /\ UNCHANGED <<why, chan>>
          \/ /\ exec[j].status = "stopping" /\ NoFault
             /\ sig' = sig \cup {[job |-> j, proc |-> req[j].epoch, by |-> "monitor",
                                  reason |-> exec[j].reason]}
             /\ UNCHANGED <<db, why, chan>>
          \/ /\ exec[j].status \in Open /\ ~CanStop(j) /\ NoFault
             /\ Signal(j, r) /\ UNCHANGED <<db, sig>>
          \/ /\ CanStop(j) /\ Fault
             /\ (StopRow(j, r) \/ UNCHANGED db)
             /\ Signal(j, r) /\ UNCHANGED sig
    /\ UNCHANGED <<req, worker, leases, bound, counters, env>>

\* The second half of cancel and monitor.  cancel looks the control up, and its
\* signal is lost when none is registered; the monitor holds the control itself.
DeliverSignal(m) ==
    /\ m \in sig
    /\ sig' = sig \ {m}
    /\ IF m.by = "monitor" \/ (m.job \in bound /\ req[m.job].epoch = m.proc)
       THEN Signal(m.job, m.reason)
       ELSE UNCHANGED <<why, chan>>
    /\ UNCHANGED <<db, req, worker, leases, bound, counters, env, faults>>

\* Mutant: the lease is not looked at.
ReconcileLeased(h, p) ==
    LET j == rec[h].active IN
    /\ proc[p] \in {"up", "closing"} /\ p \in guarded
    /\ Exists(h)
    /\ j # None
    /\ turn[j] = "accepted" /\ exec[j].epoch = p
    /\ UnconfirmRows({j}, {h})
    /\ UNCHANGED <<dbEpoch, req, worker, runtime, env, faults>>

\* header -> _reconcile: with no lease on the history in this process, an active
\* turn of this epoch is given up as unconfirmed.  The whole transaction runs
\* under the lock that also guards _running.
Reconcile(h, p) ==
    LET j == rec[h].active IN
    /\ proc[p] \in {"up", "closing"} /\ p \in guarded
    /\ Exists(h)
    /\ h \notin Running(p)
    /\ j # None
    /\ turn[j] = "accepted" /\ exec[j].epoch = p
    /\ UnconfirmRows({j}, {h})
    /\ UNCHANGED <<dbEpoch, req, worker, runtime, env, faults>>

\* Mutant: a history with an active turn is deleted.
DeleteBusyHistory(h, p) ==
    /\ "delete" \in Events
    /\ proc[p] \in {"up", "closing"} /\ p \in guarded
    /\ Exists(h)
    /\ deleted' = deleted \cup {h}
    /\ rec' = [rec EXCEPT ![h].gen = @ + 1]
    /\ turn' = [j \in Job |-> IF HistOf(j) = h THEN "none" ELSE turn[j]]
    /\ exec' = [j \in Job |-> IF HistOf(j) = h /\ exec[j].status # "none"
                              THEN [exec[j] EXCEPT !.status = "gone"] ELSE exec[j]]
    /\ UNCHANGED <<dbEpoch, req, worker, runtime, env, faults>>

\* delete_history: refused while a turn is active; turns and executions go with it.
DeleteHistory(h, p) ==
    /\ "delete" \in Events
    /\ proc[p] \in {"up", "closing"} /\ p \in guarded
    /\ Exists(h)
    /\ rec[h].active = None
    /\ deleted' = deleted \cup {h}
    /\ rec' = [rec EXCEPT ![h].gen = @ + 1]
    /\ turn' = [j \in Job |-> IF HistOf(j) = h THEN "none" ELSE turn[j]]
    /\ exec' = [j \in Job |-> IF HistOf(j) = h /\ exec[j].status # "none"
                              THEN [exec[j] EXCEPT !.status = "gone"] ELSE exec[j]]
    /\ UNCHANGED <<dbEpoch, req, worker, runtime, env, faults>>
-----------------------------------------------------------------------------
(***************************************************************************)
(* Processes and time.                                                     *)
(***************************************************************************)

\* HistoryRuntime.__init__ of the next process: the advisory lock is free when
\* the predecessor is down or lost its guard connection (and may still run).
StartProcess(p) ==
    /\ proc[p] = "off"
    /\ p = dbEpoch + 1
    /\ proc[dbEpoch] = "down" \/ dbEpoch \notin guarded
    /\ proc' = [proc EXCEPT ![p] = "up"]
    /\ guarded' = guarded \cup {p}
    /\ dbEpoch' = p
    /\ UnconfirmRows(Job, History)
    /\ UNCHANGED <<req, worker, runtime, expired, faults>>

\* The process dies with everything it had in memory.
Crash(p) ==
    /\ "crash" \in Events
    /\ proc[p] \in {"up", "closing"}
    /\ p < MaxEpoch
    /\ proc' = [proc EXCEPT ![p] = "down"]
    /\ guarded' = guarded \ {p}
    /\ req' = [j \in Job |-> IF req[j].epoch = p /\ RequestRuns(j)
                             THEN [req[j] EXCEPT !.pc = "dead"] ELSE req[j]]
    /\ worker' = [j \in Job |-> IF req[j].epoch = p /\ WorkerRuns(j)
                                THEN [worker[j] EXCEPT !.pc = "dead"] ELSE worker[j]]
    /\ leased' = {j \in leased : req[j].epoch # p}
    /\ capped' = {j \in capped : req[j].epoch # p}
    /\ bound' = {j \in bound : req[j].epoch # p}
    /\ chan' = [j \in Job |-> IF req[j].epoch = p THEN "none" ELSE chan[j]]
    /\ sig' = {m \in sig : m.proc # p}
    /\ total' = [total EXCEPT ![p] = 0]
    /\ active' = [active EXCEPT ![p] = [o \in Owner |-> 0]]
    /\ UNCHANGED <<db, released, why, expired, faults>>

\* The connection holding the advisory lock breaks; check() fails from now on.
LoseGuard(p) ==
    /\ "guard" \in Events
    /\ proc[p] \in {"up", "closing"}
    /\ p \in guarded
    /\ p < MaxEpoch
    /\ guarded' = guarded \ {p}
    /\ UNCHANGED <<db, req, worker, runtime, proc, expired, faults>>

\* close_admission, then drain: the process ends once no capacity is held.
CloseAdmission(p) ==
    /\ "close" \in Events
    /\ proc[p] = "up"
    /\ proc' = [proc EXCEPT ![p] = "closing"]
    /\ UNCHANGED <<db, req, worker, runtime, guarded, expired, faults>>

Drained(p) ==
    /\ proc[p] = "closing"
    /\ total[p] = 0
    /\ proc' = [proc EXCEPT ![p] = "down"]
    /\ guarded' = guarded \ {p}
    /\ UNCHANGED <<db, req, worker, runtime, expired, faults>>

\* The deadline of a live execution passes.
Expire(j) ==
    /\ "expire" \in Events
    /\ exec[j].status \in Live
    /\ j \notin expired
    /\ expired' = expired \cup {j}
    /\ UNCHANGED <<db, req, worker, runtime, proc, guarded, faults>>

\* Every request has been answered and every worker has left.
AtRest ==
    /\ \A j \in Job : ~RequestRuns(j) /\ ~WorkerRuns(j)
    /\ sig = {}
    /\ UNCHANGED vars
-----------------------------------------------------------------------------
Init ==
    /\ rec = [h \in History |-> [active |-> None, gen |-> 0, ctx |-> 0]]
    /\ deleted = {}
    /\ turn = [j \in Job |-> "none"]
    /\ exec = [j \in Job |-> [status |-> "none", reason |-> None, gen |-> 0, epoch |-> 0]]
    /\ dbEpoch = 1
    /\ req = [j \in Job |-> [pc |-> "idle", epoch |-> 0, hist |-> None, op |-> None,
                             rev |-> 0, seen |-> None]]
    /\ worker = [j \in Job |-> [pc |-> "none", result |-> "error"]]
    /\ leased = {}
    /\ capped = {}
    /\ released = {}
    /\ bound = {}
    /\ why = [j \in Job |-> None]
    /\ chan = [j \in Job |-> "none"]
    /\ sig = {}
    /\ total = [p \in Epoch |-> 0]
    /\ active = [p \in Epoch |-> [o \in Owner |-> 0]]
    /\ proc = [p \in Epoch |-> IF p = 1 THEN "up" ELSE "off"]
    /\ guarded = {1}
    /\ expired = {}
    /\ faults = 0

RequestThread(j) ==
    \/ ReserveOwner(j) \/ ReserveHistory(j) \/ BeginAttempt(j) \/ AttachProgress(j)
    \/ BindStopControl(j) \/ Schedule(j) \/ View(j)
    \/ RequestRelease(j) \/ RequestReleaseCapacity(j)

WorkerThread(j) ==
    \/ MarkRunning(j) \/ ShowRunning(j) \/ Checkpoint(j) \/ BusinessEnds(j)
    \/ SaveResult(j) \/ ShowResult(j) \/ PersistFailure(j) \/ PersistStop(j)
    \/ PersistVerdict(j) \/ FinishFromPersistence(j)
    \/ WorkerRelease(j) \/ WorkerReleaseCapacity(j)

Next ==
    \/ \E j \in Job, p \in Epoch, h \in History, o \in Operation :
          \E rev \in 0..rec[h].ctx : Submit(j, p, h, o, rev)
    \/ \E j \in Job : RequestThread(j) \/ WorkerThread(j) \/ Monitor(j) \/ Expire(j)
    \/ \E j \in Job, p \in Epoch : Cancel(j, p)
    \/ \E m \in sig : DeliverSignal(m)
    \/ \E h \in History, p \in Epoch : Reconcile(h, p) \/ DeleteHistory(h, p)
    \/ \E p \in Epoch : \/ StartProcess(p) \/ Crash(p) \/ LoseGuard(p)
                        \/ CloseAdmission(p) \/ Drained(p)
    \/ AtRest

Spec == Init /\ [][Next]_vars

(***************************************************************************)
(* Threads that can run do run; a persisted stop is signalled; somebody    *)
(* keeps looking at the history, so reconciliation is not postponed for    *)
(* ever; a service that died is started again.  Nothing makes a client     *)
(* submit or cancel, or time pass.                                         *)
(***************************************************************************)
Fairness ==
    /\ \A j \in Job : WF_vars(RequestThread(j)) /\ WF_vars(WorkerThread(j))
    /\ WF_vars(\E m \in sig : DeliverSignal(m))
    /\ \A h \in History, p \in Epoch : WF_vars(Reconcile(h, p))
    /\ \A p \in Epoch : WF_vars(StartProcess(p))

FairSpec == Spec /\ Fairness
-----------------------------------------------------------------------------
(***************************************************************************)
(* Properties.                                                             *)
(***************************************************************************)

RecType == [active : Job \cup {None}, gen : Nat, ctx : Nat]
TurnType == {"none", "accepted", "succeeded", "failed", "unconfirmed"}
ExecType == [status : RowStatus, reason : Reason \cup {None}, gen : Nat,
             epoch : {0} \cup Epoch]
ReqType == [pc : RequestPc, epoch : {0} \cup Epoch, hist : History \cup {None},
            op : Operation \cup {None}, rev : Nat, seen : Reason \cup {None}]
WorkerType == [pc : WorkerPc, result : Result]
ChanType == {"none"} \cup Live \cup Terminal
SigType == [job : Job, proc : Epoch, by : {"cancel", "monitor"}, reason : Reason]

\* Every variable has its type.
TypeOK ==
    /\ rec \in [History -> RecType]
    /\ deleted \subseteq History
    /\ turn \in [Job -> TurnType]
    /\ exec \in [Job -> ExecType]
    /\ dbEpoch \in Epoch
    /\ req \in [Job -> ReqType]
    /\ worker \in [Job -> WorkerType]
    /\ leased \subseteq Job
    /\ capped \subseteq Job
    /\ released \subseteq Job
    /\ bound \subseteq Job
    /\ why \in [Job -> Reason \cup {None}]
    /\ chan \in [Job -> ChanType]
    /\ sig \subseteq SigType
    /\ total \in [Epoch -> Int]
    /\ active \in [Epoch -> [Owner -> Int]]
    /\ proc \in [Epoch -> {"off", "up", "closing", "down"}]
    /\ guarded \subseteq Epoch
    /\ expired \subseteq Job
    /\ faults \in Nat

\* The record's active turn is the one live execution of the history: the
\* execution row, the turn row and the record are moved together by every
\* transaction, whatever crashes, zombies and late workers do.
LiveIsActive ==
    \A j \in Job : exec[j].status \in Live =>
        /\ HistOf(j) \in History
        /\ rec[HistOf(j)].active = j
        /\ turn[j] = "accepted"

ActiveIsLive ==
    \A h \in History : rec[h].active # None =>
        LET j == rec[h].active IN
        /\ exec[j].status \in Live
        /\ turn[j] = "accepted"
        /\ HistOf(j) = h
        /\ exec[j].gen = rec[h].gen
        /\ exec[j].epoch = dbEpoch
        /\ h \notin deleted

RowsAgree == LiveIsActive /\ ActiveIsLive

\* The first persisted stop reason decides: an execution that was asked to stop
\* ends as that reason says or unconfirmed, never succeeded; and nothing is
\* cancelled or timed out that was not asked to stop.
FirstReasonDecides ==
    \A j \in Job :
        /\ exec[j].reason # None =>
              exec[j].status \in {"stopping", Verdict[exec[j].reason], "unconfirmed", "gone"}
        /\ exec[j].reason = None => exec[j].status \notin {"stopping", "cancelled", "timed_out"}

\* While an execution is live the context it was accepted against stands still,
\* so a result is only ever saved on the context it was computed from.
ContextStandsStill ==
    \A j \in Job : exec[j].status \in Live => rec[HistOf(j)].ctx = req[j].rev

\* An operation id has at most one execution per account, however many times
\* and in whichever process it is posted.
OneExecutionPerOperation ==
    \A j, k \in Job :
        (HasRow(j) /\ HasRow(k) /\ req[j].op = req[k].op
           /\ OwnerOf[HistOf(j)] = OwnerOf[HistOf(k)]) => j = k

\* An observer who is told a definite outcome is told the persisted one.
ObserverSeesPersisted ==
    \A j \in Job : chan[j] \in Confirmed => exec[j].status \in {chan[j], "gone"}

\* The capacity counters count exactly the leases held, and stay within limits.
CapacityAccounted ==
    \A p \in Epoch :
        /\ total[p] = Cardinality({j \in capped : req[j].epoch = p})
        /\ total[p] <= MaxTotal
        /\ \A o \in Owner :
              /\ active[p][o] = Cardinality({j \in capped : /\ req[j].epoch = p
                                                            /\ OwnerOf[HistOf(j)] = o})
              /\ active[p][o] <= MaxPerUser

\* Nobody gives up an execution of the running process whose lease is held.
UnconfirmedHasNoLease ==
    \A j \in Job : (exec[j].status = "unconfirmed" /\ exec[j].epoch = dbEpoch) => j \notin leased

\* In one process a history is leased to one job at a time.
HistoryLeasedOnce ==
    \A j, k \in leased :
        (req[j].epoch = req[k].epoch /\ HistOf(j) = HistOf(k)) => j = k

\* While a job holds the history lease of the runtime, reconciliation and a second
\* submission stay away from its history (both parts above).
LeaseGuardsHistory == UnconfirmedHasNoLease /\ HistoryLeasedOnce

\* A concluded execution never changes again (it can only go with its history),
\* and a persisted stop reason is never replaced.
ConclusionIsFinal ==
    [][\A j \in Job :
         /\ exec[j].status \in Terminal => exec'[j].status \in {exec[j].status, "gone"}
         /\ exec[j].reason # None => exec'[j].reason = exec[j].reason]_vars

\* ExecutionRuntime's docstring: account, process and history stay occupied until
\* the worker has really left.
LeaseCoversWorker ==
    \A j \in Job :
        (WorkerRuns(j) /\ worker[j].pc \notin {"exit", "relcap"}) => j \in capped \cap leased

\* The rows implement the contract of an execution.
Contract == INSTANCE ExecutionContract WITH
    Execution <- Job,
    status <- [j \in Job |-> exec[j].status],
    reason <- [j \in Job |-> exec[j].reason],
    hist <- [j \in Job |-> IF exec[j].status = "none" THEN None ELSE HistOf(j)],
    context <- [h \in History |-> rec[h].ctx]
ContractSpec == Contract!Spec

\* Every lease is returned, so close() comes back from drain().
LeaseReturned == \A j \in Job : (j \in capped) ~> (j \notin capped)

\* A persisted stop is carried through to a conclusion.
StopConcludes == \A j \in Job : exec[j].status = "stopping" ~> exec[j].status \notin Live
=============================================================================
