------------------------------ MODULE Lifespan ------------------------------
(***************************************************************************)
(* One life of the API process: create_runtime (bootstrap/runtime.py)      *)
(* acquires the resources one after the other and registers how each is    *)
(* given back; the lifespan of the application (query_api/app.py) adds the *)
(* analysis, the executions and the exports, serves, and takes everything  *)
(* down again while request threads and workers may still be under way.    *)
(* Any step may fail, at the start and at the end.  A thread is known by   *)
(* the leases it holds; what it computes is in the other modules.          *)
(***************************************************************************)
EXTENDS Naturals, Sequences, FiniteSets, SequencesExt

CONSTANTS
  Thread,     \* bound: requests
  MaxFaults   \* bound: steps that fail

LifespanAssumption == MaxFaults \in Nat

(* What is acquired, in this order.  "dependencies" verifies, "settings" reads the browser
   settings, "bindings" publishes the applications; they hold nothing. *)
Startup == <<"tracing", "control_database", "llm_http", "llm_async_http", "rag", "dependencies",
             "operations_monitor", "history", "settings", "business_analysis", "execution", "bindings", "export">>
Resource == Range(Startup) \ {"dependencies", "settings", "bindings"}

(* The leases a request takes, in this order: the place of its account (ExecutionRuntime),
   its history (HistoryRuntime), its analysis run (AnalysisExecutionGuard). *)
Leases == [query     |-> <<"owner">>,
           analysis  |-> <<"owner", "run">>,
           continue  |-> <<"history", "owner">>,
           resume    |-> <<"history", "owner", "run">>,
           execution |-> <<"owner", "history", "run">>]

VARIABLES
  phase,      \* where the lifespan is
  step,       \* the step of Startup that comes next
  got,        \* resources acquired in this life
  open,       \* those not given back yet
  stack,      \* AsyncExitStack: cleanups registered
  failed,     \* resources whose cleanup raised
  accepting,  \* leases still given out
  bound,      \* app.state holds the applications of this life
  thread,     \* request threads and workers
  faults      \* steps that failed

vars == <<phase, step, got, open, stack, failed, accepting, bound, thread, faults>>
life == <<step, got, stack, failed, accepting, bound, faults>>

Idle == [pc |-> "idle", kind |-> "query", held |-> <<>>]

(* lifespan begins with a new AnalysisExecutionGuard. *)
Init ==
  /\ phase = "starting" /\ step = 1 /\ got = {} /\ open = {} /\ stack = <<>> /\ failed = {}
  /\ accepting = {"run"} /\ bound = FALSE /\ faults = 0
  /\ thread = [k \in Thread |-> Idle]

-----------------------------------------------------------------------------
(***************************************************************************)
(* Starting.                                                               *)
(***************************************************************************)
(* register_cleanup; the executions and the exports are closed by the lifespan itself, and
   the histories are drained before the analysis goes. *)
Registers(r) ==
  CASE r \in {"dependencies", "settings", "bindings", "execution", "export"} -> <<>>
    [] r = "business_analysis" -> <<r, "history_drain">>
    [] OTHER -> <<r>>

LeasesOf(r) ==
  CASE r = "history" -> {"history"} [] r = "execution" -> {"owner"} [] OTHER -> {}

PublishBindings(r) == bound \/ r = "bindings"

(* Retrieval may be switched off. *)
Acquire ==
  LET r == Startup[step] IN
  /\ phase = "starting" /\ step' = step + 1
  /\ \/ /\ got' = got \cup ({r} \cap Resource) /\ open' = open \cup ({r} \cap Resource)
        /\ stack' = stack \o Registers(r)
     \/ r = "rag" /\ UNCHANGED <<got, open, stack>>
  /\ accepting' = accepting \cup LeasesOf(r)
  /\ bound' = PublishBindings(r)
  /\ phase' = IF step = Len(Startup) THEN "serving" ELSE phase
  /\ UNCHANGED <<failed, thread, faults>>

(* A step fails and leaves nothing of its own behind (HistoryRuntime closes its connection,
   build_analysis_application its pools).  The exports are not needed to serve; from the
   analysis on the lifespan takes down what there is; before, create_runtime unwinds. *)
StartFails ==
  /\ phase = "starting" /\ faults < MaxFaults /\ faults' = faults + 1
  /\ step' = step + 1
  /\ phase' = CASE Startup[step] = "export" -> "serving"
                [] Startup[step] \in {"business_analysis", "execution", "bindings"} -> "export"
                [] OTHER -> "unwinding"
  /\ UNCHANGED <<got, open, stack, failed, accepting, bound, thread>>

-----------------------------------------------------------------------------
(***************************************************************************)
(* Requests.  A thread keeps the applications it found when it was asked.  *)
(***************************************************************************)
Ask(k) ==
  /\ thread[k].pc = "idle" /\ phase = "serving" /\ bound
  /\ \E kind \in DOMAIN Leases : thread' = [thread EXCEPT ![k] = [Idle EXCEPT !.pc = "asked", !.kind = kind]]
  /\ UNCHANGED <<phase, open, life>>

(* admit_owner looks at the runtime app.state holds now; the others are asked directly. *)
Gives(l) == l \in accepting /\ (l = "owner" => bound)

(* A lease is refused where nothing is accepted any more, and also for want of room. *)
TakeLease(k) ==
  LET wanted == Leases[thread[k].kind]
      held == thread[k].held
      l == wanted[Len(held) + 1]
  IN
  /\ thread[k].pc = "asked"
  /\ \/ /\ Gives(l)
        /\ thread' = [thread EXCEPT ![k].held = Append(held, l),
                                    ![k].pc = IF Len(held) + 1 = Len(wanted) THEN "work" ELSE "asked"]
     \/ thread' = [thread EXCEPT ![k].pc = "leaving"]
  /\ UNCHANGED <<phase, open, life>>

(* An execution is handed to a worker; an error of the request thread after that releases the
   leases of the worker (ExecutionLifecycle, LeaseCoversWorker). *)
LoseLeases(k) ==
  /\ thread[k].pc = "work" /\ thread[k].kind = "execution" /\ thread[k].held # <<>>
  /\ thread' = [thread EXCEPT ![k].held = <<>>]
  /\ UNCHANGED <<phase, open, life>>

Finish(k) ==
  /\ thread[k].pc = "work" /\ thread' = [thread EXCEPT ![k].pc = "leaving"]
  /\ UNCHANGED <<phase, open, life>>

Leave(k) ==
  LET held == thread[k].held IN
  /\ thread[k].pc = "leaving"
  /\ thread' = [thread EXCEPT ![k] = IF held = <<>> THEN [Idle EXCEPT !.pc = "over"] ELSE [@ EXCEPT !.held = Front(held)]]
  /\ UNCHANGED <<phase, open, life>>

-----------------------------------------------------------------------------
(***************************************************************************)
(* Taking down: exports, executions, analysis guard, bindings, and then    *)
(* the registered cleanups from the last to the first.  An exception goes  *)
(* on to the next step (finally, register_cleanup).                        *)
(***************************************************************************)
Shutdown ==
  /\ phase = "serving" /\ phase' = "export"
  /\ UNCHANGED <<open, thread, life>>

CloseFails(r) ==
  \/ UNCHANGED <<failed, faults>> /\ open' = open \ {r}
  \/ faults < MaxFaults /\ faults' = faults + 1 /\ failed' = failed \cup {r} /\ UNCHANGED open

CloseExport ==
  /\ phase = "export" /\ phase' = "execution"
  /\ IF "export" \in open THEN CloseFails("export") ELSE UNCHANGED <<open, failed, faults>>
  /\ UNCHANGED <<step, got, stack, accepting, bound, thread>>

\* Mutant: nobody waits for those who still hold the lease.
DrainedAtOnce(l) == l \in {"owner", "run", "history"}

Drained(l) == \A k \in Thread : ~Contains(thread[k].held, l)

(* ThreadPoolExecutor.shutdown(wait=True): workers, leases or not. *)
WorkersEnded == \A k \in Thread : thread[k].kind = "execution" => thread[k].pc # "work"

(* ExecutionRuntime.close: admission first, then those who are in, then the workers. *)
CloseExecution ==
  /\ phase = "execution"
  /\ IF "owner" \in accepting
     THEN accepting' = accepting \ {"owner"} /\ UNCHANGED <<phase, open>>
     ELSE /\ Drained("owner") /\ WorkersEnded
          /\ open' = open \ {"execution"} /\ phase' = "guard" /\ UNCHANGED accepting
  /\ UNCHANGED <<step, got, stack, failed, bound, thread, faults>>

DrainGuard ==
  /\ phase = "guard"
  /\ IF "run" \in accepting
     THEN accepting' = accepting \ {"run"} /\ UNCHANGED <<phase, bound>>
     ELSE Drained("run") /\ phase' = "unwinding" /\ bound' = FALSE /\ UNCHANGED accepting
  /\ UNCHANGED <<step, got, open, stack, failed, thread, faults>>

(* HistoryRuntime.drain and close. *)
DrainHistory ==
  /\ phase = "unwinding" /\ stack # <<>> /\ Last(stack) \in {"history_drain", "history"}
  /\ IF "history" \in accepting
     THEN accepting' = accepting \ {"history"} /\ UNCHANGED <<open, stack, failed, faults>>
     ELSE /\ Drained("history") /\ stack' = Front(stack) /\ UNCHANGED accepting
          /\ IF Last(stack) = "history" THEN CloseFails("history") ELSE UNCHANGED <<open, failed, faults>>
  /\ UNCHANGED <<phase, step, got, bound, thread>>

Unwind ==
  /\ phase = "unwinding" /\ stack # <<>> /\ Last(stack) \notin {"history_drain", "history"}
  /\ stack' = Front(stack) /\ CloseFails(Last(stack))
  /\ UNCHANGED <<phase, step, got, accepting, bound, thread>>

Exit ==
  /\ phase = "unwinding" /\ stack = <<>> /\ phase' = "down"
  /\ UNCHANGED <<open, thread, life>>

Next ==
  \/ Acquire \/ StartFails
  \/ \E k \in Thread : Ask(k) \/ TakeLease(k) \/ LoseLeases(k) \/ Finish(k) \/ Leave(k)
  \/ Shutdown \/ CloseExport \/ CloseExecution \/ DrainGuard \/ DrainHistory \/ Unwind \/ Exit

Spec == Init /\ [][Next]_vars

-----------------------------------------------------------------------------
\* Types.
TypeOK ==
  /\ open \subseteq got /\ got \subseteq Resource /\ failed \subseteq got
  /\ accepting \subseteq {"owner", "run", "history"} /\ step \in 1 .. Len(Startup) + 1
  /\ \A k \in Thread : thread[k].pc \in {"idle", "asked", "work", "leaving", "over"}

(* While anybody works, with or without its leases, only the exports may be gone; while
   anybody holds a lease, only the exports and the executions may be.
   (lifespan, create_runtime) *)
WorkStandsOnOpen ==
  \A k \in Thread :
    /\ thread[k].pc = "work" => got \ {"export"} \subseteq open
    /\ thread[k].held # <<>> => got \ {"export", "execution"} \subseteq open

(* However a start fails and whatever cleanup raises, in the end everything acquired was
   given back or asked to go, nothing is published and nobody is inside.
   (register_cleanup, lifespan) *)
NothingLeft ==
  phase = "down" =>
    /\ open \subseteq failed /\ ~bound
    /\ \A k \in Thread : thread[k].held = <<>> /\ thread[k].pc # "work"

LifespanHolds == TypeOK /\ WorkStandsOnOpen /\ NothingLeft
=============================================================================
